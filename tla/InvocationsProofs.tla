-------------------------- MODULE InvocationsProofs -------------------------
(***************************************************************************)
(* The safety properties of several commands at work on one project, for   *)
(* any number of processes, any configuration, any devices and whatever    *)
(* Gradle writes.  The stages a process has left always form a plan (first *)
(* half), so that the stage it is at tells what it has done; the           *)
(* invariants of the second half speak of the first stage alone.           *)
(***************************************************************************)
EXTENDS Invocations, ProofFacts, FiniteSetTheorems

-----------------------------------------------------------------------------
(***************************************************************************)
(* Plans.  The stages a process has left always form one: the first may be *)
(* any, every other comes after one it may follow, and what a failure or   *)
(* a cached model skips to is still ahead.                                 *)
(***************************************************************************)
Writing == {"temporary", "sync", "rename", "sync-directory"}
Early == {"validate", "discover", "config", "cache", "set-aside", "extract", "open", "fill",
          "verify", "install-bridge", "evaluate", "cache-again", "publish", "opened", "sdk",
          "runtime", "devices"} \cup Writing
Touching == {"assemble", "existing", "uninstall", "find", "install", "launch", "stop", "clear"}
Asking == {"use-preset", "load-presets", "add-preset", "trust", "decide"}
Runs == {"run", "reinstall", "clean-reinstall"}
Selecting == Runs \cup {"test", "build", "install", "launch", "rerun", "stop", "uninstall",
                        "clear-data"}

\* Stages whose failure, or whose other way on, leads to the stage "opened".
Opening(x) == x.exit = Fallback \/ x.do \in {"cache", "extract", "cache-again"}

Possible(r, x) == /\ x.exit \notin {"running", "Success"}
                  /\ x.do # "set-aside" => x.exit # Unnoticed
                  /\ Opening(x) => x.do \in Early
                  /\ x.do \in {"profile"} \cup Touching => r.command \in Selecting
                  /\ x.do \in Touching => r.command # "test"
                  /\ x.do \in Asking => r.command \notin Selecting
                  /\ x.do \in {"uninstall", "clear"} => IsDestructive(r.command)

Precedes(r, a, b) ==
  /\ b.do = "cache-again" => a.do = "evaluate"
  /\ b.do = "temporary" => \/ a.do = "cache-again" /\ b.file = "bundle"
                           \/ a.do = "set-aside" /\ a.exit # Unnoticed
  /\ b.do = "sync" => a.do = "temporary" /\ a.file = b.file
  /\ b.do = "rename" => a.do = "sync" /\ a.file = b.file
  /\ b.do = "sync-directory" => a.do = "rename" /\ a.file = b.file
  /\ b.do = "publish" => a.do = "sync-directory" /\ a.file = "bundle"
  /\ b.do = "working-directory" => a.do = "decide" \/ (a.do = "sync-directory" /\ a.file = "trust")
  /\ b.do = "run" => a.do = "working-directory"
  /\ b.do = "ask" => a.do = "trust" \/ (a.do = "set-aside" /\ a.file = "trust")
  /\ b.do # "set-aside"
  /\ r.command \in Selecting /\ b.do \in Early \cup {"profile"} => a.do \in Early
  /\ b.do \in Touching => a.do \in Touching \cup {"confirm"}
  /\ b.do = "confirm" => a.do = "profile"
  /\ b.do = "spawn" => a.do = "wipe"
  /\ r.command \in Runs =>
       /\ b.do = "uninstall" => a.do = "assemble"
       /\ b.do = "find" => a.do \in {"assemble", "uninstall"}
       /\ b.do = "install" => a.do = "find"
       /\ b.do = "launch" => a.do = "install"
       /\ b.do = "report" => a.do = "launch"

Closes(r, x) == /\ r.command \in Runs => x.do = "report"
                /\ r.command = "test" => x.do = "verdict"

IsSeq(s) == \E R : s \in Seq(R)

Chained(r, s) ==
  /\ IsSeq(s)
  /\ \A i \in 1 .. Len(s) : Possible(r, s[i])
  /\ \A i \in 1 .. Len(s) - 1 : Precedes(r, s[i], s[i + 1])

Opens(s) == \A i \in 1 .. Len(s) : Opening(s[i]) => \E j \in i .. Len(s) : s[j].do = "opened"

Plan(r, s) == Chained(r, s) /\ Opens(s) /\ (s # <<>> => Closes(r, s[Len(s)]))

\* A part of a plan, from the stage a to the stage z.
Part(r, s, a, z) == Chained(r, s) /\ s # <<>> /\ s[1] = a /\ s[Len(s)] = z

-----------------------------------------------------------------------------
\* Two sequences, one after the other.
LEMMA OneAfterTheOther ==
  ASSUME NEW s, NEW t, IsSeq(s), IsSeq(t)
  PROVE  /\ IsSeq(s \o t) /\ Len(s \o t) = Len(s) + Len(t)
         /\ \A i \in 1 .. Len(s) : (s \o t)[i] = s[i]
         /\ \A i \in 1 .. Len(t) : (s \o t)[Len(s) + i] = t[i]
         /\ Len(s) \in Nat /\ Len(t) \in Nat
         /\ s # <<>> => Len(s) >= 1
         /\ t # <<>> => Len(t) >= 1
  <1>1. PICK R : s \in Seq(R)
    BY DEF IsSeq
  <1>2. PICK S : t \in Seq(S)
    BY DEF IsSeq
  <1> DEFINE B == R \cup S
  <1>3. s \in Seq(B) /\ t \in Seq(B)
    BY <1>1, <1>2, SeqGrows
  <1> HIDE DEF B
  <1>4. s \o t \in Seq(B)
    BY <1>3
  <1> QED
    BY <1>3, <1>4 DEF IsSeq

\* One that is not empty, and its place for any of its elements.
LEMMA PlaceOf ==
  ASSUME NEW l \in Nat, NEW m \in Nat, NEW i \in 1 .. l + m
  PROVE  i \in 1 .. l \/ (i - l \in 1 .. m /\ l + (i - l) = i /\ i > l)
  OBVIOUS

\* Two chains are one if the second may follow the first.
LEMMA LinkChained ==
  ASSUME NEW r, NEW s, NEW t, Chained(r, s), Chained(r, t), s # <<>>, t # <<>>,
         Precedes(r, s[Len(s)], t[1])
  PROVE  Chained(r, s \o t)
  <1> PICK u : u = s \o t
    OBVIOUS
  <1>l. PICK l : l = Len(s)
    OBVIOUS
  <1>m. PICK m : m = Len(t)
    OBVIOUS
  <1>1. /\ IsSeq(u) /\ Len(u) = l + m
        /\ \A i \in 1 .. l : u[i] = s[i]
        /\ \A i \in 1 .. m : u[l + i] = t[i]
        /\ l \in Nat /\ m \in Nat /\ l >= 1 /\ m >= 1
    BY <1>l, <1>m, OneAfterTheOther DEF Chained
  <1>2. ASSUME NEW i \in 1 .. l + m PROVE Possible(r, u[i])
    <2>1. CASE i \in 1 .. l
      BY <2>1, <1>1, <1>l DEF Chained
    <2>2. CASE i - l \in 1 .. m /\ l + (i - l) = i
      BY <2>2, <1>1, <1>m DEF Chained
    <2> QED
      BY <2>1, <2>2, <1>1, PlaceOf
  <1>3. ASSUME NEW i \in 1 .. l + m - 1 PROVE Precedes(r, u[i], u[i + 1])
    <2>1. CASE i < l
      <3>1. i \in 1 .. l /\ i + 1 \in 1 .. l /\ i \in 1 .. l - 1
        BY <2>1, <1>1
      <3> QED
        BY <3>1, <1>1, <1>l DEF Chained
    <2>2. CASE i = l
      <3>1. l \in 1 .. l /\ 1 \in 1 .. m
        BY <1>1
      <3> QED
        BY <2>2, <3>1, <1>1, <1>l
    <2>3. CASE i > l
      <3>1. PICK k : k = i - l
        OBVIOUS
      <3>2. k \in 1 .. m /\ k + 1 \in 1 .. m /\ k \in 1 .. m - 1 /\ i = l + k /\ i + 1 = l + (k + 1)
        BY <2>3, <3>1, <1>1
      <3> QED
        BY <3>2, <1>1, <1>m DEF Chained
    <2> QED
      BY <2>1, <2>2, <2>3, <1>1
  <1> QED
    BY <1>1, <1>2, <1>3 DEF Chained

\* Their ends.
LEMMA LinkParts ==
  ASSUME NEW r, NEW s, NEW t, NEW a, NEW b, NEW y, NEW z,
         Part(r, s, a, y), Part(r, t, b, z), Precedes(r, y, b)
  PROVE  Part(r, s \o t, a, z)
  <1>1. Chained(r, s \o t)
    BY LinkChained DEF Part
  <1>l. PICK l : l = Len(s)
    OBVIOUS
  <1>m. PICK m : m = Len(t)
    OBVIOUS
  <1>2. /\ Len(s \o t) = l + m /\ l \in Nat /\ m \in Nat /\ l >= 1 /\ m >= 1
        /\ \A i \in 1 .. l : (s \o t)[i] = s[i]
        /\ \A i \in 1 .. m : (s \o t)[l + i] = t[i]
    BY <1>l, <1>m, OneAfterTheOther DEF Part, Chained
  <1>3. 1 \in 1 .. l /\ m \in 1 .. m
    BY <1>2
  <1>4. s \o t # <<>>
    BY <1>2
  <1>5. (s \o t)[1] = a /\ (s \o t)[Len(s \o t)] = z
    BY <1>2, <1>3, <1>l, <1>m DEF Part
  <1> QED
    BY <1>1, <1>4, <1>5 DEF Part

\* What is ahead stays ahead when more follows or comes before.
LEMMA LinkOpens ==
  ASSUME NEW s, NEW t, IsSeq(s), IsSeq(t), Opens(t),
         \A i \in 1 .. Len(s) : Opening(s[i]) =>
           (\E j \in i .. Len(s) : s[j].do = "opened") \/ \E j \in 1 .. Len(t) : t[j].do = "opened"
  PROVE  Opens(s \o t)
  <1> PICK u : u = s \o t
    OBVIOUS
  <1>l. PICK l : l = Len(s)
    OBVIOUS
  <1>m. PICK m : m = Len(t)
    OBVIOUS
  <1>1. /\ Len(u) = l + m /\ l \in Nat /\ m \in Nat
        /\ \A i \in 1 .. l : u[i] = s[i]
        /\ \A i \in 1 .. m : u[l + i] = t[i]
    BY <1>l, <1>m, OneAfterTheOther
  <1>2. ASSUME NEW i \in 1 .. l + m, Opening(u[i]) PROVE \E j \in i .. l + m : u[j].do = "opened"
    <2>1. CASE i \in 1 .. l
      <3>1. Opening(s[i])
        BY <2>1, <1>1, <1>2
      <3>2. ASSUME NEW j \in i .. l, s[j].do = "opened"
            PROVE  \E k \in i .. l + m : u[k].do = "opened"
        <4>1. j \in 1 .. l /\ j \in i .. l + m
          BY <2>1, <1>1
        <4> QED
          BY <4>1, <3>2, <1>1
      <3>3. ASSUME NEW j \in 1 .. m, t[j].do = "opened"
            PROVE  \E k \in i .. l + m : u[k].do = "opened"
        <4>1. l + j \in i .. l + m
          BY <2>1, <1>1
        <4> QED
          BY <4>1, <3>3, <1>1
      <3> QED
        BY <2>1, <3>1, <3>2, <3>3, <1>l, <1>m
    <2>2. CASE i - l \in 1 .. m /\ l + (i - l) = i
      <3>1. Opening(t[i - l])
        BY <2>2, <1>1, <1>2
      <3>2. PICK j \in i - l .. m : t[j].do = "opened"
        BY <2>2, <3>1, <1>m DEF Opens
      <3>3. j \in 1 .. m /\ l + j \in i .. l + m
        BY <2>2, <1>1
      <3> QED
        BY <3>2, <3>3, <1>1
    <2> QED
      BY <2>1, <2>2, <1>1, PlaceOf
  <1> QED
    BY <1>1, <1>2 DEF Opens

\* A plan from any of its stages on is a plan.
LEMMA PlanFrom ==
  ASSUME NEW r, NEW s, Plan(r, s), NEW k \in 1 .. Len(s)
  PROVE  /\ Plan(r, SubSeq(s, k, Len(s))) /\ SubSeq(s, k, Len(s)) # <<>>
         /\ Head(SubSeq(s, k, Len(s))) = s[k]
  <1>n. PICK n : n = Len(s)
    OBVIOUS
  <1>u. PICK u : u = SubSeq(s, k, n)
    OBVIOUS
  <1>R. PICK R : s \in Seq(R)
    BY DEF Plan, Chained, IsSeq
  <1>0. s \in Seq(R) /\ n \in Nat /\ k \in 1 .. n
    BY <1>R, <1>n
  <1>l. PICK l : l = n - k + 1
    OBVIOUS
  <1>1. /\ u \in Seq(R) /\ Len(u) = l /\ l \in Nat /\ l >= 1
        /\ \A i \in 1 .. l : u[i] = s[k + i - 1]
    BY <1>0, <1>n, <1>u, <1>l
  <1>2. \A i \in 1 .. l : k + i - 1 \in 1 .. n
    BY <1>0, <1>l
  <1>3. \A i \in 1 .. l : Possible(r, u[i])
    BY <1>1, <1>2, <1>n DEF Plan, Chained
  <1>4. ASSUME NEW i \in 1 .. l - 1 PROVE Precedes(r, u[i], u[i + 1])
    <2>1. /\ i \in 1 .. l /\ i + 1 \in 1 .. l /\ k + i - 1 \in 1 .. n - 1
          /\ (k + i - 1) + 1 = k + (i + 1) - 1
      BY <1>0, <1>1, <1>l
    <2>2. Precedes(r, s[k + i - 1], s[(k + i - 1) + 1])
      BY <2>1, <1>n DEF Plan, Chained
    <2> QED
      BY <2>1, <2>2, <1>1
  <1>5. ASSUME NEW i \in 1 .. l, Opening(u[i]) PROVE \E j \in i .. l : u[j].do = "opened"
    <2>1. Opening(s[k + i - 1]) /\ k + i - 1 \in 1 .. n
      BY <1>1, <1>2, <1>5
    <2>2. PICK j \in k + i - 1 .. n : s[j].do = "opened"
      BY <2>1, <1>n DEF Plan, Opens
    <2>3. j - k + 1 \in i .. l /\ j - k + 1 \in 1 .. l /\ k + (j - k + 1) - 1 = j
      BY <1>0, <1>l
    <2>4. u[j - k + 1] = s[j]
      BY <2>3, <1>1
    <2> QED
      BY <2>2, <2>3, <2>4
  <1>6. l \in 1 .. l /\ 1 \in 1 .. l /\ k + l - 1 = n /\ k + 1 - 1 = k
    BY <1>0, <1>1, <1>l
  <1>7. u[l] = s[n] /\ u[1] = s[k]
    BY <1>1, <1>6
  <1>8. u # <<>> /\ s # <<>>
    BY <1>0, <1>1, <1>n
  <1>9. Head(u) = s[k]
    BY <1>1, <1>7, <1>8, FirstAndOthers
  <1>10. Chained(r, u) /\ Opens(u)
    BY <1>1, <1>3, <1>4, <1>5 DEF Chained, Opens, IsSeq
  <1>11. Closes(r, u[Len(u)])
    BY <1>1, <1>7, <1>8, <1>n DEF Plan
  <1> QED
    BY <1>8, <1>9, <1>10, <1>11, <1>u, <1>n DEF Plan

\* And so are the stages after the first; the next may follow it, the last may be last.
LEMMA PlanTail ==
  ASSUME NEW r, NEW s, Plan(r, s), s # <<>>
  PROVE  /\ Plan(r, Tail(s)) /\ Possible(r, Head(s))
         /\ Tail(s) # <<>> => Precedes(r, Head(s), Head(Tail(s)))
         /\ Tail(s) = <<>> => Closes(r, Head(s))
         /\ Opening(Head(s)) /\ Head(s).do # "opened" =>
              \E j \in 1 .. Len(Tail(s)) : Tail(s)[j].do = "opened"
  <1>n. PICK n : n = Len(s)
    OBVIOUS
  <1>0. PICK R : s \in Seq(R)
    BY DEF Plan, Chained, IsSeq
  <1>1. /\ Head(s) \in R /\ Head(s) = s[1]
        /\ Tail(s) \in Seq(R) /\ Len(Tail(s)) = n - 1
        /\ \A k \in 1 .. n - 1 : Tail(s)[k] = s[k + 1]
        /\ n \in Nat /\ n > 0
    BY <1>0, <1>n, FirstAndOthers
  <1>2. 1 \in 1 .. n
    BY <1>1
  <1>3. Possible(r, Head(s))
    BY <1>1, <1>2, <1>n DEF Plan, Chained
  <1>4. CASE n = 1
    <2>1. Tail(s) = <<>> /\ Len(Tail(s)) = 0
      <3>1. Len(Tail(s)) = 0
        BY <1>1, <1>4
      <3> QED
        BY <1>1, <3>1, EmptySeq
    <2>2. Plan(r, <<>>)
      <3>1. IsSeq(<<>>) /\ Len(<<>>) = 0
        BY EmptySeq DEF IsSeq
      <3> QED
        BY <3>1 DEF Plan, Chained, Opens
    <2>3. Closes(r, Head(s))
      BY <1>1, <1>4, <1>n DEF Plan
    <2>4. ASSUME Opening(Head(s)) PROVE Head(s).do = "opened"
      <3>1. PICK j \in 1 .. n : s[j].do = "opened"
        BY <1>1, <1>2, <1>n, <2>4 DEF Plan, Opens
      <3>2. j = 1
        BY <1>4
      <3> QED
        BY <1>1, <3>1, <3>2
    <2> QED
      BY <1>1, <1>3, <2>1, <2>2, <2>3, <2>4
  <1>5. CASE n > 1
    <2>1. 2 \in 1 .. n /\ 1 \in 1 .. n - 1 /\ n - 1 \in Nat
      BY <1>1, <1>5
    <2>2. Plan(r, SubSeq(s, 2, n)) /\ SubSeq(s, 2, n) # <<>> /\ Head(SubSeq(s, 2, n)) = s[2]
      BY <2>1, <1>n, PlanFrom
    <2>3. SubSeq(s, 2, n) = Tail(s)
      BY <1>0, <1>n
    <2>4. Precedes(r, s[1], s[2])
      <3>1. Precedes(r, s[1], s[1 + 1])
        BY <2>1, <1>n DEF Plan, Chained
      <3> QED
        BY <3>1
    <2>5. ASSUME Opening(Head(s)), Head(s).do # "opened"
          PROVE  \E j \in 1 .. Len(Tail(s)) : Tail(s)[j].do = "opened"
      <3>1. PICK j \in 1 .. n : s[j].do = "opened"
        BY <1>1, <1>2, <1>n, <2>5 DEF Plan, Opens
      <3>2. j # 1
        BY <1>1, <2>5, <3>1
      <3>3. j - 1 \in 1 .. n - 1 /\ (j - 1) + 1 = j
        BY <1>1, <3>2
      <3> QED
        BY <1>1, <3>1, <3>3
    <2> QED
      BY <1>1, <1>3, <2>2, <2>3, <2>4, <2>5
  <1> QED
    BY <1>1, <1>4, <1>5

\* A part can take the place of the first stage.
LEMMA PlanInsert ==
  ASSUME NEW r, NEW s, NEW t, NEW a, NEW z, Plan(r, s), s # <<>>, Part(r, t, a, z),
         (Opening(Head(s)) /\ Head(s).do # "opened") \/ \A i \in 1 .. Len(t) : ~ Opening(t[i]),
         \A b : Precedes(r, Head(s), b) => Precedes(r, z, b),
         Closes(r, Head(s)) => Closes(r, z)
  PROVE  Plan(r, t \o Tail(s)) /\ t \o Tail(s) # <<>> /\ Head(t \o Tail(s)) = a
  <1>1. /\ Plan(r, Tail(s))
        /\ Tail(s) # <<>> => Precedes(r, z, Head(Tail(s)))
        /\ Tail(s) = <<>> => Closes(r, z)
        /\ Opening(Head(s)) /\ Head(s).do # "opened" =>
              \E j \in 1 .. Len(Tail(s)) : Tail(s)[j].do = "opened"
    BY PlanTail
  <1>2. IsSeq(t) /\ IsSeq(Tail(s)) /\ t # <<>>
    BY <1>1 DEF Part, Plan, Chained
  <1>3. Opens(t \o Tail(s))
    BY <1>1, <1>2, LinkOpens DEF Plan
  <1>4. CASE Tail(s) = <<>>
    <2>1. t \o Tail(s) = t
      BY <1>2, <1>4, ConcatEmptySeq DEF IsSeq
    <2>2. Head(t) = a
      BY <1>2, FirstAndOthers DEF Part, IsSeq
    <2> QED
      BY <1>1, <1>3, <1>4, <2>1, <2>2 DEF Part, Plan
  <1>5. CASE Tail(s) # <<>>
    <2>t. PICK u : u = Tail(s)
      OBVIOUS
    <2>1. Head(u) = u[1]
      BY <1>2, <1>5, <2>t, FirstAndOthers DEF IsSeq
    <2>2. Part(r, u, u[1], u[Len(u)])
      BY <1>1, <1>5, <2>t DEF Part, Plan
    <2>3. Part(r, t \o u, a, u[Len(u)])
      BY <1>1, <1>5, <2>1, <2>2, <2>t, LinkParts
    <2>4. Closes(r, u[Len(u)])
      BY <1>1, <1>5, <2>t DEF Plan
    <2>5. Head(t \o u) = (t \o u)[1]
      BY <2>3, FirstAndOthers DEF Part, Chained, IsSeq
    <2> QED
      BY <1>3, <2>t, <2>3, <2>4, <2>5 DEF Part, Plan
  <1> QED
    BY <1>4, <1>5

-----------------------------------------------------------------------------
\* The stages a command starts with.

Leg(r, s, a, z) == Part(r, s, a, z) /\ Opens(s)

\* A list of stages that may follow one another.
IsList(s, n) == n \in Nat \ {0} /\ s = [i \in 1 .. n |-> s[i]]

\* A list of stages of which each may follow the one before it is a part of a plan.
LEMMA ListedStages ==
  ASSUME NEW r, NEW n, NEW s, IsList(s, n),
         \A i \in 1 .. n : Possible(r, s[i]),
         \A i \in 1 .. n - 1 : Precedes(r, s[i], s[i + 1])
  PROVE  Part(r, s, s[1], s[n]) /\ Len(s) = n
  <1> DEFINE R == {s[i] : i \in 1 .. n}
  <1>1. s \in Seq(R)
    <2>1. s \in [1 .. n -> R] /\ n \in Nat
      BY DEF IsList
    <2> QED
      BY <2>1, SeqDef
  <1> HIDE DEF R
  <1>2. Len(s) = n /\ s # <<>>
    <2>1. DOMAIN s = 1 .. n /\ n \in Nat /\ n >= 1
      BY DEF IsList
    <2> QED
      BY <1>1, <2>1
  <1> QED
    BY <1>1, <1>2 DEF Part, Chained, IsSeq

\* One, two and three of them.
LEMMA FewStages ==
  ASSUME NEW r, NEW x, NEW y, NEW z,
         Possible(r, x), Possible(r, y), Possible(r, z)
  PROVE  /\ Part(r, <<x>>, x, x)
         /\ Precedes(r, x, y) => Part(r, <<x, y>>, x, y)
         /\ Precedes(r, x, y) /\ Precedes(r, y, z) => Part(r, <<x, y, z>>, x, z)
  <1>0. IsSeq(<<x>>) /\ IsSeq(<<x, y>>) /\ IsSeq(<<x, y, z>>)
    <2>1. <<x>> \in Seq({x, y, z}) /\ <<x, y>> \in Seq({x, y, z}) /\ <<x, y, z>> \in Seq({x, y, z})
      OBVIOUS
    <2> QED
      BY <2>1 DEF IsSeq
  <1>1. Part(r, <<x>>, x, x)
    BY <1>0 DEF Part, Chained
  <1>2. ASSUME Precedes(r, x, y) PROVE Part(r, <<x, y>>, x, y)
    BY <1>0, <1>2 DEF Part, Chained
  <1>3. ASSUME Precedes(r, x, y), Precedes(r, y, z) PROVE Part(r, <<x, y, z>>, x, z)
    BY <1>0, <1>3 DEF Part, Chained
  <1> QED
    BY <1>1, <1>2, <1>3

\* Two legs make one.
LEMMA LinkLegs ==
  ASSUME NEW r, NEW s, NEW t, NEW a, NEW b, NEW y, NEW z,
         Leg(r, s, a, y), Leg(r, t, b, z), Precedes(r, y, b)
  PROVE  Leg(r, s \o t, a, z)
  <1>1. Part(r, s \o t, a, z)
    BY LinkParts DEF Leg
  <1>2. Opens(s \o t)
    <2>1. IsSeq(s) /\ IsSeq(t)
      BY DEF Leg, Part, Chained
    <2> QED
      BY <2>1, LinkOpens DEF Leg, Opens
  <1> QED
    BY <1>1, <1>2 DEF Leg

\* The stages most commands begin with.
LEMMA ProjectLeg ==
  ASSUME NEW r, NEW code \in {"ProjectUnavailable", Fallback}
  PROVE  Leg(r, Project(code), Stage("discover", code), Stage("opened", code))
  <1> PICK s : s = Project(code)
    OBVIOUS
  <1>1. /\ IsList(s, 4)
        /\ s[1] = Stage("discover", code) /\ s[2] = Stage("config", code)
        /\ s[3] = Stage("cache", code) /\ s[4] = Stage("opened", code)
    BY DEF Project, IsList
  <1>2. \A i \in 1 .. 4 : Possible(r, s[i])
    <2>1. /\ Possible(r, Stage("discover", code)) /\ Possible(r, Stage("config", code))
          /\ Possible(r, Stage("cache", code)) /\ Possible(r, Stage("opened", code))
      BY DEF Stage, Possible, Opening, Fallback, Unnoticed, Early, Writing, Touching, Asking
    <2> QED
      BY <1>1, <2>1
  <1>3. \A i \in 1 .. 4 - 1 : Precedes(r, s[i], s[i + 1])
    <2>1. /\ Precedes(r, Stage("discover", code), Stage("config", code))
          /\ Precedes(r, Stage("config", code), Stage("cache", code))
          /\ Precedes(r, Stage("cache", code), Stage("opened", code))
      BY DEF Stage, Precedes, Early, Writing, Touching
    <2> QED
      BY <1>1, <2>1
  <1>4. Part(r, s, s[1], s[4]) /\ Len(s) = 4
    BY <1>1, <1>2, <1>3, ListedStages
  <1>5. Opens(s)
    <2>1. s[4].do = "opened"
      <3>1. Stage("opened", code).do = "opened"
        BY DEF Stage
      <3> QED
        BY <1>1, <3>1
    <2>2. \A i \in 1 .. 4 : 4 \in i .. 4
      OBVIOUS
    <2> QED
      BY <1>4, <2>1, <2>2 DEF Opens
  <1> QED
    BY <1>1, <1>4, <1>5 DEF Leg

\* Stages that open nothing.
LEMMA ClosedLeg ==
  ASSUME NEW r, NEW s, NEW a, NEW z, Part(r, s, a, z), \A i \in 1 .. Len(s) : ~ Opening(s[i])
  PROVE  Leg(r, s, a, z)
  BY DEF Leg, Opens

\* One stage that opens nothing.
LEMMA OneStage ==
  ASSUME NEW r, NEW do, NEW code,
         Possible(r, Stage(do, code)), ~ Opening(Stage(do, code))
  PROVE  Leg(r, <<Stage(do, code)>>, Stage(do, code), Stage(do, code))
  <1>1. Part(r, <<Stage(do, code)>>, Stage(do, code), Stage(do, code))
    BY FewStages
  <1> QED
    BY <1>1, ClosedLeg

\* Two.
LEMMA TwoStages ==
  ASSUME NEW r, NEW one, NEW other, NEW code, NEW end,
         Possible(r, Stage(one, code)), ~ Opening(Stage(one, code)),
         Possible(r, Stage(other, end)), ~ Opening(Stage(other, end)),
         Precedes(r, Stage(one, code), Stage(other, end))
  PROVE  Leg(r, <<Stage(one, code), Stage(other, end)>>, Stage(one, code), Stage(other, end))
  <1>2. PICK x : x = Stage(one, code)
    OBVIOUS
  <1>3. PICK y : y = Stage(other, end)
    OBVIOUS
  <1>4. Part(r, <<x, y>>, x, y)
    BY <1>2, <1>3, FewStages
  <1>5. \A i \in 1 .. Len(<<x, y>>) : ~ Opening(<<x, y>>[i])
    BY <1>2, <1>3
  <1> QED
    BY <1>2, <1>3, <1>4, <1>5, ClosedLeg

\* The tools a command needs.
LEMMA ToolsLeg ==
  ASSUME NEW r, NEW code \in {"Internal", "InvalidUsage"}
  PROVE  Leg(r, Tools(code), Stage("sdk", "ToolMissing"), Stage("devices", "DeviceError"))
  <1> PICK s : s = Tools(code)
    OBVIOUS
  <1>1. /\ IsList(s, 3)
        /\ s[1] = Stage("sdk", "ToolMissing") /\ s[2] = Stage("runtime", code)
        /\ s[3] = Stage("devices", "DeviceError")
    BY DEF Tools, IsList
  <1>2. \A i \in 1 .. 3 : Possible(r, s[i]) /\ ~ Opening(s[i])
    <2>1. /\ Possible(r, Stage("sdk", "ToolMissing")) /\ ~ Opening(Stage("sdk", "ToolMissing"))
          /\ Possible(r, Stage("runtime", code)) /\ ~ Opening(Stage("runtime", code))
          /\ Possible(r, Stage("devices", "DeviceError"))
          /\ ~ Opening(Stage("devices", "DeviceError"))
      BY DEF Stage, Possible, Opening, Fallback, Unnoticed, Early, Writing, Touching, Asking
    <2> QED
      BY <1>1, <2>1
  <1>3. \A i \in 1 .. 3 - 1 : Precedes(r, s[i], s[i + 1])
    <2>1. /\ Precedes(r, Stage("sdk", "ToolMissing"), Stage("runtime", code))
          /\ Precedes(r, Stage("runtime", code), Stage("devices", "DeviceError"))
      BY DEF Stage, Precedes, Early, Writing, Touching
    <2> QED
      BY <1>1, <2>1
  <1>4. Part(r, s, s[1], s[3]) /\ Len(s) = 3
    BY <1>1, <1>2, <1>3, ListedStages
  <1> QED
    BY <1>1, <1>2, <1>4, ClosedLeg

\* What a command for one tool is made of.
Plain(do) == do \notin {"cache", "extract", "cache-again", "profile", "set-aside", "publish",
                       "working-directory", "run", "ask", "confirm"} \cup Touching \cup Writing

OneTool(c, n) == /\ n \in Nat \ {0} /\ n = Len(c)
                 /\ \A i \in 1 .. n : Plain(c[i])
                 /\ \A i \in 1 .. n - 1 : c[i + 1] = "spawn" => c[i] = "wipe"
                 /\ c[1] # "spawn"

\* A plan a command begins with.
Starts(r, s) == Plan(r, s) /\ s # <<>> /\ Head(s).do = "validate"

\* The first stage of a list.
LEMMA FirstStage == ASSUME NEW s, IsSeq(s), s # <<>> PROVE Head(s) = s[1]
  <1>1. PICK R : s \in Seq(R)
    BY DEF IsSeq
  <1> QED
    BY <1>1

\* A leg that begins with the validation of the command line is one.
LEMMA StartsWithValidate ==
  ASSUME NEW r, NEW s, NEW z, Leg(r, s, Stage("validate", "InvalidUsage"), z), Closes(r, z)
  PROVE  Starts(r, s)
  BY FirstStage DEF Leg, Part, Plan, Chained, Starts, Stage

\* A command for one tool.
LEMMA ToolPlan ==
  ASSUME NEW r, r.command \notin Selecting, NEW code \in {"DeviceError", "OperationFailed"},
         NEW c, NEW n, OneTool(c, n)
  PROVE  Starts(r, <<Stage("validate", "InvalidUsage")>> \o ToolStages(c, code))
  <1>0. /\ n \in Nat /\ n >= 1 /\ n = Len(c)
        /\ \A i \in 1 .. n : Plain(c[i])
        /\ \A i \in 1 .. n - 1 : c[i + 1] = "spawn" => c[i] = "wipe"
        /\ c[1] # "spawn"
    BY DEF OneTool
  <1> PICK s : s = [i \in 1 .. n |-> Stage(c[i], code)]
    OBVIOUS
  <1>1. /\ IsList(s, n)
        /\ \A i \in 1 .. n : s[i] = Stage(c[i], code)
    BY <1>0 DEF IsList
  <1>2. \A i \in 1 .. n : Possible(r, s[i]) /\ ~ Opening(s[i])
    <2>1. ASSUME NEW do, Plain(do) PROVE Possible(r, Stage(do, code)) /\ ~ Opening(Stage(do, code))
      BY <2>1 DEF Plain, Stage, Possible, Opening, Fallback, Unnoticed, Touching, Asking
    <2> QED
      BY <1>0, <1>1, <2>1
  <1>3. \A i \in 1 .. n - 1 : Precedes(r, s[i], s[i + 1])
    <2>1. ASSUME NEW one, NEW other, Plain(other), other = "spawn" => one = "wipe"
          PROVE  Precedes(r, Stage(one, code), Stage(other, code))
      BY <2>1 DEF Plain, Stage, Precedes, Writing, Selecting
    <2>2. \A i \in 1 .. n - 1 : i \in 1 .. n /\ i + 1 \in 1 .. n
      BY <1>0
    <2> QED
      BY <1>0, <1>1, <2>1, <2>2
  <1>4. Part(r, s, s[1], s[n]) /\ Len(s) = n
    BY <1>1, <1>2, <1>3, ListedStages
  <1>5. Leg(r, s, s[1], s[n])
    BY <1>2, <1>4, ClosedLeg
  <1>6. Leg(r, <<Stage("sdk", "ToolMissing"), Stage("runtime", "Internal")>>,
               Stage("sdk", "ToolMissing"), Stage("runtime", "Internal"))
    BY TwoStages DEF Stage, Possible, Opening, Precedes, Fallback, Unnoticed, Early, Writing,
                     Touching, Asking
  <1>7. Leg(r, Report, Stage("report", "Internal"), Stage("report", "Internal"))
    BY OneStage DEF Report, Stage, Possible, Opening, Fallback, Unnoticed, Early, Writing,
                    Touching, Asking
  <1>8. Leg(r, <<Stage("validate", "InvalidUsage")>>,
               Stage("validate", "InvalidUsage"), Stage("validate", "InvalidUsage"))
    BY OneStage DEF Stage, Possible, Opening, Fallback, Unnoticed, Early, Writing, Touching, Asking
  <1>9. Plain(c[1]) /\ s[1] = Stage(c[1], code)
    BY <1>0, <1>1
  <1>10. /\ Precedes(r, Stage("runtime", "Internal"), s[1])
         /\ Precedes(r, s[n], Stage("report", "Internal"))
         /\ Precedes(r, Stage("validate", "InvalidUsage"), Stage("sdk", "ToolMissing"))
    <2>1. ASSUME NEW do, Plain(do), do # "spawn"
          PROVE  Precedes(r, Stage("runtime", "Internal"), Stage(do, code))
      BY <2>1 DEF Precedes, Plain, Stage, Writing, Selecting
    <2>2. \A x : Precedes(r, x, Stage("report", "Internal"))
      BY DEF Precedes, Stage, Early, Writing, Touching, Selecting
    <2>3. Precedes(r, Stage("validate", "InvalidUsage"), Stage("sdk", "ToolMissing"))
      BY DEF Precedes, Stage, Early, Writing, Touching, Selecting
    <2> QED
      BY <1>0, <1>9, <2>1, <2>2, <2>3
  <1>11. Leg(r, <<Stage("sdk", "ToolMissing"), Stage("runtime", "Internal")>> \o s,
             Stage("sdk", "ToolMissing"), s[n])
    BY <1>5, <1>6, <1>10, LinkLegs
  <1>12. Leg(r, <<Stage("sdk", "ToolMissing"), Stage("runtime", "Internal")>> \o s \o Report,
             Stage("sdk", "ToolMissing"), Stage("report", "Internal"))
    BY <1>7, <1>10, <1>11, LinkLegs
  <1>13. Leg(r, <<Stage("validate", "InvalidUsage")>> \o ToolStages(c, code),
             Stage("validate", "InvalidUsage"), Stage("report", "Internal"))
    BY <1>8, <1>10, <1>12, <1>0, LinkLegs DEF ToolStages
  <1> QED
    BY <1>13, StartsWithValidate DEF Closes, Selecting

\* A list of stages that open nothing.
LEMMA ClosedList ==
  ASSUME NEW r, NEW n, NEW s, IsList(s, n),
         \A i \in 1 .. n : Possible(r, s[i]) /\ ~ Opening(s[i]),
         \A i \in 1 .. n - 1 : Precedes(r, s[i], s[i + 1])
  PROVE  Leg(r, s, s[1], s[n])
  <1>1. Part(r, s, s[1], s[n]) /\ Len(s) = n
    BY ListedStages
  <1> QED
    BY <1>1, ClosedLeg

\* A leg after the validation of the command line is all of a plan.
LEMMA Validated ==
  ASSUME NEW r, NEW s, NEW a, NEW z, Leg(r, s, a, z), Closes(r, z),
         a.do \in {"report", "discover", "sdk"}, a.do = "report" => r.command \notin Runs
  PROVE  Starts(r, <<Stage("validate", "InvalidUsage")>> \o s)
  <1>1. Leg(r, <<Stage("validate", "InvalidUsage")>>,
               Stage("validate", "InvalidUsage"), Stage("validate", "InvalidUsage"))
    BY OneStage DEF Stage, Possible, Opening, Fallback, Unnoticed, Early, Writing, Touching, Asking
  <1>2. Precedes(r, Stage("validate", "InvalidUsage"), a)
    <2>1. Stage("validate", "InvalidUsage").do \in Early
      BY DEF Stage, Early
    <2> QED
      BY <2>1 DEF Precedes, Touching
  <1>3. Leg(r, <<Stage("validate", "InvalidUsage")>> \o s, Stage("validate", "InvalidUsage"), z)
    BY <1>1, <1>2, LinkLegs
  <1> QED
    BY <1>3, StartsWithValidate

\* The report may come after any stage, except that a run is reported once it is launched.
LEMMA ReportLeg ==
  ASSUME NEW r
  PROVE  /\ Leg(r, Report, Stage("report", "Internal"), Stage("report", "Internal"))
         /\ \A x : r.command \notin Runs \/ x.do = "launch" =>
                     Precedes(r, x, Stage("report", "Internal"))
  <1>1. Leg(r, Report, Stage("report", "Internal"), Stage("report", "Internal"))
    BY OneStage DEF Report, Stage, Possible, Opening, Fallback, Unnoticed, Early, Writing,
                    Touching, Asking
  <1>2. ASSUME NEW x, r.command \notin Runs \/ x.do = "launch"
        PROVE  Precedes(r, x, Stage("report", "Internal"))
    BY <1>2 DEF Precedes, Stage, Early, Writing, Touching
  <1> QED
    BY <1>1, <1>2

\* The project and the tools.
LEMMA ReadyLeg ==
  ASSUME NEW r, NEW first \in {"ProjectUnavailable", Fallback},
      NEW second \in {"Internal", "InvalidUsage"}
  PROVE  Leg(r, Project(first) \o Tools(second),
             Stage("discover", first), Stage("devices", "DeviceError"))
  <1>1. Precedes(r, Stage("opened", first), Stage("sdk", "ToolMissing"))
    BY DEF Precedes, Stage, Early, Writing, Touching
  <1> QED
    BY <1>1, ProjectLeg, ToolsLeg, LinkLegs

\* The commands of one stage or two.
LEMMA ShortPlans ==
  ASSUME NEW r, r.command \in {"init", "version", "doctor", "project"}
  PROVE  Starts(r, Stages(r))
  <1>0. r.command \notin Selecting
    BY DEF Selecting, Runs
  <1>1. CASE r.command = "init"
    <2>1. Stages(r) = <<Stage("validate", "InvalidUsage")>> \o <<>>
      BY <1>1 DEF Stages
    <2>2. IsSeq(<<Stage("validate", "InvalidUsage")>>)
      <3>1. <<Stage("validate", "InvalidUsage")>> \in Seq({Stage("validate", "InvalidUsage")})
        OBVIOUS
      <3> QED
        BY <3>1 DEF IsSeq
    <2>3. Stages(r) = <<Stage("validate", "InvalidUsage")>>
      BY <2>1, <2>2, ConcatEmptySeq DEF IsSeq
    <2>4. Leg(r, <<Stage("validate", "InvalidUsage")>>,
              Stage("validate", "InvalidUsage"), Stage("validate", "InvalidUsage"))
      BY OneStage DEF Stage, Possible, Opening, Fallback, Unnoticed, Early, Writing, Touching,
                      Asking
    <2> QED
      BY <1>0, <2>3, <2>4, StartsWithValidate DEF Closes, Selecting
  <1>2. CASE r.command = "version"
    <2>1. Stages(r) = <<Stage("validate", "InvalidUsage")>> \o Report
      BY <1>2 DEF Stages
    <2>2. Closes(r, Stage("report", "Internal")) /\ Stage("report", "Internal").do = "report"
      BY <1>0 DEF Closes, Selecting, Stage
    <2> QED
      BY <1>0, <2>1, <2>2, ReportLeg, Validated DEF Selecting
  <1>3. CASE r.command = "doctor"
    <2>1. Stages(r) = <<Stage("validate", "InvalidUsage")>> \o DoctorStages
      BY <1>3 DEF Stages
    <2>2. Leg(r, <<Stage("sdk", "ToolMissing")>>, Stage("sdk", "ToolMissing"),
              Stage("sdk", "ToolMissing"))
      BY OneStage DEF Stage, Possible, Opening, Fallback, Unnoticed, Early, Writing, Touching,
                      Asking
    <2>3. Precedes(r, Stage("report", "Internal"), Stage("sdk", "ToolMissing"))
      BY <1>0 DEF Precedes, Stage, Early, Writing, Touching
    <2>4. Leg(r, DoctorStages, Stage("report", "Internal"), Stage("sdk", "ToolMissing"))
      BY <2>2, <2>3, ReportLeg, LinkLegs DEF DoctorStages
    <2>5. Closes(r, Stage("sdk", "ToolMissing")) /\ Stage("report", "Internal").do = "report"
      BY <1>0 DEF Closes, Selecting, Stage
    <2> QED
      BY <1>0, <2>1, <2>4, <2>5, Validated DEF Selecting
  <1>4. CASE r.command = "project"
    <2> PICK s : s = <<Stage("discover", "ProjectUnavailable"), Stage("config", "InvalidUsage"),
                       Stage("cache", "ProjectUnavailable"), Stage("opened", Fallback)>>
      OBVIOUS
    <2>1. /\ IsList(s, 4)
          /\ s[1] = Stage("discover", "ProjectUnavailable")
          /\ s[2] = Stage("config", "InvalidUsage")
          /\ s[3] = Stage("cache", "ProjectUnavailable") /\ s[4] = Stage("opened", Fallback)
      BY DEF IsList
    <2>2. \A i \in 1 .. 4 : Possible(r, s[i])
      <3>1. /\ Possible(r, Stage("discover", "ProjectUnavailable"))
            /\ Possible(r, Stage("config", "InvalidUsage"))
            /\ Possible(r, Stage("cache", "ProjectUnavailable"))
            /\ Possible(r, Stage("opened", Fallback))
        BY DEF Stage, Possible, Opening, Fallback, Unnoticed, Early, Writing, Touching, Asking
      <3> QED
        BY <2>1, <3>1
    <2>3. \A i \in 1 .. 4 - 1 : Precedes(r, s[i], s[i + 1])
      <3>1. /\ Precedes(r, Stage("discover", "ProjectUnavailable"), Stage("config", "InvalidUsage"))
            /\ Precedes(r, Stage("config", "InvalidUsage"), Stage("cache", "ProjectUnavailable"))
            /\ Precedes(r, Stage("cache", "ProjectUnavailable"), Stage("opened", Fallback))
        BY DEF Stage, Precedes, Early, Writing, Touching
      <3> QED
        BY <2>1, <3>1
    <2>4. Part(r, s, s[1], s[4]) /\ Len(s) = 4
      BY <2>1, <2>2, <2>3, ListedStages
    <2>5. Opens(s)
      <3>1. s[4].do = "opened"
        <4>1. Stage("opened", Fallback).do = "opened"
          BY DEF Stage
        <4> QED
          BY <2>1, <4>1
      <3>2. \A i \in 1 .. 4 : 4 \in i .. 4
        OBVIOUS
      <3> QED
        BY <2>4, <3>1, <3>2 DEF Opens
    <2>6. Leg(r, s, Stage("discover", "ProjectUnavailable"), Stage("opened", Fallback))
      BY <2>1, <2>4, <2>5 DEF Leg
    <2>7. Leg(r, s \o Report, Stage("discover", "ProjectUnavailable"), Stage("report", "Internal"))
      BY <1>0, <2>6, ReportLeg, LinkLegs DEF Selecting
    <2>8. /\ Closes(r, Stage("report", "Internal"))
          /\ Stage("discover", "ProjectUnavailable").do = "discover"
      BY <1>0 DEF Closes, Selecting, Stage
    <2>9. Stages(r) = <<Stage("validate", "InvalidUsage")>> \o (s \o Report)
      BY <1>4 DEF Stages, ProjectStages
    <2> QED
      BY <2>7, <2>8, <2>9, Validated
  <1> QED
    BY <1>1, <1>2, <1>3, <1>4

\* The commands for one tool.
LEMMA ToolPlans ==
  ASSUME NEW r, r.command \in {"devices", "restart-adb", "emulators", "emulator-start",
                               "emulator-stop", "gradle"}
  PROVE  Starts(r, Stages(r))
  <1>0. r.command \notin Selecting
    BY DEF Selecting, Runs
  <1>1. CASE r.command = "devices"
    <2>c. PICK c : c = <<"devices">>
      OBVIOUS
    <2>1. /\ 1 = Len(c)
          /\ c[1] = "devices"
      BY <2>c
    <2>2. /\ Plain("devices")
      BY DEF Plain, Touching, Writing
    <2>3. \A i \in 1 .. 1 : Plain(c[i])
      BY <2>1, <2>2
    <2>4. \A i \in 1 .. 1 - 1 : c[i + 1] = "spawn" => c[i] = "wipe"
      <3>1. ASSUME NEW i \in 1 .. 1 - 1 PROVE c[i + 1] = "spawn" => c[i] = "wipe"
        <4>1. FALSE
          OBVIOUS
        <4> QED
          BY <2>1, <4>1
      <3> QED
        BY <3>1
    <2>5. OneTool(c, 1)
      BY <2>1, <2>3, <2>4 DEF OneTool
    <2> QED
      BY <1>0, <1>1, <2>c, <2>5, ToolPlan DEF Stages
  <1>2. CASE r.command = "restart-adb"
    <2>c. PICK c : c = <<"kill-server", "start-server">>
      OBVIOUS
    <2>1. /\ 2 = Len(c)
          /\ c[1] = "kill-server" /\ c[2] = "start-server"
      BY <2>c
    <2>2. /\ Plain("kill-server") /\ Plain("start-server")
      BY DEF Plain, Touching, Writing
    <2>3. \A i \in 1 .. 2 : Plain(c[i])
      BY <2>1, <2>2
    <2>4. \A i \in 1 .. 2 - 1 : c[i + 1] = "spawn" => c[i] = "wipe"
      <3>1. ASSUME NEW i \in 1 .. 2 - 1 PROVE c[i + 1] = "spawn" => c[i] = "wipe"
        <4>1. i = 1
          OBVIOUS
        <4> QED
          BY <2>1, <4>1
      <3> QED
        BY <3>1
    <2>5. OneTool(c, 2)
      BY <2>1, <2>3, <2>4 DEF OneTool
    <2> QED
      BY <1>0, <1>2, <2>c, <2>5, ToolPlan DEF Stages
  <1>3. CASE r.command = "emulators"
    <2>c. PICK c : c = <<"devices", "list-avds">>
      OBVIOUS
    <2>1. /\ 2 = Len(c)
          /\ c[1] = "devices" /\ c[2] = "list-avds"
      BY <2>c
    <2>2. /\ Plain("devices") /\ Plain("list-avds")
      BY DEF Plain, Touching, Writing
    <2>3. \A i \in 1 .. 2 : Plain(c[i])
      BY <2>1, <2>2
    <2>4. \A i \in 1 .. 2 - 1 : c[i + 1] = "spawn" => c[i] = "wipe"
      <3>1. ASSUME NEW i \in 1 .. 2 - 1 PROVE c[i + 1] = "spawn" => c[i] = "wipe"
        <4>1. i = 1
          OBVIOUS
        <4> QED
          BY <2>1, <4>1
      <3> QED
        BY <3>1
    <2>5. OneTool(c, 2)
      BY <2>1, <2>3, <2>4 DEF OneTool
    <2> QED
      BY <1>0, <1>3, <2>c, <2>5, ToolPlan DEF Stages
  <1>4. CASE r.command = "emulator-start"
    <2>c. PICK c : c = <<"devices", "not-running", "wipe", "spawn", "boot">>
      OBVIOUS
    <2>1. /\ 5 = Len(c)
          /\ c[1] = "devices" /\ c[2] = "not-running" /\ c[3] = "wipe"
          /\ c[4] = "spawn" /\ c[5] = "boot"
      BY <2>c
    <2>2. /\ Plain("devices") /\ Plain("not-running") /\ Plain("wipe")
          /\ Plain("spawn") /\ Plain("boot")
      BY DEF Plain, Touching, Writing
    <2>3. \A i \in 1 .. 5 : Plain(c[i])
      BY <2>1, <2>2
    <2>4. \A i \in 1 .. 5 - 1 : c[i + 1] = "spawn" => c[i] = "wipe"
      <3>1. ASSUME NEW i \in 1 .. 5 - 1 PROVE c[i + 1] = "spawn" => c[i] = "wipe"
        <4>1. i = 1 \/ i = 2 \/ i = 3 \/ i = 4
          OBVIOUS
        <4> QED
          BY <2>1, <4>1
      <3> QED
        BY <3>1
    <2>5. OneTool(c, 5)
      BY <2>1, <2>3, <2>4 DEF OneTool
    <2> QED
      BY <1>0, <1>4, <2>c, <2>5, ToolPlan DEF Stages
  <1>5. CASE r.command = "emulator-stop"
    <2>c. PICK c : c = <<"devices", "running", "kill">>
      OBVIOUS
    <2>1. /\ 3 = Len(c)
          /\ c[1] = "devices" /\ c[2] = "running" /\ c[3] = "kill"
      BY <2>c
    <2>2. /\ Plain("devices") /\ Plain("running") /\ Plain("kill")
      BY DEF Plain, Touching, Writing
    <2>3. \A i \in 1 .. 3 : Plain(c[i])
      BY <2>1, <2>2
    <2>4. \A i \in 1 .. 3 - 1 : c[i + 1] = "spawn" => c[i] = "wipe"
      <3>1. ASSUME NEW i \in 1 .. 3 - 1 PROVE c[i + 1] = "spawn" => c[i] = "wipe"
        <4>1. i = 1 \/ i = 2
          OBVIOUS
        <4> QED
          BY <2>1, <4>1
      <3> QED
        BY <3>1
    <2>5. OneTool(c, 3)
      BY <2>1, <2>3, <2>4 DEF OneTool
    <2> QED
      BY <1>0, <1>5, <2>c, <2>5, ToolPlan DEF Stages
  <1>6. CASE r.command = "gradle"
    <2>c. PICK c : c = <<"discover", "clean">>
      OBVIOUS
    <2>1. /\ 2 = Len(c)
          /\ c[1] = "discover" /\ c[2] = "clean"
      BY <2>c
    <2>2. /\ Plain("discover") /\ Plain("clean")
      BY DEF Plain, Touching, Writing
    <2>3. \A i \in 1 .. 2 : Plain(c[i])
      BY <2>1, <2>2
    <2>4. \A i \in 1 .. 2 - 1 : c[i + 1] = "spawn" => c[i] = "wipe"
      <3>1. ASSUME NEW i \in 1 .. 2 - 1 PROVE c[i + 1] = "spawn" => c[i] = "wipe"
        <4>1. i = 1
          OBVIOUS
        <4> QED
          BY <2>1, <4>1
      <3> QED
        BY <3>1
    <2>5. OneTool(c, 2)
      BY <2>1, <2>3, <2>4 DEF OneTool
    <2> QED
      BY <1>0, <1>6, <2>c, <2>5, ToolPlan DEF Stages
  <1> QED
    BY <1>1, <1>2, <1>3, <1>4, <1>5, <1>6

\* The tests.
LEMMA TestPlan ==
  ASSUME NEW r, r.command = "test"
  PROVE  Starts(r, Stages(r))
  <1>1. /\ Possible(r, Stage("profile", "InvalidUsage"))
        /\ ~ Opening(Stage("profile", "InvalidUsage"))
        /\ Possible(r, Stage("invocation", "InvalidUsage"))
        /\ ~ Opening(Stage("invocation", "InvalidUsage"))
        /\ Possible(r, Stage("failures", "InvalidUsage"))
        /\ ~ Opening(Stage("failures", "InvalidUsage"))
        /\ Possible(r, Stage("test", "OperationFailed"))
        /\ ~ Opening(Stage("test", "OperationFailed"))
        /\ Possible(r, Stage("verdict", "OperationFailed"))
        /\ ~ Opening(Stage("verdict", "OperationFailed"))
    BY DEF Stage, Possible, Opening, Fallback, Unnoticed, Early, Writing, Touching, Asking,
           Selecting
  <1>2. /\ Precedes(r, Stage("devices", "DeviceError"), Stage("profile", "InvalidUsage"))
        /\ Precedes(r, Stage("profile", "InvalidUsage"), Stage("invocation", "InvalidUsage"))
        /\ Precedes(r, Stage("invocation", "InvalidUsage"), Stage("failures", "InvalidUsage"))
        /\ Precedes(r, Stage("failures", "InvalidUsage"), Stage("test", "OperationFailed"))
        /\ Precedes(r, Stage("invocation", "InvalidUsage"), Stage("test", "OperationFailed"))
        /\ Precedes(r, Stage("test", "OperationFailed"), Stage("test", "OperationFailed"))
        /\ Precedes(r, Stage("test", "OperationFailed"), Stage("report", "Internal"))
        /\ Precedes(r, Stage("report", "Internal"), Stage("verdict", "OperationFailed"))
    BY DEF Precedes, Stage, Early, Writing, Touching, Runs
  <1>3. /\ Leg(r, <<Stage("profile", "InvalidUsage"), Stage("invocation", "InvalidUsage")>>,
               Stage("profile", "InvalidUsage"), Stage("invocation", "InvalidUsage"))
        /\ Leg(r, <<Stage("failures", "InvalidUsage")>>,
               Stage("failures", "InvalidUsage"), Stage("failures", "InvalidUsage"))
        /\ Leg(r, Adb("test"), Stage("test", "OperationFailed"), Stage("test", "OperationFailed"))
        /\ Leg(r, <<Stage("verdict", "OperationFailed")>>,
               Stage("verdict", "OperationFailed"), Stage("verdict", "OperationFailed"))
    BY <1>1, <1>2, OneStage, TwoStages DEF Adb
  <1>4. Leg(r, Report, Stage("report", "Internal"), Stage("report", "Internal"))
    BY ReportLeg
  <1> PICK u : u = Project("ProjectUnavailable") \o Tools("InvalidUsage")
                     \o <<Stage("profile", "InvalidUsage"), Stage("invocation", "InvalidUsage")>>
    OBVIOUS
  <1>5. Leg(r, u, Stage("discover", "ProjectUnavailable"), Stage("invocation", "InvalidUsage"))
    BY <1>2, <1>3, ReadyLeg, LinkLegs
  <1> PICK v : v = u \o (IF r.rerun THEN <<Stage("failures", "InvalidUsage")>>
      \o Adb("test") ELSE <<>>)
    OBVIOUS
  <1>6. Leg(r, v \o Adb("test"), Stage("discover", "ProjectUnavailable"),
            Stage("test", "OperationFailed"))
    <2>1. CASE r.rerun
      <3>1. Leg(r, <<Stage("failures", "InvalidUsage")>> \o Adb("test"),
                Stage("failures", "InvalidUsage"), Stage("test", "OperationFailed"))
        BY <1>2, <1>3, LinkLegs
      <3>2. Leg(r, v, Stage("discover", "ProjectUnavailable"), Stage("test", "OperationFailed"))
        BY <1>2, <1>5, <2>1, <3>1, LinkLegs
      <3> QED
        BY <1>2, <1>3, <3>2, LinkLegs
    <2>2. CASE ~ r.rerun
      <3>1. v = u
        BY <1>5, <2>2, ConcatEmptySeq DEF Leg, Part, Chained, IsSeq
      <3> QED
        BY <1>2, <1>3, <1>5, <3>1, LinkLegs
    <2> QED
      BY <2>1, <2>2
  <1>7. Leg(r, v \o Adb("test") \o Report, Stage("discover", "ProjectUnavailable"),
            Stage("report", "Internal"))
    BY <1>2, <1>4, <1>6, LinkLegs
  <1>8. Leg(r, v \o Adb("test") \o Report \o <<Stage("verdict", "OperationFailed")>>,
            Stage("discover", "ProjectUnavailable"), Stage("verdict", "OperationFailed"))
    BY <1>2, <1>3, <1>7, LinkLegs
  <1>9. Stages(r) = <<Stage("validate", "InvalidUsage")>>
                      \o (v \o Adb("test") \o Report \o <<Stage("verdict", "OperationFailed")>>)
    BY DEF Stages, TestStages
  <1>10. /\ Closes(r, Stage("verdict", "OperationFailed"))
         /\ Stage("discover", "ProjectUnavailable").do = "discover"
    BY DEF Closes, Stage, Runs
  <1> QED
    BY <1>8, <1>9, <1>10, Validated

\* The logs.
LEMMA LogsPlan ==
  ASSUME NEW r, r.command = "logs"
  PROVE  Starts(r, Stages(r))
  <1>0. r.command \notin Selecting
    BY DEF Selecting, Runs
  <1>1. ASSUME NEW do \in {"use-preset", "compile", "load-presets", "add-preset", "target",
            "buffer",
                           "recorder", "capture"},
               NEW code \in {"InvalidUsage", "DeviceError", "OperationFailed"}
        PROVE  /\ Possible(r, Stage(do, code)) /\ ~ Opening(Stage(do, code))
               /\ \A x : Precedes(r, x, Stage(do, code))
    BY <1>0 DEF Stage, Possible, Opening, Fallback, Unnoticed, Precedes, Early, Writing, Touching,
                Asking,
                Selecting
  <1> PICK first : first = IF r.needsProject THEN "ProjectUnavailable" ELSE Fallback
    OBVIOUS
  <1>2. first \in {"ProjectUnavailable", Fallback}
    OBVIOUS
  <1>3. Leg(r, Project(first), Stage("discover", first), Stage("opened", first))
    BY <1>2, ProjectLeg
  <1>4. /\ Leg(r, <<Stage("use-preset", "InvalidUsage")>>,
               Stage("use-preset", "InvalidUsage"), Stage("use-preset", "InvalidUsage"))
        /\ Leg(r, <<Stage("compile", "InvalidUsage")>>,
               Stage("compile", "InvalidUsage"), Stage("compile", "InvalidUsage"))
        /\ Leg(r, <<Stage("load-presets", "InvalidUsage"), Stage("add-preset", "InvalidUsage")>>,
               Stage("load-presets", "InvalidUsage"), Stage("add-preset", "InvalidUsage"))
    BY <1>1, OneStage, TwoStages
  <1> PICK u : u = Project(first)
                     \o (IF UsesPreset(r) THEN <<Stage("use-preset", "InvalidUsage")>> ELSE <<>>)
                     \o <<Stage("compile", "InvalidUsage")>>
    OBVIOUS
  <1>5. Leg(r, u, Stage("discover", first), Stage("compile", "InvalidUsage"))
    <2>1. CASE UsesPreset(r)
      <3>1. Leg(r, Project(first) \o <<Stage("use-preset", "InvalidUsage")>>,
                Stage("discover", first), Stage("use-preset", "InvalidUsage"))
        BY <1>1, <1>3, <1>4, LinkLegs
      <3> QED
        BY <1>1, <1>4, <2>1, <3>1, LinkLegs
    <2>2. CASE ~ UsesPreset(r)
      <3>1. Project(first) \o <<>> = Project(first)
        BY <1>3, ConcatEmptySeq DEF Leg, Part, Chained, IsSeq
      <3> QED
        BY <1>1, <1>3, <1>4, <2>2, <3>1, LinkLegs
    <2> QED
      BY <2>1, <2>2
  <1>6. Leg(r, Tools("Internal"), Stage("sdk", "ToolMissing"), Stage("devices", "DeviceError"))
    BY ToolsLeg
  <1>7. \A x : Precedes(r, x, Stage("sdk", "ToolMissing"))
    BY <1>0 DEF Stage, Precedes, Touching, Writing, Selecting
  <1> PICK v : v = u \o (IF SavesPreset(r) THEN <<Stage("load-presets", "InvalidUsage"),
                                                  Stage("add-preset", "InvalidUsage")>> ELSE <<>>)
                     \o Tools("Internal")
    OBVIOUS
  <1>8. Leg(r, v, Stage("discover", first), Stage("devices", "DeviceError"))
    <2>1. CASE SavesPreset(r)
      <3>1. Leg(r, u \o <<Stage("load-presets", "InvalidUsage"),
                Stage("add-preset", "InvalidUsage")>>,
                Stage("discover", first), Stage("add-preset", "InvalidUsage"))
        BY <1>1, <1>4, <1>5, LinkLegs
      <3> QED
        BY <1>6, <1>7, <2>1, <3>1, LinkLegs
    <2>2. CASE ~ SavesPreset(r)
      <3>1. u \o <<>> = u
        BY <1>5, ConcatEmptySeq DEF Leg, Part, Chained, IsSeq
      <3> QED
        BY <1>5, <1>6, <1>7, <2>2, <3>1, LinkLegs
    <2> QED
      BY <2>1, <2>2
  <1>w. PICK w : w = <<Stage("target", "DeviceError"), Stage("buffer", "InvalidUsage"),
                      Stage("recorder", "OperationFailed"), Stage("capture", "OperationFailed")>>
    OBVIOUS
  <1>9. Leg(r, w, Stage("target", "DeviceError"), Stage("capture", "OperationFailed"))
    <2>1. /\ IsList(w, 4)
          /\ w[1] = Stage("target", "DeviceError") /\ w[2] = Stage("buffer", "InvalidUsage")
          /\ w[3] = Stage("recorder", "OperationFailed")
          /\ w[4] = Stage("capture", "OperationFailed")
      BY <1>w DEF IsList
    <2>2. \A i \in 1 .. 4 : Possible(r, w[i]) /\ ~ Opening(w[i]) /\ \A x : Precedes(r, x, w[i])
      <3>1. \A i \in 1 .. 4 : i = 1 \/ i = 2 \/ i = 3 \/ i = 4
        OBVIOUS
      <3> QED
        BY <1>1, <2>1, <3>1
    <2>3. \A i \in 1 .. 4 - 1 : Precedes(r, w[i], w[i + 1])
      BY <2>2
    <2>4. Leg(r, w, w[1], w[4])
      BY <2>1, <2>2, <2>3, ClosedList
    <2> QED
      BY <2>1, <2>4
  <1>10. Leg(r, v \o w, Stage("discover", first), Stage("capture", "OperationFailed"))
    BY <1>1, <1>8, <1>9, LinkLegs
  <1>11. Stages(r) = <<Stage("validate", "InvalidUsage")>> \o (v \o w)
    BY <1>w DEF Stages, LogsStages
  <1>12. Closes(r, Stage("capture", "OperationFailed")) /\ Stage("discover", first).do = "discover"
    BY <1>0 DEF Closes, Stage, Selecting
  <1> QED
    BY <1>10, <1>11, <1>12, Validated

\* A custom command.
LEMMA CustomPlan ==
  ASSUME NEW r, r.command = "command"
  PROVE  Starts(r, Stages(r))
  <1>0. r.command \notin Selecting
    BY DEF Selecting, Runs
  <1>1. ASSUME NEW do \in {"named", "service", "trust", "ask", "runtime", "decide"},
               NEW code \in {"InvalidUsage", "Internal"}
        PROVE  /\ Possible(r, Stage(do, code)) /\ ~ Opening(Stage(do, code))
               /\ \A x : x.do = "trust" \/ do # "ask" => Precedes(r, x, Stage(do, code))
    BY <1>0 DEF Stage, Possible, Opening, Fallback, Unnoticed, Precedes, Early, Writing, Touching,
                Asking,
                Selecting
  <1>c. PICK c : c = <<"named", "service", "trust", "ask", "runtime", "trust", "decide">>
    OBVIOUS
  <1>w. PICK w : w = [n \in 1 .. 7 |-> Stage(c[n], IF n = 5 THEN "Internal" ELSE "InvalidUsage")]
    OBVIOUS
  <1>2. /\ c[1] = "named" /\ c[2] = "service" /\ c[3] = "trust" /\ c[4] = "ask"
        /\ c[5] = "runtime" /\ c[6] = "trust" /\ c[7] = "decide"
    BY <1>c
  <1>3. /\ IsList(w, 7)
        /\ \A i \in 1 .. 7 : w[i] = Stage(c[i], IF i = 5 THEN "Internal" ELSE "InvalidUsage")
    BY <1>w DEF IsList
  <1>4. \A i \in 1 .. 7 : c[i] \in {"named", "service", "trust", "ask", "runtime", "decide"}
    <2>1. \A i \in 1 .. 7 : i = 1 \/ i = 2 \/ i = 3 \/ i = 4 \/ i = 5 \/ i = 6 \/ i = 7
      OBVIOUS
    <2> QED
      BY <1>2, <2>1
  <1>5. \A i \in 1 .. 7 :
          /\ Possible(r, w[i]) /\ ~ Opening(w[i])
          /\ \A x : x.do = "trust" \/ c[i] # "ask" => Precedes(r, x, w[i])
    BY <1>1, <1>3, <1>4
  <1>6. \A i \in 1 .. 7 - 1 : Precedes(r, w[i], w[i + 1])
    <2>1. w[3].do = "trust"
      BY <1>2, <1>3 DEF Stage
    <2>2. \A i \in 1 .. 6 : i = 1 \/ i = 2 \/ i = 3 \/ i = 4 \/ i = 5 \/ i = 6
      OBVIOUS
    <2> QED
      BY <1>2, <1>5, <2>1, <2>2
  <1>7. Leg(r, w, w[1], w[7])
    BY <1>3, <1>5, <1>6, ClosedList
  <1>8. w[1] = Stage("named", "InvalidUsage") /\ w[7] = Stage("decide", "InvalidUsage")
    BY <1>2, <1>3
  <1>9. /\ Possible(r, Stage("working-directory", "InvalidUsage"))
        /\ ~ Opening(Stage("working-directory", "InvalidUsage"))
        /\ Possible(r, Stage("run", "OperationFailed"))
        /\ ~ Opening(Stage("run", "OperationFailed"))
        /\ Precedes(r, Stage("working-directory", "InvalidUsage"), Stage("run", "OperationFailed"))
        /\ Precedes(r, Stage("decide", "InvalidUsage"), Stage("working-directory", "InvalidUsage"))
    BY <1>0 DEF Stage, Possible, Opening, Fallback, Unnoticed, Precedes, Early, Writing, Touching,
                Asking,
                Selecting
  <1>10. Leg(r, <<Stage("working-directory", "InvalidUsage"), Stage("run", "OperationFailed")>>,
             Stage("working-directory", "InvalidUsage"), Stage("run", "OperationFailed"))
    BY <1>9, TwoStages
  <1>11. Leg(r, Project("ProjectUnavailable") \o w,
             Stage("discover", "ProjectUnavailable"), Stage("decide", "InvalidUsage"))
    <2>1. Leg(r, Project("ProjectUnavailable"),
              Stage("discover", "ProjectUnavailable"), Stage("opened", "ProjectUnavailable"))
      BY ProjectLeg
    <2> QED
      BY <1>1, <1>7, <1>8, <2>1, LinkLegs
  <1>12. Leg(r, Project("ProjectUnavailable") \o w
                  \o <<Stage("working-directory", "InvalidUsage"),
                      Stage("run", "OperationFailed")>>,
             Stage("discover", "ProjectUnavailable"), Stage("run", "OperationFailed"))
    BY <1>9, <1>10, <1>11, LinkLegs
  <1>13. Leg(r, Project("ProjectUnavailable") \o w
                  \o <<Stage("working-directory", "InvalidUsage"), Stage("run", "OperationFailed")>>
                  \o Report,
             Stage("discover", "ProjectUnavailable"), Stage("report", "Internal"))
    BY <1>0, <1>12, ReportLeg, LinkLegs DEF Selecting
  <1>14. Stages(r) = <<Stage("validate", "InvalidUsage")>> \o
                       (Project("ProjectUnavailable") \o w
                         \o <<Stage("working-directory", "InvalidUsage"),
                             Stage("run", "OperationFailed")>>
                         \o Report)
    BY <1>c, <1>w DEF Stages, CustomStages
  <1>15. /\ Closes(r, Stage("report", "Internal"))
         /\ Stage("discover", "ProjectUnavailable").do = "discover"
    BY <1>0 DEF Closes, Stage, Selecting
  <1> QED
    BY <1>13, <1>14, <1>15, Validated

\* What a command does with adb and Gradle.
Call(do) == Stage(do, "OperationFailed")

\* One call of adb or Gradle, and the call after it.
LEMMA AdbLeg ==
  ASSUME NEW r, r.command \in Selecting \ {"test"}, NEW do \in Touching,
         do \in {"uninstall", "clear"} => IsDestructive(r.command)
  PROVE  /\ Leg(r, Adb(do), Call(do), Call(do))
         /\ \A x : /\ x.do \in Touching \cup {"confirm"}
                   /\ r.command \in Runs =>
                        /\ do = "uninstall" => x.do = "assemble"
                        /\ do = "find" => x.do \in {"assemble", "uninstall"}
                        /\ do = "install" => x.do = "find"
                        /\ do = "launch" => x.do = "install"
                   => Precedes(r, x, Call(do))
  <1>1. Possible(r, Call(do)) /\ ~ Opening(Call(do))
    BY DEF Call, Stage, Possible, Opening, Fallback, Unnoticed, Touching, Asking
  <1>2. Leg(r, Adb(do), Call(do), Call(do))
    BY <1>1, OneStage DEF Adb, Call
  <1>3. ASSUME NEW x, x.do \in Touching \cup {"confirm"},
               r.command \in Runs =>
                  /\ do = "uninstall" => x.do = "assemble"
                  /\ do = "find" => x.do \in {"assemble", "uninstall"}
                  /\ do = "install" => x.do = "find"
                  /\ do = "launch" => x.do = "install"
        PROVE  Precedes(r, x, Call(do))
    BY <1>3 DEF Call, Stage, Precedes, Early, Writing, Touching
  <1> QED
    BY <1>2, <1>3

\* What an application command does once it is confirmed.
LEMMA OperationLeg ==
  ASSUME NEW r, r.command \in Selecting \ {"test"}
  PROVE  \E b \in Touching, z \in Touching :
           /\ Leg(r, Operation(r.command), Call(b), Call(z))
           /\ r.command \in Runs => b = "assemble" /\ z = "launch"
  <1>0. /\ \A do \in Touching : Call(do).do = do
        /\ {"assemble", "existing", "uninstall", "find", "install", "launch", "stop", "clear"}
               \subseteq Touching
    BY DEF Call, Stage, Touching
  <1>1. CASE r.command = "build"
    BY <1>0, <1>1, AdbLeg DEF Operation, Assemble, Runs
  <1>2. CASE r.command = "install"
    <2>1. Leg(r, Adb("existing") \o Adb("install"), Call("existing"), Call("install"))
      BY <1>0, <1>2, AdbLeg, LinkLegs DEF Runs
    <2> QED
      BY <1>0, <1>2, <2>1 DEF Operation, Runs
  <1>3. CASE r.command = "launch"
    <2>1. Leg(r, Adb("launch"), Call("launch"), Call("launch"))
      BY <1>0, <1>3, AdbLeg DEF Runs
    <2> QED
      BY <1>0, <1>3, <2>1 DEF Operation, Runs
  <1>4. CASE r.command \in {"run", "reinstall"}
    <2>1. Leg(r, Adb("find") \o Adb("install"), Call("find"), Call("install"))
      BY <1>0, <1>4, AdbLeg, LinkLegs DEF Runs
    <2>2. Leg(r, Adb("assemble") \o (Adb("find") \o Adb("install")), Call("assemble"),
              Call("install"))
      <3>1. Precedes(r, Call("assemble"), Call("find"))
        BY <1>0, <1>4, AdbLeg DEF Runs
      <3>2. Leg(r, Adb("assemble"), Call("assemble"), Call("assemble"))
        BY <1>0, <1>4, AdbLeg DEF Runs
      <3> QED
        BY <2>1, <3>1, <3>2, LinkLegs
    <2>3. Leg(r, Adb("assemble") \o (Adb("find") \o Adb("install")) \o Adb("launch"),
              Call("assemble"), Call("launch"))
      <3>1. /\ Precedes(r, Call("install"), Call("launch"))
            /\ Leg(r, Adb("launch"), Call("launch"), Call("launch"))
        BY <1>0, <1>4, AdbLeg DEF Runs
      <3> QED
        BY <2>2, <3>1, LinkLegs
    <2>4. Operation(r.command) = Adb("assemble") \o (Adb("find") \o Adb("install")) \o Adb("launch")
      BY <1>4 DEF Operation, Assemble, Install
    <2> QED
      BY <1>0, <2>3, <2>4
  <1>5. CASE r.command = "clean-reinstall"
    <2>1. Leg(r, Adb("find") \o Adb("install"), Call("find"), Call("install"))
      BY <1>0, <1>5, AdbLeg, LinkLegs DEF Runs
    <2>2. /\ Leg(r, Adb("uninstall"), Call("uninstall"), Call("uninstall"))
          /\ Leg(r, Adb("assemble"), Call("assemble"), Call("assemble"))
          /\ Leg(r, Adb("launch"), Call("launch"), Call("launch"))
          /\ Precedes(r, Call("assemble"), Call("uninstall"))
          /\ Precedes(r, Call("uninstall"), Call("find"))
          /\ Precedes(r, Call("install"), Call("launch"))
      BY <1>0, <1>5, AdbLeg DEF Runs, IsDestructive
    <2>3. Leg(r, Adb("assemble") \o Adb("uninstall"), Call("assemble"), Call("uninstall"))
      BY <2>2, LinkLegs
    <2>4. Leg(r, Adb("assemble") \o Adb("uninstall") \o (Adb("find") \o Adb("install")),
              Call("assemble"), Call("install"))
      BY <2>1, <2>2, <2>3, LinkLegs
    <2>5. Leg(r, Adb("assemble") \o Adb("uninstall") \o (Adb("find") \o Adb("install"))
              \o Adb("launch"),
              Call("assemble"), Call("launch"))
      BY <2>2, <2>4, LinkLegs
    <2>6. Operation(r.command) =
            Adb("assemble") \o Adb("uninstall") \o (Adb("find") \o Adb("install")) \o Adb("launch")
      BY <1>5 DEF Operation, Assemble, Install
    <2> QED
      BY <1>0, <2>5, <2>6
  <1>6. CASE r.command = "rerun"
    <2>1. Leg(r, Adb("stop") \o Adb("launch"), Call("stop"), Call("launch"))
      BY <1>0, <1>6, AdbLeg, LinkLegs DEF Runs
    <2> QED
      BY <1>0, <1>6, <2>1 DEF Operation, Runs
  <1>7. CASE r.command \in {"stop", "uninstall"}
    <2>1. Leg(r, Adb(r.command), Call(r.command), Call(r.command))
      BY <1>0, <1>7, AdbLeg DEF IsDestructive
    <2> QED
      BY <1>0, <1>7, <2>1 DEF Operation, Runs
  <1>8. CASE r.command = "clear-data"
    <2>1. Leg(r, Adb("clear"), Call("clear"), Call("clear"))
      BY <1>0, <1>8, AdbLeg DEF IsDestructive
    <2> QED
      BY <1>0, <1>8, <2>1 DEF Operation, Runs
  <1> QED
    BY <1>1, <1>2, <1>3, <1>4, <1>5, <1>6, <1>7, <1>8 DEF Selecting, Runs

\* The stages of a command that works on an application.
LEMMA ApplicationPlan ==
  ASSUME NEW r, r.command \in Selecting \ {"test"}
  PROVE  Starts(r, Stages(r))
  <1>1. PICK b \in Touching, z \in Touching :
           /\ Leg(r, Operation(r.command), Call(b), Call(z))
           /\ r.command \in Runs => b = "assemble" /\ z = "launch"
    BY OperationLeg
  <1>2. /\ Possible(r, Stage("profile", "InvalidUsage"))
        /\ ~ Opening(Stage("profile", "InvalidUsage"))
        /\ Possible(r, Stage("confirm", "InvalidUsage"))
        /\ ~ Opening(Stage("confirm", "InvalidUsage"))
        /\ Precedes(r, Stage("devices", "DeviceError"), Stage("profile", "InvalidUsage"))
        /\ Precedes(r, Stage("profile", "InvalidUsage"), Stage("confirm", "InvalidUsage"))
    BY DEF Stage, Possible, Opening, Fallback, Unnoticed, Precedes, Early, Writing, Touching, Asking
  <1>3. Precedes(r, Stage("confirm", "InvalidUsage"), Call(b))
    <2>1. Stage("confirm", "InvalidUsage").do = "confirm"
      BY DEF Stage
    <2>2. b \in {"uninstall", "clear"} => IsDestructive(r.command)
      BY <1>1 DEF Leg, Part, Chained, Possible, Call, Stage
    <2> QED
      BY <1>1, <2>1, <2>2, AdbLeg
  <1>4. Leg(r, <<Stage("profile", "InvalidUsage"), Stage("confirm", "InvalidUsage")>>,
            Stage("profile", "InvalidUsage"), Stage("confirm", "InvalidUsage"))
    BY <1>2, TwoStages
  <1> PICK u : u = Project("ProjectUnavailable") \o Tools("Internal")
                     \o <<Stage("profile", "InvalidUsage"), Stage("confirm", "InvalidUsage")>>
    OBVIOUS
  <1>5. Leg(r, u, Stage("discover", "ProjectUnavailable"), Stage("confirm", "InvalidUsage"))
    BY <1>2, <1>4, ReadyLeg, LinkLegs
  <1>6. Leg(r, u \o Operation(r.command), Stage("discover", "ProjectUnavailable"), Call(z))
    BY <1>1, <1>3, <1>5, LinkLegs
  <1>7. Leg(r, u \o Operation(r.command) \o Report,
            Stage("discover", "ProjectUnavailable"), Stage("report", "Internal"))
    <2>1. r.command \in Runs => Call(z).do = "launch"
      BY <1>1 DEF Call, Stage
    <2> QED
      BY <1>6, <2>1, ReportLeg, LinkLegs
  <1>8. Stages(r) = <<Stage("validate", "InvalidUsage")>> \o (u \o Operation(r.command) \o Report)
    BY DEF Stages, ApplicationStages, Selecting, Runs
  <1>9. /\ Closes(r, Stage("report", "Internal"))
        /\ Stage("discover", "ProjectUnavailable").do = "discover"
    BY DEF Closes, Stage
  <1> QED
    BY <1>7, <1>8, <1>9, Validated

\* The stages of every subcommand form a plan.
LEMMA StagesArePlans ==
  ASSUME NEW r, r.command \in Subcommands
  PROVE  Starts(r, Stages(r))
  <1>1. \/ r.command \in {"init", "version", "doctor", "project"}
        \/ r.command \in {"devices", "restart-adb", "emulators", "emulator-start",
               "emulator-stop", "gradle"}
        \/ r.command = "test" \/ r.command = "logs" \/ r.command = "command"
        \/ r.command \in Selecting \ {"test"}
    BY DEF Subcommands, Selecting, Runs
  <1> QED
    BY <1>1, ShortPlans, ToolPlans, TestPlan, LogsPlan, CustomPlan, ApplicationPlan

-----------------------------------------------------------------------------
\* What a stage puts in its place.
WritesFile(r, t, file) ==
  \E a, z : /\ Part(r, t, a, z) /\ a.do = "temporary" /\ a.file = file
           /\ z.do = "sync-directory" /\ z.file = file

\* Writing a file, from the temporary file to the sync of the directory.
LEMMA WritePart ==
  ASSUME NEW r, NEW file, NEW code, code \notin {"running", "Success", Unnoticed}
  PROVE  /\ WritesFile(r, Write(file, code), file)
         /\ code # Fallback => \A i \in 1 .. Len(Write(file, code)) : ~ Opening(Write(file,
                code)[i])
  <1>c. PICK c : c = <<"temporary", "sync", "rename", "sync-directory">>
    OBVIOUS
  <1>s. PICK s : s = Write(file, code)
    OBVIOUS
  <1>1. c[1] = "temporary" /\ c[2] = "sync" /\ c[3] = "rename" /\ c[4] = "sync-directory"
    BY <1>c
  <1>2. /\ IsList(s, 4)
        /\ \A i \in 1 .. 4 : s[i] = [do |-> c[i], exit |-> code, file |-> file]
    BY <1>c, <1>s DEF Write, IsList
  <1>3. \A i \in 1 .. 4 : i = 1 \/ i = 2 \/ i = 3 \/ i = 4
    OBVIOUS
  <1>4. \A i \in 1 .. 4 : s[i].do = c[i] /\ s[i].exit = code /\ s[i].file = file /\ c[i] \in Writing
    BY <1>1, <1>2, <1>3 DEF Writing
  <1>5. \A i \in 1 .. 4 : Possible(r, s[i])
    <2>1. ASSUME NEW x, x.do \in Writing, x.exit = code PROVE Possible(r, x)
      BY <2>1 DEF Possible, Writing, Touching, Asking, Early
    <2> QED
      BY <1>4, <2>1
  <1>6. \A i \in 1 .. 4 - 1 : Precedes(r, s[i], s[i + 1])
    <2>1. /\ s[1].do = "temporary" /\ s[2].do = "sync" /\ s[3].do = "rename"
          /\ s[4].do = "sync-directory"
          /\ s[1].file = file /\ s[2].file = file /\ s[3].file = file /\ s[4].file = file
      BY <1>1, <1>4
    <2>2. Precedes(r, s[1], s[2])
      BY <2>1 DEF Precedes, Early, Writing, Touching
    <2>3. Precedes(r, s[2], s[3])
      BY <2>1 DEF Precedes, Early, Writing, Touching
    <2>4. Precedes(r, s[3], s[4])
      BY <2>1 DEF Precedes, Early, Writing, Touching
    <2> HIDE DEF Precedes
    <2>5. \A i \in 1 .. 4 - 1 : i = 1 \/ i = 2 \/ i = 3
      OBVIOUS
    <2> QED
      BY <2>2, <2>3, <2>4, <2>5
  <1>7. Part(r, s, s[1], s[4]) /\ Len(s) = 4
    BY <1>2, <1>5, <1>6, ListedStages
  <1>8. /\ s[1].do = "temporary" /\ s[1].file = file
        /\ s[4].do = "sync-directory" /\ s[4].file = file
    BY <1>1, <1>4
  <1>9. ASSUME code # Fallback PROVE \A i \in 1 .. 4 : ~ Opening(s[i])
    BY <1>4, <1>9 DEF Opening, Writing
  <1> QED
    BY <1>s, <1>7, <1>8, <1>9 DEF WritesFile

\* Refreshing the model, from the bridge to the publication.
LEMMA RefreshPart ==
  ASSUME NEW r
  PROVE  \E a, z : /\ Part(r, Refresh, a, z) /\ a.do = "extract"
                   /\ z.do = "publish" /\ z.exit = Fallback
  <1>1. PICK b, y : /\ Part(r, Write("bundle", Fallback), b, y)
                    /\ b.do = "temporary" /\ b.file = "bundle"
                    /\ y.do = "sync-directory" /\ y.file = "bundle"
    <2>1. Fallback \notin {"running", "Success", Unnoticed}
      BY DEF Fallback, Unnoticed
    <2>2. WritesFile(r, Write("bundle", Fallback), "bundle")
      BY <2>1, WritePart
    <2> QED
      BY <2>2 DEF WritesFile
  <1>2. /\ Possible(r, Stage("extract", Fallback)) /\ Possible(r, Stage("evaluate", Fallback))
        /\ Possible(r, Stage("cache-again", Fallback)) /\ Possible(r, Stage("publish", Fallback))
        /\ Precedes(r, Stage("extract", Fallback), Stage("evaluate", Fallback))
        /\ Precedes(r, Stage("evaluate", Fallback), Stage("cache-again", Fallback))
    BY DEF Stage, Possible, Precedes, Fallback, Unnoticed, Early, Writing, Touching, Asking
  <1>3. /\ Precedes(r, Stage("cache-again", Fallback), b)
        /\ Precedes(r, y, Stage("publish", Fallback))
    BY <1>1 DEF Stage, Precedes, Early, Writing, Touching
  <1>4. Part(r, <<Stage("extract", Fallback), Stage("evaluate", Fallback),
            Stage("cache-again", Fallback)>>,
             Stage("extract", Fallback), Stage("cache-again", Fallback))
    BY <1>2, FewStages
  <1>5. Part(r, <<Stage("publish", Fallback)>>, Stage("publish", Fallback),
            Stage("publish", Fallback))
    BY <1>2, FewStages
  <1>6. Part(r, Refresh, Stage("extract", Fallback), Stage("publish", Fallback))
    BY <1>1, <1>3, <1>4, <1>5, LinkParts DEF Refresh
  <1> QED
    BY <1>6 DEF Stage

\* Extracting the bridge.
LEMMA ExtractionPart ==
  ASSUME NEW r
  PROVE  \E a, z : Part(r, Extraction, a, z) /\ a.do = "open" /\ z.do = "install-bridge"
  <1>c. PICK c : c = <<"open", "fill", "verify", "install-bridge">>
    OBVIOUS
  <1>s. PICK s : s = Extraction
    OBVIOUS
  <1>1. c[1] = "open" /\ c[2] = "fill" /\ c[3] = "verify" /\ c[4] = "install-bridge"
    BY <1>c
  <1>2. IsList(s, 4) /\ \A i \in 1 .. 4 : s[i] = Stage(c[i], Fallback)
    BY <1>c, <1>s DEF Extraction, IsList
  <1>3. \A i \in 1 .. 4 : i = 1 \/ i = 2 \/ i = 3 \/ i = 4
    OBVIOUS
  <1>4. \A i \in 1 .. 4 : c[i] \in {"open", "fill", "verify", "install-bridge"}
    BY <1>1, <1>3
  <1>5. ASSUME NEW do \in {"open", "fill", "verify", "install-bridge"}
        PROVE  Possible(r, Stage(do, Fallback)) /\ \A x : x.do \in Early =>
                   Precedes(r, x, Stage(do, Fallback))
    BY DEF Possible, Precedes, Stage, Fallback, Unnoticed, Early, Writing, Touching, Asking
  <1>6. \A i \in 1 .. 4 : Possible(r, s[i]) /\ s[i].do \in Early
    <2>1. \A i \in 1 .. 4 : s[i].do = c[i]
      BY <1>2 DEF Stage
    <2> QED
      BY <1>2, <1>4, <1>5, <2>1 DEF Early
  <1>7. \A i \in 1 .. 4 - 1 : Precedes(r, s[i], s[i + 1])
    <2>1. \A i \in 1 .. 4 - 1 : i \in 1 .. 4 /\ i + 1 \in 1 .. 4
      OBVIOUS
    <2> QED
      BY <1>2, <1>4, <1>5, <1>6, <2>1
  <1>8. Part(r, s, s[1], s[4])
    BY <1>2, <1>6, <1>7, ListedStages
  <1>9. s[1].do = "open" /\ s[4].do = "install-bridge"
    <2>1. s[1] = Stage("open", Fallback) /\ s[4] = Stage("install-bridge", Fallback)
      BY <1>1, <1>2
    <2> QED
      BY <2>1 DEF Stage
  <1> QED
    BY <1>s, <1>8, <1>9

\* Setting a damaged file aside may come after every stage that reads one.
LEMMA SetAsidePart ==
  ASSUME NEW r, NEW file, NEW code, code \notin {"running", "Success"}
  PROVE  /\ Part(r, <<SetAsideStage(file, code)>>, SetAsideStage(file, code),
                SetAsideStage(file, code))
         /\ code # Fallback => \A i \in 1 .. Len(<<SetAsideStage(file, code)>>) :
                                 ~ Opening(<<SetAsideStage(file, code)>>[i])
  <1>x. PICK x : x = SetAsideStage(file, code)
    OBVIOUS
  <1>1. x.do = "set-aside" /\ x.exit = code
    BY <1>x DEF SetAsideStage
  <1>2. Possible(r, x)
    BY <1>1 DEF Possible, Early, Touching, Asking
  <1>3. Part(r, <<x>>, x, x)
    BY <1>2, FewStages
  <1>4. ASSUME code # Fallback PROVE ~ Opening(x)
    BY <1>1, <1>4 DEF Opening
  <1> QED
    BY <1>x, <1>3, <1>4

Puts(r, s, t, a) == Plan(r, t \o Tail(s)) /\ t \o Tail(s) # <<>> /\ Head(t \o Tail(s)) = a

\* A damaged file is set aside in the place of the stage that reads it.
LEMMA SetsAsidePlan ==
  ASSUME NEW r, NEW s, Plan(r, s), s # <<>>, NEW file, NEW code,
         \/ Head(s).do \in {"cache", "cache-again"} /\ code \in {Head(s).exit, Fallback}
         \/ Head(s).do = "use-preset" /\ code = Head(s).exit
         \/ Head(s).do \in {"trust", "load-presets"} /\ code = Unnoticed,
         Head(s).do = "trust" => file = "trust"
  PROVE  Puts(r, s, <<SetAsideStage(file, code)>>, SetAsideStage(file, code))
  <1>h. PICK h : h = Head(s)
    OBVIOUS
  <1>1. Possible(r, h)
    BY <1>h, PlanTail
  <1>z. PICK z : z = SetAsideStage(file, code)
    OBVIOUS
  <1>2. z.do = "set-aside" /\ z.exit = code /\ z.file = file
    BY <1>z DEF SetAsideStage
  <1>3. code \notin {"running", "Success"}
    BY <1>h, <1>1 DEF Possible, Fallback, Unnoticed
  <1>4. (Opening(h) /\ h.do # "opened") \/ code # Fallback
    BY <1>h, <1>1 DEF Possible, Opening, Fallback, Unnoticed, Early, Writing
  <1>5. h.do \in {"cache", "cache-again"} => code # Unnoticed
    BY <1>h, <1>1 DEF Possible, Fallback, Unnoticed
  <1>6. ASSUME NEW b, Precedes(r, h, b) PROVE Precedes(r, z, b)
    BY <1>h, <1>2, <1>5, <1>6 DEF Precedes, Early, Writing, Touching
  <1>7. Closes(r, h) => Closes(r, z)
    BY <1>h DEF Closes
  <1>8. Part(r, <<z>>, z, z) /\ (code # Fallback => \A i \in 1 .. Len(<<z>>) : ~ Opening(<<z>>[i]))
    BY <1>3, <1>z, SetAsidePart
  <1>9. Plan(r, <<z>> \o Tail(s)) /\ <<z>> \o Tail(s) # <<>> /\ Head(<<z>> \o Tail(s)) = z
    BY <1>h, <1>4, <1>6, <1>7, <1>8, PlanInsert
  <1> QED
    BY <1>z, <1>9 DEF Puts

\* What else a stage may put in its place.
LEMMA PutsPlan ==
  ASSUME NEW r, NEW s, Plan(r, s), s # <<>>
  PROVE  /\ Head(s).do = "cache" => \E a : Puts(r, s, Refresh, a) /\ a.do = "extract"
         /\ Head(s).do = "extract" => \E a : Puts(r, s, Extraction, a) /\ a.do = "open"
         /\ Head(s).do = "existing" => \E a : Puts(r, s, Assemble \o Adb("find"), a)
                /\ a.do = "assemble"
         /\ Head(s).do = "decide" =>
              \E a : Puts(r, s, Write("trust", "InvalidUsage"), a) /\ a.do = "temporary"
                  /\ a.file = "trust"
         /\ Head(s).do = "add-preset" =>
              \E a : Puts(r, s, Write("filters", Head(s).exit), a) /\ a.do = "temporary"
                  /\ a.file = "filters"
  <1>h. PICK h : h = Head(s)
    OBVIOUS
  <1>0. Possible(r, h)
    BY <1>h, PlanTail
  <1>1. ASSUME h.do = "cache" PROVE \E a : Puts(r, s, Refresh, a) /\ a.do = "extract"
    <2>1. PICK a, z : Part(r, Refresh, a, z) /\ a.do = "extract" /\ z.do = "publish"
              /\ z.exit = Fallback
      BY RefreshPart
    <2>2. Opening(h) /\ h.do # "opened"
      BY <1>1 DEF Opening
    <2>3. ASSUME NEW b, Precedes(r, h, b) PROVE Precedes(r, z, b)
      BY <1>1, <2>1, <2>3 DEF Precedes, Early, Writing, Touching
    <2>4. Closes(r, h) => Closes(r, z)
      BY <1>1 DEF Closes
    <2> QED
      BY <1>h, <2>1, <2>2, <2>3, <2>4, PlanInsert DEF Puts
  <1>2. ASSUME h.do = "extract" PROVE \E a : Puts(r, s, Extraction, a) /\ a.do = "open"
    <2>1. PICK a, z : Part(r, Extraction, a, z) /\ a.do = "open" /\ z.do = "install-bridge"
      BY ExtractionPart
    <2>2. Opening(h) /\ h.do # "opened"
      BY <1>2 DEF Opening
    <2>3. ASSUME NEW b, Precedes(r, h, b) PROVE Precedes(r, z, b)
      BY <1>2, <2>1, <2>3 DEF Precedes, Early, Writing, Touching
    <2>4. Closes(r, h) => Closes(r, z)
      BY <1>2 DEF Closes
    <2> QED
      BY <1>h, <2>1, <2>2, <2>3, <2>4, PlanInsert DEF Puts
  <1>3. ASSUME h.do = "existing"
        PROVE  \E a : Puts(r, s, Assemble \o Adb("find"), a) /\ a.do = "assemble"
    <2>1. r.command \in Selecting \ {"test"}
      BY <1>0, <1>3 DEF Possible, Touching, Asking
    <2>2. /\ Call("assemble").do = "assemble" /\ Call("find").do = "find"
          /\ "assemble" \in Touching /\ "find" \in Touching
      BY DEF Call, Stage, Touching
    <2>3. Leg(r, Assemble \o Adb("find"), Call("assemble"), Call("find"))
      <3>1. /\ Precedes(r, Call("assemble"), Call("find"))
            /\ Leg(r, Adb("find"), Call("find"), Call("find"))
        BY <2>1, <2>2, AdbLeg
      <3>2. Leg(r, Adb("assemble"), Call("assemble"), Call("assemble"))
        BY <2>1, <2>2, AdbLeg
      <3> QED
        BY <3>1, <3>2, LinkLegs DEF Assemble
    <2>4. PICK t : t = Assemble \o Adb("find")
      OBVIOUS
    <2>5. \A i \in 1 .. Len(t) : ~ Opening(t[i])
      <3>1. /\ IsSeq(Adb("assemble")) /\ IsSeq(Adb("find"))
            /\ Len(Adb("assemble")) = 1 /\ Len(Adb("find")) = 1
            /\ Adb("assemble")[1] = Call("assemble") /\ Adb("find")[1] = Call("find")
        <4>1. /\ Leg(r, Adb("find"), Call("find"), Call("find"))
              /\ Leg(r, Adb("assemble"), Call("assemble"), Call("assemble"))
          BY <2>1, <2>2, AdbLeg
        <4> QED
          BY <4>1 DEF Leg, Part, Chained, Adb
      <3>2. /\ Len(t) = 1 + 1 /\ \A i \in 1 .. 1 : t[i] = Adb("assemble")[i]
            /\ \A i \in 1 .. 1 : t[1 + i] = Adb("find")[i]
        BY <2>4, <3>1, OneAfterTheOther DEF Assemble
      <3>3. t[1] = Call("assemble") /\ t[2] = Call("find") /\ Len(t) = 2
        BY <3>1, <3>2
      <3>4. ~ Opening(Call("assemble")) /\ ~ Opening(Call("find"))
        BY DEF Opening, Call, Stage, Fallback
      <3> QED
        BY <3>3, <3>4
    <2>6. ASSUME NEW b, Precedes(r, h, b) PROVE Precedes(r, Call("find"), b)
      BY <1>3, <2>2, <2>6 DEF Precedes, Early, Writing, Touching
    <2>7. Closes(r, h) => Closes(r, Call("find"))
      BY <1>3 DEF Closes
    <2>8. Plan(r, t \o Tail(s)) /\ t \o Tail(s) # <<>> /\ Head(t \o Tail(s)) = Call("assemble")
      BY <1>h, <2>3, <2>4, <2>5, <2>6, <2>7, PlanInsert DEF Leg
    <2> QED
      BY <2>2, <2>4, <2>8 DEF Puts
  <1>4. ASSUME NEW file, NEW code, code \notin {"running", "Success", Unnoticed}, code # Fallback,
               (h.do = "decide" /\ file = "trust") \/ (h.do = "add-preset" /\ file = "filters")
        PROVE  \E a : Puts(r, s, Write(file, code), a) /\ a.do = "temporary" /\ a.file = file
    <2>t. PICK t : t = Write(file, code)
      OBVIOUS
    <2>w. WritesFile(r, t, file)
      BY <1>4, <2>t, WritePart
    <2>1. PICK a, z : /\ Part(r, t, a, z) /\ a.do = "temporary" /\ a.file = file
                      /\ z.do = "sync-directory" /\ z.file = file
      BY <2>w DEF WritesFile
    <2>2. \A i \in 1 .. Len(t) : ~ Opening(t[i])
      BY <1>4, <2>t, WritePart
    <2>3. ASSUME NEW b, Precedes(r, h, b) PROVE Precedes(r, z, b)
      BY <1>4, <2>1, <2>3 DEF Precedes, Early, Writing, Touching
    <2>4. Closes(r, h) => Closes(r, z)
      BY <1>4 DEF Closes
    <2>5. Plan(r, t \o Tail(s)) /\ t \o Tail(s) # <<>> /\ Head(t \o Tail(s)) = a
      BY <1>h, <2>1, <2>2, <2>3, <2>4, PlanInsert
    <2> QED
      BY <2>1, <2>5, <2>t DEF Puts
  <1>5. "InvalidUsage" \notin {"running", "Success", Unnoticed} /\ "InvalidUsage" # Fallback
    BY DEF Fallback, Unnoticed
  <1>6. h.do = "add-preset" => h.exit \notin {"running", "Success", Unnoticed} /\ h.exit # Fallback
    BY <1>0 DEF Possible, Opening, Early, Writing
  <1> QED
    BY <1>h, <1>1, <1>2, <1>3, <1>4, <1>5, <1>6

-----------------------------------------------------------------------------
(***************************************************************************)
(* What a step does to the stages of the process that takes it.            *)
(***************************************************************************)
At(p) == Head(todo[p])
Goes(p) == todo[p] # <<>>

Fields == {"known", "model", "output", "inputs", "config", "devices", "chosen", "asked",
           "trusted", "readFor", "previewed", "decision", "ran", "ranFor", "began", "apk",
           "launched", "passed", "destroyed", "presets", "data", "wrote", "inode", "polls",
           "timedOut", "booted"}

PlannedAs(r, s, e, m) == Plan(r, s) /\ (e = "running" <=> s # <<>>) /\ DOMAIN m = Fields
Planned(p) == PlannedAs(request[p], todo[p], exit[p], mem[p])

\* Gradle builds for one process, which waits for it as long as it is there.
Building(build) == /\ build.by \in Processes
                   /\ build.does \in {"assemble", "clean", "test"}
                   /\ exit[build.by] = "running" => At(build.by).do = build.does

PlanInv == /\ DOMAIN todo = Processes /\ DOMAIN exit = Processes /\ DOMAIN mem = Processes
           /\ \A p \in Processes : Planned(p)
           /\ \A one, other \in builder : one = other
           /\ \A build \in builder : Building(build)

\* A step of p leaves the other processes alone, and p with a plan.
Turned(p) ==
  /\ request' = request /\ exit[p] = "running" /\ todo[p] # <<>>
  /\ DOMAIN todo' = Processes /\ DOMAIN exit' = Processes /\ DOMAIN mem' = Processes
  /\ \A q \in Processes \ {p} : todo'[q] = todo[q] /\ exit'[q] = exit[q] /\ mem'[q] = mem[q]
  /\ PlannedAs(request[p], todo'[p], exit'[p], mem'[p])

\* p goes on with its next stage, or has succeeded;
GoesOn(p) ==
  \/ todo'[p] = <<>> /\ exit'[p] = "Success" /\ Closes(request[p], At(p))
  \/ todo'[p] # <<>> /\ exit'[p] = "running" /\ Precedes(request[p], At(p), Head(todo'[p]))

\* has failed, or goes on with what it has of the project;
FallsOut(p) ==
  \/ todo'[p] = <<>> /\ exit'[p] \notin {"running", "Success"}
  \/ /\ todo'[p] # <<>> /\ exit'[p] = "running"
     /\ Head(todo'[p]).do = "opened" /\ At(p).do \in Early

\* goes on with another stage in the place of this one;
TurnsTo(p, a) == todo'[p] # <<>> /\ exit'[p] = "running" /\ Head(todo'[p]) = a

\* or waits.
Stays(p) == todo'[p] = todo[p] /\ exit'[p] = exit[p]

\* A stage that is done leaves the rest of the plan.
LEMMA MovesStep ==
  ASSUME PlanInv, NEW p \in Processes, exit[p] = "running", request' = request,
         NEW m, DOMAIN m = Fields, Moves(p, m)
  PROVE  Turned(p) /\ GoesOn(p) /\ mem'[p] = m
  <1>1. PlannedAs(request[p], todo[p], exit[p], mem[p])
    BY DEF PlanInv, Planned
  <1>2. Plan(request[p], todo[p]) /\ todo[p] # <<>>
    BY <1>1 DEF PlannedAs
  <1>3. /\ todo' = [todo EXCEPT ![p] = Tail(todo[p])]
        /\ exit' = [exit EXCEPT ![p] = IF Tail(todo[p]) = <<>> THEN "Success" ELSE exit[p]]
        /\ mem' = [mem EXCEPT ![p] = m]
    BY DEF Moves, Follows
  <1>4. /\ Plan(request[p], Tail(todo[p]))
        /\ Tail(todo[p]) # <<>> => Precedes(request[p], At(p), Head(Tail(todo[p])))
        /\ Tail(todo[p]) = <<>> => Closes(request[p], At(p))
    BY <1>2, PlanTail DEF At
  <1>5. DOMAIN todo = Processes /\ DOMAIN exit = Processes /\ DOMAIN mem = Processes
    BY DEF PlanInv
  <1>6. /\ todo'[p] = Tail(todo[p]) /\ mem'[p] = m
        /\ exit'[p] = IF Tail(todo[p]) = <<>> THEN "Success" ELSE "running"
        /\ DOMAIN todo' = Processes /\ DOMAIN exit' = Processes /\ DOMAIN mem' = Processes
        /\ \A q \in Processes \ {p} : todo'[q] = todo[q] /\ exit'[q] = exit[q] /\ mem'[q] = mem[q]
    BY <1>3, <1>5
  <1> QED
    BY <1>2, <1>4, <1>6 DEF Turned, GoesOn, PlannedAs

\* The stage "opened" is found where it is ahead.
LEMMA OpenedAhead ==
  ASSUME NEW r, NEW s, Plan(r, s), s # <<>>, Opening(Head(s))
  PROVE  /\ Plan(r, SubSeq(s, OpenedAt(s), Len(s))) /\ SubSeq(s, OpenedAt(s), Len(s)) # <<>>
         /\ Head(SubSeq(s, OpenedAt(s), Len(s))).do = "opened"
  <1>n. PICK n : n = Len(s)
    OBVIOUS
  <1>0. n \in Nat /\ n > 0 /\ Head(s) = s[1]
    BY <1>n, FirstAndOthers DEF Plan, Chained, IsSeq
  <1>1. PICK T : T = {i \in 1 .. n : s[i].do = "opened"}
    OBVIOUS
  <1>2. PICK j \in 1 .. n : s[j].do = "opened"
    BY <1>0, <1>n DEF Plan, Opens
  <1>3. T \in SUBSET Nat /\ T # {}
    BY <1>0, <1>1, <1>2
  <1>4. PICK k \in T : \A y \in T : k <= y
    BY <1>3, LeastNumber
  <1>5. OpenedAt(s) = CHOOSE x \in T : \A y \in T : x <= y
    BY <1>1, <1>3, <1>n DEF OpenedAt, SelectInSeq, Min
  <1>6. OpenedAt(s) \in T
    BY <1>4, <1>5
  <1>7. OpenedAt(s) \in 1 .. Len(s) /\ s[OpenedAt(s)].do = "opened"
    BY <1>1, <1>6, <1>n
  <1> QED
    BY <1>7, PlanFrom

\* A failure leaves nothing, or the plan from the stage "opened" on.
LEMMA FailsStep ==
  ASSUME PlanInv, NEW p \in Processes, exit[p] = "running", request' = request,
         NEW m, DOMAIN m = Fields, NEW code, code \notin {"running", "Success"},
         code = Fallback => Opening(At(p)),
         FailsWith(p, code, m)
  PROVE  Turned(p) /\ FallsOut(p) /\ mem'[p] = m
  <1>1. PlannedAs(request[p], todo[p], exit[p], mem[p])
    BY DEF PlanInv, Planned
  <1>2. Plan(request[p], todo[p]) /\ todo[p] # <<>>
    BY <1>1 DEF PlannedAs
  <1>3. DOMAIN todo = Processes /\ DOMAIN exit = Processes /\ DOMAIN mem = Processes
    BY DEF PlanInv
  <1>4. CASE code = Fallback
    <2>s. PICK s : s = SubSeq(todo[p], OpenedAt(todo[p]), Len(todo[p]))
      OBVIOUS
    <2>1. Plan(request[p], s) /\ s # <<>> /\ Head(s).do = "opened"
      BY <1>2, <1>4, <2>s, OpenedAhead DEF At
    <2>2. /\ todo' = [todo EXCEPT ![p] = s]
          /\ exit' = [exit EXCEPT ![p] = IF s = <<>> THEN "Success" ELSE exit[p]]
          /\ mem' = [mem EXCEPT ![p] = m]
      BY <1>4, <2>s DEF FailsWith, Follows
    <2>3. At(p).do \in Early
      BY <1>2, <1>4, PlanTail DEF At, Possible
    <2>4. /\ todo'[p] = s /\ mem'[p] = m /\ exit'[p] = "running"
          /\ DOMAIN todo' = Processes /\ DOMAIN exit' = Processes /\ DOMAIN mem' = Processes
          /\ \A q \in Processes \ {p} : todo'[q] = todo[q] /\ exit'[q] = exit[q] /\ mem'[q] = mem[q]
      BY <1>3, <2>1, <2>2
    <2> QED
      BY <1>2, <2>1, <2>3, <2>4 DEF Turned, FallsOut, PlannedAs
  <1>5. CASE code # Fallback
    <2>1. /\ todo' = [todo EXCEPT ![p] = <<>>] /\ exit' = [exit EXCEPT ![p] = code]
          /\ mem' = [mem EXCEPT ![p] = m]
      BY <1>5 DEF FailsWith
    <2>2. /\ todo'[p] = <<>> /\ mem'[p] = m /\ exit'[p] = code
          /\ DOMAIN todo' = Processes /\ DOMAIN exit' = Processes /\ DOMAIN mem' = Processes
          /\ \A q \in Processes \ {p} : todo'[q] = todo[q] /\ exit'[q] = exit[q] /\ mem'[q] = mem[q]
      BY <1>3, <2>1
    <2>3. Plan(request[p], <<>>)
      <3>1. IsSeq(<<>>) /\ Len(<<>>) = 0
        BY EmptySeq DEF IsSeq
      <3> QED
        BY <3>1 DEF Plan, Chained, Opens
    <2> QED
      BY <1>2, <2>2, <2>3 DEF Turned, FallsOut, PlannedAs
  <1> QED
    BY <1>4, <1>5

\* Stages put in the place of one make a plan with those that follow it.
LEMMA InsertsStep ==
  ASSUME PlanInv, NEW p \in Processes, exit[p] = "running", request' = request,
         NEW m, DOMAIN m = Fields, NEW t, NEW a, Puts(request[p], todo[p], t, a),
         Inserts(p, t, m)
  PROVE  Turned(p) /\ TurnsTo(p, a) /\ mem'[p] = m
  <1>1. PlannedAs(request[p], todo[p], exit[p], mem[p])
    BY DEF PlanInv, Planned
  <1>2. todo[p] # <<>>
    BY <1>1 DEF PlannedAs
  <1>s. PICK s : s = t \o Tail(todo[p])
    OBVIOUS
  <1>3. Plan(request[p], s) /\ s # <<>> /\ Head(s) = a
    BY <1>s DEF Puts
  <1>4. /\ todo' = [todo EXCEPT ![p] = s]
        /\ exit' = [exit EXCEPT ![p] = IF s = <<>> THEN "Success" ELSE exit[p]]
        /\ mem' = [mem EXCEPT ![p] = m]
    BY <1>s DEF Inserts, Follows
  <1>5. DOMAIN todo = Processes /\ DOMAIN exit = Processes /\ DOMAIN mem = Processes
    BY DEF PlanInv
  <1>6. /\ todo'[p] = s /\ mem'[p] = m /\ exit'[p] = "running"
        /\ DOMAIN todo' = Processes /\ DOMAIN exit' = Processes /\ DOMAIN mem' = Processes
        /\ \A q \in Processes \ {p} : todo'[q] = todo[q] /\ exit'[q] = exit[q] /\ mem'[q] = mem[q]
    BY <1>3, <1>4, <1>5
  <1> QED
    BY <1>2, <1>3, <1>6 DEF Turned, TurnsTo, PlannedAs

\* A stage that waits leaves the plan as it is.
LEMMA StaysStep ==
  ASSUME PlanInv, NEW p \in Processes, exit[p] = "running", request' = request,
         NEW m, DOMAIN m = Fields, UNCHANGED <<todo, exit>>,
         mem' = [mem EXCEPT ![p] = m] \/ (mem' = mem /\ m = mem[p])
  PROVE  Turned(p) /\ Stays(p) /\ mem'[p] = m
  <1>1. PlannedAs(request[p], todo[p], exit[p], mem[p])
    BY DEF PlanInv, Planned
  <1>2. DOMAIN todo = Processes /\ DOMAIN exit = Processes /\ DOMAIN mem = Processes
    BY DEF PlanInv
  <1>3. /\ todo'[p] = todo[p] /\ mem'[p] = m /\ exit'[p] = exit[p]
        /\ DOMAIN todo' = Processes /\ DOMAIN exit' = Processes /\ DOMAIN mem' = Processes
        /\ \A q \in Processes \ {p} : todo'[q] = todo[q] /\ exit'[q] = exit[q] /\ mem'[q] = mem[q]
    BY <1>2
  <1> QED
    BY <1>1, <1>3 DEF Turned, Stays, PlannedAs

-----------------------------------------------------------------------------
\* The way on from a stage that is replaced by others.
TurnedAs(p, a) ==
  \/ /\ a.do = "set-aside"
     /\ At(p).do \in {"cache", "cache-again", "use-preset", "trust", "load-presets"}
     /\ At(p).do = "trust" <=> a.file = "trust"
  \/ a.do = "extract" /\ At(p).do = "cache"
  \/ a.do = "open" /\ At(p).do = "extract"
  \/ a.do = "assemble" /\ At(p).do = "existing"
  \/ a.do = "temporary" /\ a.file = "trust" /\ At(p).do = "decide"
  \/ a.do = "temporary" /\ a.file = "filters" /\ At(p).do = "add-preset"

\* What a step does to the process that takes it, and to no other: where it leaves it,
\* and what it may change in its memory.
Shape(p) ==
  /\ Turned(p)
  /\ \/ GoesOn(p) /\ (At(p).do = "set-aside" => At(p).exit = Unnoticed)
     \/ FallsOut(p)
     \/ Stays(p) /\ At(p).do \in {"assemble", "clean", "test", "boot"}
     \/ \E a : TurnsTo(p, a) /\ TurnedAs(p, a)

Changes(p, F) == \A f \in Fields \ F : mem'[p][f] = mem[p][f]

\* The ways a stage ends.
Passes(p, m) == Turned(p) /\ GoesOn(p) /\ mem'[p] = m
Drops(p, m) == Turned(p) /\ FallsOut(p) /\ mem'[p] = m

\* The ways on of a process that runs, by what its step says.
LEMMA Ways ==
  ASSUME PlanInv, NEW p \in Processes, exit[p] = "running", request' = request
  PROVE  /\ DOMAIN mem[p] = Fields /\ todo[p] # <<>>
         /\ Plan(request[p], todo[p]) /\ Possible(request[p], At(p))
         /\ \A m : DOMAIN m = Fields /\ Moves(p, m) => Passes(p, m)
         /\ \A m : DOMAIN m = Fields /\ FailsWith(p, At(p).exit, m) => Drops(p, m)
         /\ \A m : DOMAIN m = Fields /\ FailsWith(p, "InvalidUsage", m) => Drops(p, m)
         /\ \A m : DOMAIN m = Fields /\ FailsWith(p, "Cancelled", m) => Drops(p, m)
         /\ Moves(p, mem[p]) => Passes(p, mem[p])
         /\ Fails(p) => Drops(p, mem[p])
  <1>1. PlannedAs(request[p], todo[p], exit[p], mem[p])
    BY DEF PlanInv, Planned
  <1>2. Plan(request[p], todo[p]) /\ todo[p] # <<>> /\ DOMAIN mem[p] = Fields
    BY <1>1 DEF PlannedAs
  <1>3. Possible(request[p], At(p))
    BY <1>2, PlanTail DEF At
  <1>4. At(p).exit \notin {"running", "Success"} /\ (At(p).exit = Fallback => Opening(At(p)))
    BY <1>3 DEF Possible, Opening
  <1>5. /\ "InvalidUsage" \notin {"running", "Success"} /\ "InvalidUsage" # Fallback
        /\ "Cancelled" \notin {"running", "Success"} /\ "Cancelled" # Fallback
    BY DEF Fallback
  <1>6. ASSUME NEW m, DOMAIN m = Fields, Moves(p, m) PROVE Passes(p, m)
    BY <1>6, MovesStep DEF Passes
  <1>7. ASSUME NEW m, DOMAIN m = Fields, NEW code, FailsWith(p, code, m),
               code = At(p).exit \/ code = "InvalidUsage" \/ code = "Cancelled"
        PROVE  Drops(p, m)
    <2>1. code \notin {"running", "Success"} /\ (code = Fallback => Opening(At(p)))
      BY <1>4, <1>5, <1>7
    <2> QED
      BY <1>7, <2>1, FailsStep DEF Drops
  <1>8. Fails(p) => FailsWith(p, At(p).exit, mem[p])
    BY DEF Fails, At
  <1> QED
    BY <1>2, <1>3, <1>6, <1>7, <1>8

\* The same at a stage.
LEMMA WaysAt ==
  ASSUME PlanInv, NEW p \in Processes, NEW D, Doing(p, D)
  PROVE  /\ exit[p] = "running" /\ request' = request /\ At(p).do \in D
         /\ DOMAIN mem[p] = Fields /\ todo[p] # <<>>
         /\ Plan(request[p], todo[p]) /\ Possible(request[p], At(p))
         /\ \A m : DOMAIN m = Fields /\ Moves(p, m) => Passes(p, m)
         /\ \A m : DOMAIN m = Fields /\ FailsWith(p, At(p).exit, m) => Drops(p, m)
         /\ \A m : DOMAIN m = Fields /\ FailsWith(p, "InvalidUsage", m) => Drops(p, m)
         /\ \A m : DOMAIN m = Fields /\ FailsWith(p, "Cancelled", m) => Drops(p, m)
         /\ Moves(p, mem[p]) => Passes(p, mem[p])
         /\ Fails(p) => Drops(p, mem[p])
  <1>1. exit[p] = "running" /\ request' = request /\ At(p).do \in D
    BY DEF Doing, At
  <1> QED
    BY <1>1, Ways

\* The stages that change nothing in memory.
LEMMA PlainSteps ==
  ASSUME PlanInv, NEW p \in Processes,
         \/ Try(p) \/ Validate(p) \/ Discover(p) \/ QuarantineFile(p) \/ FillTemporary(p)
         \/ VerifyTemporary(p) \/ InstallBridge(p) \/ SyncDirectory(p) \/ ProjectOpened(p)
         \/ ResolveInvocation(p) \/ GradleFails(p) \/ FindFailures(p) \/ Verdict(p)
         \/ AdbInstall(p) \/ AdbStop(p) \/ CheckEmulator(p) \/ KillEmulator(p) \/ FindCommand(p)
         \/ ResolveTarget(p) \/ Capture(p)
  PROVE  Shape(p) /\ mem'[p] = mem[p]
  <1>0. /\ \A D : Doing(p, D) =>
             /\ At(p).do \in D /\ DOMAIN mem[p] = Fields /\ At(p) = Head(todo[p])
             /\ \A m : DOMAIN m = Fields /\ FailsWith(p, At(p).exit, m) => Drops(p, m)
             /\ \A m : DOMAIN m = Fields /\ FailsWith(p, "Cancelled", m) => Drops(p, m)
             /\ Moves(p, mem[p]) => Passes(p, mem[p])
             /\ Fails(p) => Drops(p, mem[p])
    BY WaysAt DEF At
  <1>1. Passes(p, mem[p]) /\ (At(p).do = "set-aside" => At(p).exit = Unnoticed)
          => Shape(p) /\ mem'[p] = mem[p]
    BY DEF Passes, Shape
  <1>2. Drops(p, mem[p]) => Shape(p) /\ mem'[p] = mem[p]
    BY DEF Drops, Shape
  <1>3. CASE Try(p)
    BY <1>0, <1>1, <1>2, <1>3 DEF Try, Tries, Local
  <1>4. CASE Validate(p)
    BY <1>0, <1>1, <1>2, <1>4 DEF Validate, Checks
  <1>5. CASE Discover(p)
    BY <1>0, <1>1, <1>2, <1>5 DEF Discover, Checks
  <1>6. CASE QuarantineFile(p)
    BY <1>0, <1>1, <1>2, <1>6 DEF QuarantineFile
  <1>7. CASE FillTemporary(p)
    BY <1>0, <1>1, <1>2, <1>7 DEF FillTemporary
  <1>8. CASE VerifyTemporary(p)
    BY <1>0, <1>1, <1>2, <1>8 DEF VerifyTemporary, Checks
  <1>9. CASE InstallBridge(p)
    BY <1>0, <1>1, <1>2, <1>9 DEF InstallBridge, Checks
  <1>10. CASE SyncDirectory(p)
    BY <1>0, <1>1, <1>2, <1>10 DEF SyncDirectory
  <1>11. CASE ProjectOpened(p)
    BY <1>0, <1>1, <1>2, <1>11 DEF ProjectOpened, Checks
  <1>12. CASE ResolveInvocation(p)
    <2>1. Doing(p, {"invocation"}) /\ (Moves(p, mem[p]) \/ Fails(p))
      BY <1>12, Zenon DEF ResolveInvocation, Checks
    <2> QED
      BY <1>0, <1>1, <1>2, <2>1
  <1>13. CASE GradleFails(p)
    BY <1>0, <1>1, <1>2, <1>13 DEF GradleFails
  <1>14. CASE FindFailures(p)
    BY <1>0, <1>1, <1>2, <1>14 DEF FindFailures, Checks
  <1>15. CASE Verdict(p)
    BY <1>0, <1>1, <1>2, <1>15 DEF Verdict, Checks
  <1>16. CASE AdbInstall(p)
    BY <1>0, <1>1, <1>2, <1>16 DEF AdbInstall, Adbs
  <1>17. CASE AdbStop(p)
    BY <1>0, <1>1, <1>2, <1>17 DEF AdbStop, Tries
  <1>18. CASE CheckEmulator(p)
    <2>1. Doing(p, {"not-running", "running", "wipe"}) /\ (Moves(p, mem[p]) \/ Fails(p))
      BY <1>18, Zenon DEF CheckEmulator, Checks
    <2> QED
      BY <1>0, <1>1, <1>2, <2>1
  <1>19. CASE KillEmulator(p)
    BY <1>0, <1>1, <1>2, <1>19 DEF KillEmulator
  <1>20. CASE FindCommand(p)
    BY <1>0, <1>1, <1>2, <1>20 DEF FindCommand, Checks
  <1>21. CASE ResolveTarget(p)
    <2>1. Doing(p, {"target"}) /\ (Moves(p, mem[p]) \/ Fails(p))
      BY <1>21, Zenon DEF ResolveTarget, Checks
    <2> QED
      BY <1>0, <1>1, <1>2, <2>1
  <1>22. CASE Capture(p)
    BY <1>0, <1>1, <1>2, <1>22 DEF Capture, Tries
  <1> QED
    BY <1>3, <1>4, <1>5, <1>6, <1>7, <1>8, <1>9, <1>10, <1>11, <1>12, <1>13, <1>14, <1>15, <1>16,
       <1>17, <1>18, <1>19, <1>20, <1>21, <1>22

Turns(p, m) == Turned(p) /\ (\E a : TurnsTo(p, a) /\ TurnedAs(p, a)) /\ mem'[p] = m

\* The ways on by which a stage is replaced by others.
LEMMA TurningWays ==
  ASSUME PlanInv, NEW p \in Processes, exit[p] = "running", request' = request,
         NEW m, DOMAIN m = Fields
  PROVE  /\ \A file, code :
              /\ \/ At(p).do \in {"cache", "cache-again"} /\ code \in {At(p).exit, Fallback}
                 \/ At(p).do = "use-preset" /\ code = At(p).exit
                 \/ At(p).do \in {"trust", "load-presets"} /\ code = Unnoticed
              /\ At(p).do = "trust" <=> file = "trust"
              /\ Inserts(p, <<SetAsideStage(file, code)>>, m)
              => Turns(p, m)
         /\ At(p).do = "cache" /\ Inserts(p, Refresh, m) => Turns(p, m)
         /\ At(p).do = "extract" /\ Inserts(p, Extraction, m) => Turns(p, m)
         /\ At(p).do = "existing" /\ Inserts(p, Assemble \o Adb("find"), m) => Turns(p, m)
         /\ At(p).do = "decide" /\ Inserts(p, Write("trust", "InvalidUsage"), m) => Turns(p, m)
         /\ At(p).do = "add-preset" /\ Inserts(p, Write("filters", At(p).exit), m) => Turns(p, m)
  <1>1. PlannedAs(request[p], todo[p], exit[p], mem[p])
    BY DEF PlanInv, Planned
  <1>2. Plan(request[p], todo[p]) /\ todo[p] # <<>>
    BY <1>1 DEF PlannedAs
  <1>3. ASSUME NEW t, NEW a, Puts(request[p], todo[p], t, a), TurnedAs(p, a), Inserts(p, t, m)
        PROVE  Turns(p, m)
    BY <1>3, InsertsStep DEF Turns
  <1>4. ASSUME NEW file, NEW code,
               \/ At(p).do \in {"cache", "cache-again"} /\ code \in {At(p).exit, Fallback}
               \/ At(p).do = "use-preset" /\ code = At(p).exit
               \/ At(p).do \in {"trust", "load-presets"} /\ code = Unnoticed,
               At(p).do = "trust" <=> file = "trust",
               Inserts(p, <<SetAsideStage(file, code)>>, m)
        PROVE  Turns(p, m)
    <2>1. Puts(request[p], todo[p], <<SetAsideStage(file, code)>>, SetAsideStage(file, code))
      BY <1>2, <1>4, SetsAsidePlan DEF At
    <2>2. TurnedAs(p, SetAsideStage(file, code))
      BY <1>4 DEF TurnedAs, SetAsideStage
    <2> QED
      BY <1>3, <1>4, <2>1, <2>2
  <1>5. ASSUME At(p).do = "cache", Inserts(p, Refresh, m) PROVE Turns(p, m)
    <2>1. PICK a : Puts(request[p], todo[p], Refresh, a) /\ a.do = "extract"
      BY <1>2, <1>5, PutsPlan DEF At
    <2> QED
      BY <1>3, <1>5, <2>1 DEF TurnedAs
  <1>6. ASSUME At(p).do = "extract", Inserts(p, Extraction, m) PROVE Turns(p, m)
    <2>1. PICK a : Puts(request[p], todo[p], Extraction, a) /\ a.do = "open"
      BY <1>2, <1>6, PutsPlan DEF At
    <2> QED
      BY <1>3, <1>6, <2>1 DEF TurnedAs
  <1>7. ASSUME At(p).do = "existing", Inserts(p, Assemble \o Adb("find"), m) PROVE Turns(p, m)
    <2>1. PICK a : Puts(request[p], todo[p], Assemble \o Adb("find"), a) /\ a.do = "assemble"
      BY <1>2, <1>7, PutsPlan DEF At
    <2> QED
      BY <1>3, <1>7, <2>1 DEF TurnedAs
  <1>8. ASSUME At(p).do = "decide", Inserts(p, Write("trust", "InvalidUsage"), m) PROVE Turns(p, m)
    <2>1. PICK a : /\ Puts(request[p], todo[p], Write("trust", "InvalidUsage"), a)
                   /\ a.do = "temporary" /\ a.file = "trust"
      BY <1>2, <1>8, PutsPlan DEF At
    <2> QED
      BY <1>3, <1>8, <2>1 DEF TurnedAs
  <1>9. ASSUME At(p).do = "add-preset", Inserts(p, Write("filters", At(p).exit), m)
        PROVE  Turns(p, m)
    <2>1. PICK a : /\ Puts(request[p], todo[p], Write("filters", At(p).exit), a)
                   /\ a.do = "temporary" /\ a.file = "filters"
      BY <1>2, <1>9, PutsPlan DEF At
    <2> QED
      BY <1>3, <1>9, <2>1 DEF TurnedAs
  <1> QED
    BY <1>4, <1>5, <1>6, <1>7, <1>8, <1>9

\* The stages that may change something in memory, or turn to others.
LEMMA OtherSteps ==
  ASSUME PlanInv, NEW p \in Processes
  PROVE  /\ LoadConfig(p) => Shape(p) /\ Changes(p, {"config"})
         /\ OpenProject(p) => Shape(p) /\ Changes(p, {"known", "model"})
         /\ Extract(p) \/ FindArtifacts(p) \/ UsePreset(p) \/ StartGradle(p)
              => Shape(p) /\ mem'[p] = mem[p]
         /\ OpenTemporary(p) => Shape(p) /\ Changes(p, {"inode"})
         /\ Evaluate(p) => Shape(p) /\ Changes(p, {"output"})
         /\ Fingerprint(p) => Shape(p) /\ Changes(p, {"inputs", "data"})
         /\ RenameFile(p) => Shape(p) /\ Changes(p, {"wrote"})
         /\ Publish(p) => Shape(p) /\ Changes(p, {"known", "model"})
         /\ ListDevices(p) => Shape(p) /\ Changes(p, {"devices"})
         /\ ResolveProfile(p) => Shape(p) /\ Changes(p, {"chosen"})
         /\ Confirm(p) => Shape(p) /\ Changes(p, {"asked"})
         /\ AdbRemove(p) \/ SpawnEmulator(p) => Shape(p) /\ Changes(p, {"destroyed"})
         /\ AdbLaunch(p) => Shape(p) /\ Changes(p, {"launched"})
         /\ PollBoot(p) => Shape(p) /\ Changes(p, {"polls", "booted", "timedOut"})
         /\ ReadTrust(p) => Shape(p) /\ Changes(p, {"trusted", "readFor", "previewed"})
         /\ Ask(p) => Shape(p) /\ Changes(p, {"decision", "asked"})
         /\ Decide(p) => Shape(p) /\ Changes(p, {"data", "decision", "previewed"})
         /\ AddPreset(p) => Shape(p) /\ Changes(p, {"data"})
         /\ RunCommand(p) => Shape(p) /\ Changes(p, {"ran", "ranFor"})
         /\ LoadPresets(p) => Shape(p) /\ Changes(p, {"presets"})
  <1>0. ASSUME NEW D, Doing(p, D)
        PROVE  /\ At(p).do \in D /\ DOMAIN mem[p] = Fields /\ At(p) = Head(todo[p])
               /\ exit[p] = "running" /\ request' = request
               /\ \A m : DOMAIN m = Fields /\ Moves(p, m) => Passes(p, m)
               /\ \A m : DOMAIN m = Fields /\ FailsWith(p, At(p).exit, m) => Drops(p, m)
               /\ \A m : DOMAIN m = Fields /\ FailsWith(p, "InvalidUsage", m) => Drops(p, m)
               /\ Fails(p) => Drops(p, mem[p])
    BY <1>0, WaysAt DEF At
  <1>1. ASSUME NEW m, NEW F, \A f \in Fields \ F : m[f] = mem[p][f], At(p).do # "set-aside",
               Passes(p, m) \/ Drops(p, m) \/ Drops(p, mem[p]) \/ Turns(p, m) \/ Turns(p, mem[p])
        PROVE  Shape(p) /\ Changes(p, F)
    BY <1>1 DEF Passes, Drops, Turns, Shape, Changes
  <1>2. ASSUME LoadConfig(p) PROVE Shape(p) /\ Changes(p, {"config"})
    <2>1. Doing(p, {"config"})
      BY <1>2 DEF LoadConfig
    <2>2. PICK v :
            \/ Moves(p, [mem[p] EXCEPT !.config = v])
            \/ Fails(p)
      BY <1>2, <2>1, Zenon DEF LoadConfig, Checks
    <2>3. PICK m : m = [mem[p] EXCEPT !.config = v]
      OBVIOUS
    <2>4. DOMAIN m = Fields /\ \A f \in Fields \ {"config"} : m[f] = mem[p][f]
      BY <1>0, <2>1, <2>3
    <2>5. Passes(p, m) \/ Drops(p, mem[p])
      BY <1>0, <2>1, <2>2, <2>3, <2>4
    <2> QED
      BY <1>0, <1>1, <2>1, <2>4, <2>5
  <1>3. ASSUME OpenProject(p) PROVE Shape(p) /\ Changes(p, {"known", "model"})
    <2>1. Doing(p, {"cache"})
      BY <1>3 DEF OpenProject
    <2>2. PICK v, w :
            \/ Inserts(p, <<SetAsideStage("bundle", At(p).exit)>>, mem[p])
            \/ Inserts(p, Refresh, mem[p])
            \/ Moves(p, [mem[p] EXCEPT !.known = v, !.model = w])
            \/ Inserts(p, Refresh, [mem[p] EXCEPT !.known = v, !.model = w])
      BY <1>3, <2>1, Zenon DEF OpenProject, SetsAside, At
    <2>3. PICK m : m = [mem[p] EXCEPT !.known = v, !.model = w]
      OBVIOUS
    <2>4. DOMAIN m = Fields /\ \A f \in Fields \ {"known", "model"} : m[f] = mem[p][f]
      BY <1>0, <2>1, <2>3
    <2>5. ASSUME Inserts(p, <<SetAsideStage("bundle", At(p).exit)>>, mem[p]) PROVE Turns(p, mem[p])
      BY <1>0, <2>1, <2>4, <2>5, TurningWays
    <2>6. ASSUME Inserts(p, Refresh, mem[p]) PROVE Turns(p, mem[p])
      BY <1>0, <2>1, <2>4, <2>6, TurningWays
    <2>7. ASSUME Moves(p, m) PROVE Passes(p, m)
      BY <1>0, <2>1, <2>4, <2>7
    <2>8. ASSUME Inserts(p, Refresh, m) PROVE Turns(p, m)
      BY <1>0, <2>1, <2>4, <2>8, TurningWays
    <2>9. Turns(p, mem[p]) \/ Passes(p, m) \/ Turns(p, m)
      BY <2>2, <2>3, <2>5, <2>6, <2>7, <2>8
    <2> QED
      BY <1>0, <1>1, <2>1, <2>4, <2>9
  <1>4. ASSUME Extract(p) PROVE Shape(p) /\ mem'[p] = mem[p]
    <2>1. Doing(p, {"extract"})
      BY <1>4 DEF Extract
    <2>2. \/ Moves(p, mem[p])
          \/ Inserts(p, Extraction, mem[p])
      BY <1>4, <2>1, Zenon DEF Extract
    <2>3. PICK m : m = mem[p]
      OBVIOUS
    <2>4. DOMAIN m = Fields /\ \A f \in Fields \ {} : m[f] = mem[p][f]
      BY <1>0, <2>1, <2>3
    <2>5. ASSUME Moves(p, mem[p]) PROVE Passes(p, mem[p])
      BY <1>0, <2>1, <2>4, <2>5
    <2>6. ASSUME Inserts(p, Extraction, mem[p]) PROVE Turns(p, mem[p])
      BY <1>0, <2>1, <2>4, <2>6, TurningWays
    <2>7. Passes(p, mem[p]) \/ Turns(p, mem[p])
      BY <2>2, <2>3, <2>5, <2>6
    <2>s. mem'[p] = mem[p]
      BY <2>3, <2>7 DEF Passes, Drops, Turns
    <2> QED
      BY <1>0, <1>1, <2>1, <2>4, <2>7, <2>s
  <1>5. ASSUME FindArtifacts(p) PROVE Shape(p) /\ mem'[p] = mem[p]
    <2>1. Doing(p, {"existing", "find"})
      BY <1>5 DEF FindArtifacts
    <2>2. \/ Moves(p, mem[p])
          \/ Fails(p)
          \/ (At(p).do = "existing" /\ Inserts(p, Assemble \o Adb("find"), mem[p]))
      BY <1>5, <2>1, Zenon DEF FindArtifacts, At
    <2>3. PICK m : m = mem[p]
      OBVIOUS
    <2>4. DOMAIN m = Fields /\ \A f \in Fields \ {} : m[f] = mem[p][f]
      BY <1>0, <2>1, <2>3
    <2>5. ASSUME Moves(p, mem[p]) PROVE Passes(p, mem[p])
      BY <1>0, <2>1, <2>4, <2>5
    <2>6. ASSUME Fails(p) PROVE Drops(p, mem[p])
      BY <1>0, <2>1, <2>4, <2>6
    <2>7. ASSUME (At(p).do = "existing" /\ Inserts(p, Assemble \o Adb("find"), mem[p]))
          PROVE  Turns(p, mem[p])
      BY <1>0, <2>1, <2>4, <2>7, TurningWays
    <2>8. Passes(p, mem[p]) \/ Drops(p, mem[p]) \/ Turns(p, mem[p])
      BY <2>2, <2>3, <2>5, <2>6, <2>7
    <2>s. mem'[p] = mem[p]
      BY <2>3, <2>8 DEF Passes, Drops, Turns
    <2> QED
      BY <1>0, <1>1, <2>1, <2>4, <2>8, <2>s
  <1>6. ASSUME UsePreset(p) PROVE Shape(p) /\ mem'[p] = mem[p]
    <2>1. Doing(p, {"use-preset"})
      BY <1>6 DEF UsePreset
    <2>2. \/ Moves(p, mem[p])
          \/ Fails(p)
          \/ Inserts(p, <<SetAsideStage("filters", At(p).exit)>>, mem[p])
      BY <1>6, <2>1, Zenon DEF UsePreset, SetsAside, Checks, At
    <2>3. PICK m : m = mem[p]
      OBVIOUS
    <2>4. DOMAIN m = Fields /\ \A f \in Fields \ {} : m[f] = mem[p][f]
      BY <1>0, <2>1, <2>3
    <2>5. ASSUME Moves(p, mem[p]) PROVE Passes(p, mem[p])
      BY <1>0, <2>1, <2>4, <2>5
    <2>6. ASSUME Fails(p) PROVE Drops(p, mem[p])
      BY <1>0, <2>1, <2>4, <2>6
    <2>7. ASSUME Inserts(p, <<SetAsideStage("filters", At(p).exit)>>, mem[p]) PROVE Turns(p, mem[p])
      BY <1>0, <2>1, <2>4, <2>7, TurningWays
    <2>8. Passes(p, mem[p]) \/ Drops(p, mem[p]) \/ Turns(p, mem[p])
      BY <2>2, <2>3, <2>5, <2>6, <2>7
    <2>s. mem'[p] = mem[p]
      BY <2>3, <2>8 DEF Passes, Drops, Turns
    <2> QED
      BY <1>0, <1>1, <2>1, <2>4, <2>8, <2>s
  <1>7. ASSUME OpenTemporary(p) PROVE Shape(p) /\ Changes(p, {"inode"})
    <2>1. Doing(p, {"open"})
      BY <1>7 DEF OpenTemporary
    <2>2. PICK v :
            \/ Moves(p, [mem[p] EXCEPT !.inode = v])
      BY <1>7, <2>1, Zenon DEF OpenTemporary
    <2>3. PICK m : m = [mem[p] EXCEPT !.inode = v]
      OBVIOUS
    <2>4. DOMAIN m = Fields /\ \A f \in Fields \ {"inode"} : m[f] = mem[p][f]
      BY <1>0, <2>1, <2>3
    <2>5. Passes(p, m)
      BY <1>0, <2>1, <2>2, <2>3, <2>4
    <2> QED
      BY <1>0, <1>1, <2>1, <2>4, <2>5
  <1>8. ASSUME Evaluate(p) PROVE Shape(p) /\ Changes(p, {"output"})
    <2>1. Doing(p, {"evaluate"})
      BY <1>8 DEF Evaluate
    <2>2. PICK v :
            \/ Moves(p, [mem[p] EXCEPT !.output = v])
            \/ Fails(p)
      BY <1>8, <2>1, Zenon DEF Evaluate, Checks
    <2>3. PICK m : m = [mem[p] EXCEPT !.output = v]
      OBVIOUS
    <2>4. DOMAIN m = Fields /\ \A f \in Fields \ {"output"} : m[f] = mem[p][f]
      BY <1>0, <2>1, <2>3
    <2>5. Passes(p, m) \/ Drops(p, mem[p])
      BY <1>0, <2>1, <2>2, <2>3, <2>4
    <2> QED
      BY <1>0, <1>1, <2>1, <2>4, <2>5
  <1>9. ASSUME Fingerprint(p) PROVE Shape(p) /\ Changes(p, {"inputs", "data"})
    <2>1. Doing(p, {"cache-again"})
      BY <1>9 DEF Fingerprint
    <2>2. PICK v, w :
            \/ Inserts(p, <<SetAsideStage("bundle", Fallback)>>, mem[p])
            \/ Moves(p, [mem[p] EXCEPT !.inputs = v, !.data = w])
      BY <1>9, <2>1, Zenon DEF Fingerprint, SetsAside
    <2>3. PICK m : m = [mem[p] EXCEPT !.inputs = v, !.data = w]
      OBVIOUS
    <2>4. DOMAIN m = Fields /\ \A f \in Fields \ {"inputs", "data"} : m[f] = mem[p][f]
      BY <1>0, <2>1, <2>3
    <2>5. ASSUME Inserts(p, <<SetAsideStage("bundle", Fallback)>>, mem[p]) PROVE Turns(p, mem[p])
      BY <1>0, <2>1, <2>4, <2>5, TurningWays
    <2>6. ASSUME Moves(p, m) PROVE Passes(p, m)
      BY <1>0, <2>1, <2>4, <2>6
    <2>7. Turns(p, mem[p]) \/ Passes(p, m)
      BY <2>2, <2>3, <2>5, <2>6
    <2> QED
      BY <1>0, <1>1, <2>1, <2>4, <2>7
  <1>10. ASSUME RenameFile(p) PROVE Shape(p) /\ Changes(p, {"wrote"})
    <2>1. Doing(p, {"rename"})
      BY <1>10 DEF RenameFile
    <2>2. PICK v :
            \/ Moves(p, [mem[p] EXCEPT !.wrote = v])
            \/ Fails(p)
      BY <1>10, <2>1, Zenon DEF RenameFile
    <2>3. PICK m : m = [mem[p] EXCEPT !.wrote = v]
      OBVIOUS
    <2>4. DOMAIN m = Fields /\ \A f \in Fields \ {"wrote"} : m[f] = mem[p][f]
      BY <1>0, <2>1, <2>3
    <2>5. Passes(p, m) \/ Drops(p, mem[p])
      BY <1>0, <2>1, <2>2, <2>3, <2>4
    <2> QED
      BY <1>0, <1>1, <2>1, <2>4, <2>5
  <1>11. ASSUME Publish(p) PROVE Shape(p) /\ Changes(p, {"known", "model"})
    <2>1. Doing(p, {"publish"})
      BY <1>11 DEF Publish
    <2>2. PICK v, w :
            \/ Moves(p, [mem[p] EXCEPT !.known = v, !.model = w])
      BY <1>11, <2>1, Zenon DEF Publish
    <2>3. PICK m : m = [mem[p] EXCEPT !.known = v, !.model = w]
      OBVIOUS
    <2>4. DOMAIN m = Fields /\ \A f \in Fields \ {"known", "model"} : m[f] = mem[p][f]
      BY <1>0, <2>1, <2>3
    <2>5. Passes(p, m)
      BY <1>0, <2>1, <2>2, <2>3, <2>4
    <2> QED
      BY <1>0, <1>1, <2>1, <2>4, <2>5
  <1>12. ASSUME ListDevices(p) PROVE Shape(p) /\ Changes(p, {"devices"})
    <2>1. Doing(p, {"devices"})
      BY <1>12 DEF ListDevices
    <2>2. PICK v :
            \/ Moves(p, [mem[p] EXCEPT !.devices = v])
            \/ Fails(p)
      BY <1>12, <2>1, Zenon DEF ListDevices
    <2>3. PICK m : m = [mem[p] EXCEPT !.devices = v]
      OBVIOUS
    <2>4. DOMAIN m = Fields /\ \A f \in Fields \ {"devices"} : m[f] = mem[p][f]
      BY <1>0, <2>1, <2>3
    <2>5. Passes(p, m) \/ Drops(p, mem[p])
      BY <1>0, <2>1, <2>2, <2>3, <2>4
    <2> QED
      BY <1>0, <1>1, <2>1, <2>4, <2>5
  <1>13. ASSUME ResolveProfile(p) PROVE Shape(p) /\ Changes(p, {"chosen"})
    <2>1. Doing(p, {"profile"})
      BY <1>13 DEF ResolveProfile
    <2>2. PICK v :
            \/ Moves(p, [mem[p] EXCEPT !.chosen = v])
            \/ Fails(p)
      BY <1>13, <2>1, Zenon DEF ResolveProfile, Checks
    <2>3. PICK m : m = [mem[p] EXCEPT !.chosen = v]
      OBVIOUS
    <2>4. DOMAIN m = Fields /\ \A f \in Fields \ {"chosen"} : m[f] = mem[p][f]
      BY <1>0, <2>1, <2>3
    <2>5. Passes(p, m) \/ Drops(p, mem[p])
      BY <1>0, <2>1, <2>2, <2>3, <2>4
    <2> QED
      BY <1>0, <1>1, <2>1, <2>4, <2>5
  <1>14. ASSUME Confirm(p) PROVE Shape(p) /\ Changes(p, {"asked"})
    <2>1. Doing(p, {"confirm"})
      BY <1>14 DEF Confirm
    <2>2. PICK v :
            \/ Moves(p, [mem[p] EXCEPT !.asked = v])
            \/ Moves(p, mem[p])
            \/ Fails(p)
      BY <1>14, <2>1, Zenon DEF Confirm
    <2>3. PICK m : m = [mem[p] EXCEPT !.asked = v]
      OBVIOUS
    <2>4. DOMAIN m = Fields /\ \A f \in Fields \ {"asked"} : m[f] = mem[p][f]
      BY <1>0, <2>1, <2>3
    <2>5. Passes(p, m) \/ Passes(p, mem[p]) \/ Drops(p, mem[p])
      BY <1>0, <2>1, <2>2, <2>3, <2>4
    <2> QED
      BY <1>0, <1>1, <2>1, <2>4, <2>5
  <1>15. ASSUME AdbRemove(p) PROVE Shape(p) /\ Changes(p, {"destroyed"})
    <2>1. Doing(p, {"uninstall", "clear"})
      BY <1>15 DEF AdbRemove
    <2>2. PICK v :
            \/ Moves(p, [mem[p] EXCEPT !.destroyed = v])
            \/ FailsWith(p, At(p).exit, [mem[p] EXCEPT !.destroyed = v])
            \/ Fails(p)
      BY <1>15, <2>1, Zenon DEF AdbRemove, Adbs, At
    <2>3. PICK m : m = [mem[p] EXCEPT !.destroyed = v]
      OBVIOUS
    <2>4. DOMAIN m = Fields /\ \A f \in Fields \ {"destroyed"} : m[f] = mem[p][f]
      BY <1>0, <2>1, <2>3
    <2>5. Passes(p, m) \/ Drops(p, m) \/ Drops(p, mem[p])
      BY <1>0, <2>1, <2>2, <2>3, <2>4
    <2> QED
      BY <1>0, <1>1, <2>1, <2>4, <2>5
  <1>16. ASSUME SpawnEmulator(p) PROVE Shape(p) /\ Changes(p, {"destroyed"})
    <2>1. Doing(p, {"spawn"})
      BY <1>16 DEF SpawnEmulator
    <2>2. PICK v :
            \/ Moves(p, [mem[p] EXCEPT !.destroyed = v])
            \/ Fails(p)
      BY <1>16, <2>1, Zenon DEF SpawnEmulator
    <2>3. PICK m : m = [mem[p] EXCEPT !.destroyed = v]
      OBVIOUS
    <2>4. DOMAIN m = Fields /\ \A f \in Fields \ {"destroyed"} : m[f] = mem[p][f]
      BY <1>0, <2>1, <2>3
    <2>5. Passes(p, m) \/ Drops(p, mem[p])
      BY <1>0, <2>1, <2>2, <2>3, <2>4
    <2> QED
      BY <1>0, <1>1, <2>1, <2>4, <2>5
  <1>17. ASSUME AdbLaunch(p) PROVE Shape(p) /\ Changes(p, {"launched"})
    <2>1. Doing(p, {"launch"})
      BY <1>17 DEF AdbLaunch
    <2>2. PICK v :
            \/ Moves(p, [mem[p] EXCEPT !.launched = v])
            \/ FailsWith(p, At(p).exit, [mem[p] EXCEPT !.launched = v])
            \/ Fails(p)
      BY <1>17, <2>1, Zenon DEF AdbLaunch, Adbs, At
    <2>3. PICK m : m = [mem[p] EXCEPT !.launched = v]
      OBVIOUS
    <2>4. DOMAIN m = Fields /\ \A f \in Fields \ {"launched"} : m[f] = mem[p][f]
      BY <1>0, <2>1, <2>3
    <2>5. Passes(p, m) \/ Drops(p, m) \/ Drops(p, mem[p])
      BY <1>0, <2>1, <2>2, <2>3, <2>4
    <2> QED
      BY <1>0, <1>1, <2>1, <2>4, <2>5
  <1>18. ASSUME ReadTrust(p) PROVE Shape(p) /\ Changes(p, {"trusted", "readFor", "previewed"})
    <2>1. Doing(p, {"trust"})
      BY <1>18 DEF ReadTrust
    <2>3. PICK m :
            m = [mem[p] EXCEPT !.trusted = IsTrusted, !.readFor = remote,
                               !.previewed = IF @ = {} THEN {remote} ELSE @]
      OBVIOUS
    <2>2. \/ Inserts(p, <<SetAsideStage("trust", Unnoticed)>>, m)
          \/ Moves(p, m)
          \/ Fails(p)
      BY <1>18, <2>1, <2>3, Zenon DEF ReadTrust
    <2>4. /\ DOMAIN m = Fields
          /\ \A f \in Fields \ {"trusted", "readFor", "previewed"} : m[f] = mem[p][f]
      BY <1>0, <2>1, <2>3
    <2>5. ASSUME Inserts(p, <<SetAsideStage("trust", Unnoticed)>>, m) PROVE Turns(p, m)
      BY <1>0, <2>1, <2>4, <2>5, TurningWays
    <2>6. ASSUME Moves(p, m) PROVE Passes(p, m)
      BY <1>0, <2>1, <2>4, <2>6
    <2>7. Turns(p, m) \/ Passes(p, m) \/ Drops(p, mem[p])
      BY <1>0, <2>1, <2>2, <2>5, <2>6
    <2> QED
      BY <1>0, <1>1, <2>1, <2>4, <2>7
  <1>19. ASSUME Ask(p) PROVE Shape(p) /\ Changes(p, {"decision", "asked"})
    <2>1. Doing(p, {"ask"})
      BY <1>19 DEF Ask
    <2>2. \/ \E v, w : Moves(p, [mem[p] EXCEPT !.decision = v, !.asked = w])
          \/ Moves(p, [mem[p] EXCEPT !.decision = "once"])
      BY <1>19, <2>1, Zenon DEF Ask
    <2>3. PICK m :
            /\ \/ \E v, w : m = [mem[p] EXCEPT !.decision = v, !.asked = w]
               \/ m = [mem[p] EXCEPT !.decision = "once"]
            /\ Moves(p, m)
      BY <2>2, Zenon
    <2>4. /\ DOMAIN m = Fields
          /\ \A f \in Fields \ {"decision", "asked"} : m[f] = mem[p][f]
      BY <1>0, <2>1, <2>3
    <2>5. Passes(p, m)
      BY <1>0, <2>1, <2>2, <2>3, <2>4
    <2> QED
      BY <1>0, <1>1, <2>1, <2>4, <2>5
  <1>20. ASSUME Decide(p) PROVE Shape(p) /\ Changes(p, {"data", "decision", "previewed"})
    <2>1. Doing(p, {"decide"})
      BY <1>20 DEF Decide
    <2>d. PICK d : d = [mem[p] EXCEPT !.decision = "none", !.previewed = {}]
      OBVIOUS
    <2>3. PICK m : m = [d EXCEPT !.data = remote]
      OBVIOUS
    <2>2. \/ Inserts(p, Write("trust", "InvalidUsage"), m)
          \/ Moves(p, d)
          \/ Fails(p)
      BY <1>20, <2>1, <2>d, <2>3, Zenon DEF Decide, Checks
    <2>0. /\ DOMAIN d = Fields
          /\ \A f \in Fields \ {"data", "decision", "previewed"} : d[f] = mem[p][f]
      BY <1>0, <2>1, <2>d
    <2>4. /\ DOMAIN m = Fields
          /\ \A f \in Fields \ {"data", "decision", "previewed"} : m[f] = mem[p][f]
      BY <2>0, <2>3
    <2>5. ASSUME Inserts(p, Write("trust", "InvalidUsage"), m) PROVE Turns(p, m)
      BY <1>0, <2>1, <2>4, <2>5, TurningWays
    <2>6. ASSUME Moves(p, d) PROVE Passes(p, d)
      BY <1>0, <2>0, <2>1, <2>6
    <2>7. ASSUME Fails(p) PROVE Drops(p, mem[p])
      BY <1>0, <2>1, <2>4, <2>7
    <2>8. Turns(p, m) \/ Passes(p, d) \/ Drops(p, mem[p])
      BY <2>2, <2>5, <2>6, <2>7
    <2> QED
      BY <1>0, <1>1, <2>0, <2>1, <2>4, <2>8
  <1>21. ASSUME AddPreset(p) PROVE Shape(p) /\ Changes(p, {"data"})
    <2>1. Doing(p, {"add-preset"})
      BY <1>21 DEF AddPreset
    <2>2. PICK v :
            \/ Inserts(p, Write("filters", At(p).exit), [mem[p] EXCEPT !.data = v])
            \/ Fails(p)
      BY <1>21, <2>1, Zenon DEF AddPreset, At
    <2>3. PICK m : m = [mem[p] EXCEPT !.data = v]
      OBVIOUS
    <2>4. DOMAIN m = Fields /\ \A f \in Fields \ {"data"} : m[f] = mem[p][f]
      BY <1>0, <2>1, <2>3
    <2>5. ASSUME Inserts(p, Write("filters", At(p).exit), m) PROVE Turns(p, m)
      BY <1>0, <2>1, <2>4, <2>5, TurningWays
    <2>6. ASSUME Fails(p) PROVE Drops(p, mem[p])
      BY <1>0, <2>1, <2>4, <2>6
    <2>7. Turns(p, m) \/ Drops(p, mem[p])
      BY <2>2, <2>3, <2>5, <2>6
    <2> QED
      BY <1>0, <1>1, <2>1, <2>4, <2>7
  <1>22. ASSUME RunCommand(p) PROVE Shape(p) /\ Changes(p, {"ran", "ranFor"})
    <2>1. Doing(p, {"run"})
      BY <1>22 DEF RunCommand
    <2>3. PICK m : m = [mem[p] EXCEPT !.ran = TRUE, !.ranFor = mem[p].readFor]
      OBVIOUS
    <2>2. \/ Moves(p, m)
          \/ FailsWith(p, At(p).exit, m)
          \/ FailsWith(p, "InvalidUsage", mem[p])
      BY <1>22, <2>1, <2>3, Zenon DEF RunCommand, At
    <2>4. DOMAIN m = Fields /\ \A f \in Fields \ {"ran", "ranFor"} : m[f] = mem[p][f]
      BY <1>0, <2>1, <2>3
    <2>5. Passes(p, m) \/ Drops(p, m) \/ Drops(p, mem[p])
      BY <1>0, <2>1, <2>2, <2>3, <2>4
    <2> QED
      BY <1>0, <1>1, <2>1, <2>4, <2>5
  <1>23. ASSUME LoadPresets(p) PROVE Shape(p) /\ Changes(p, {"presets"})
    <2>1. Doing(p, {"load-presets"})
      BY <1>23 DEF LoadPresets
    <2>2. PICK v :
            \/ Inserts(p, <<SetAsideStage("filters", Unnoticed)>>, [mem[p] EXCEPT !.presets = v])
            \/ Moves(p, [mem[p] EXCEPT !.presets = v])
      BY <1>23, <2>1, Zenon DEF LoadPresets
    <2>3. PICK m : m = [mem[p] EXCEPT !.presets = v]
      OBVIOUS
    <2>4. DOMAIN m = Fields /\ \A f \in Fields \ {"presets"} : m[f] = mem[p][f]
      BY <1>0, <2>1, <2>3
    <2>5. ASSUME Inserts(p, <<SetAsideStage("filters", Unnoticed)>>, m) PROVE Turns(p, m)
      BY <1>0, <2>1, <2>4, <2>5, TurningWays
    <2>6. ASSUME Moves(p, m) PROVE Passes(p, m)
      BY <1>0, <2>1, <2>4, <2>6
    <2>7. Turns(p, m) \/ Passes(p, m)
      BY <2>2, <2>3, <2>5, <2>6
    <2> QED
      BY <1>0, <1>1, <2>1, <2>4, <2>7
  <1>24. ASSUME StartGradle(p) PROVE Shape(p) /\ mem'[p] = mem[p]
    <2>1. Doing(p, {"assemble", "clean", "test"}) /\ UNCHANGED <<todo, exit, mem>>
      BY <1>24 DEF StartGradle
    <2>2. Turned(p) /\ Stays(p) /\ mem'[p] = mem[p]
      BY <1>0, <2>1, StaysStep
    <2> QED
      BY <1>0, <2>1, <2>2 DEF Shape
  <1>25. ASSUME PollBoot(p) PROVE Shape(p) /\ Changes(p, {"polls", "booted", "timedOut"})
    <2>1. Doing(p, {"boot"})
      BY <1>25 DEF PollBoot
    <2>2. PICK v, w :
            \/ Moves(p, [mem[p] EXCEPT !.polls = v, !.booted = w])
            \/ FailsWith(p, At(p).exit, [[mem[p] EXCEPT !.polls = v,
                   !.booted = w] EXCEPT !.timedOut = TRUE])
            \/ /\ mem' = [mem EXCEPT ![p] = [mem[p] EXCEPT !.polls = v, !.booted = w]]
               /\ UNCHANGED <<todo, exit>>
      BY <1>25, <2>1, Zenon DEF PollBoot, At
    <2>3. PICK m : m = [mem[p] EXCEPT !.polls = v, !.booted = w]
      OBVIOUS
    <2>4. PICK n : n = [m EXCEPT !.timedOut = TRUE]
      OBVIOUS
    <2>5. /\ DOMAIN m = Fields /\ DOMAIN n = Fields
          /\ \A f \in Fields \ {"polls", "booted", "timedOut"} : m[f] = mem[p][f]
                 /\ n[f] = mem[p][f]
      BY <1>0, <2>1, <2>3, <2>4
    <2>6. CASE Moves(p, m)
      BY <1>0, <1>1, <2>1, <2>5, <2>6
    <2>7. CASE FailsWith(p, At(p).exit, n)
      BY <1>0, <1>1, <2>1, <2>5, <2>7
    <2>8. CASE mem' = [mem EXCEPT ![p] = m] /\ UNCHANGED <<todo, exit>>
      <3>1. Turned(p) /\ Stays(p) /\ mem'[p] = m
        BY <1>0, <2>1, <2>5, <2>8, StaysStep
      <3> QED
        BY <1>0, <2>1, <2>5, <3>1 DEF Shape, Changes
    <2> QED
      BY <2>2, <2>3, <2>4, <2>6, <2>7, <2>8
  <1> QED
    BY <1>2, <1>3, <1>4, <1>5, <1>6, <1>7, <1>8, <1>9, <1>10, <1>11, <1>12, <1>13, <1>14, <1>15,
       <1>16, <1>17, <1>18, <1>19, <1>20, <1>21, <1>22, <1>23, <1>24, <1>25

-----------------------------------------------------------------------------
\* The stages that leave the memory as it is.
Idle == {"validate", "discover", "set-aside", "extract", "fill", "verify", "install-bridge",
         "temporary", "sync", "sync-directory", "opened", "sdk", "runtime", "report", "service",
         "compile", "buffer", "recorder", "working-directory", "list-avds", "kill-server",
         "start-server", "invocation", "assemble", "clean", "test", "failures", "verdict",
         "existing", "find", "install", "stop", "not-running", "running", "wipe", "kill", "named",
         "use-preset", "target", "capture"}

\* What a step does by the stage it is taken at.
StepIs(p) ==
  \/ At(p).do \in Idle /\ mem'[p] = mem[p]
  \/ LoadConfig(p) /\ At(p).do = "config" /\ Changes(p, {"config"})
  \/ OpenProject(p) /\ At(p).do = "cache" /\ Changes(p, {"known", "model"})
  \/ OpenTemporary(p) /\ At(p).do = "open" /\ Changes(p, {"inode"})
  \/ Evaluate(p) /\ At(p).do = "evaluate" /\ Changes(p, {"output"})
  \/ Fingerprint(p) /\ At(p).do = "cache-again" /\ Changes(p, {"inputs", "data"})
  \/ RenameFile(p) /\ At(p).do = "rename" /\ Changes(p, {"wrote"})
  \/ Publish(p) /\ At(p).do = "publish" /\ Changes(p, {"known", "model"})
  \/ ListDevices(p) /\ At(p).do = "devices" /\ Changes(p, {"devices"})
  \/ ResolveProfile(p) /\ At(p).do = "profile" /\ Changes(p, {"chosen"})
  \/ Confirm(p) /\ At(p).do = "confirm" /\ Changes(p, {"asked"})
  \/ AdbRemove(p) /\ At(p).do \in {"uninstall", "clear"} /\ Changes(p, {"destroyed"})
  \/ SpawnEmulator(p) /\ At(p).do = "spawn" /\ Changes(p, {"destroyed"})
  \/ AdbLaunch(p) /\ At(p).do = "launch" /\ Changes(p, {"launched"})
  \/ PollBoot(p) /\ At(p).do = "boot" /\ Changes(p, {"polls", "booted", "timedOut"})
  \/ ReadTrust(p) /\ At(p).do = "trust" /\ Changes(p, {"trusted", "readFor", "previewed"})
  \/ Ask(p) /\ At(p).do = "ask" /\ Changes(p, {"decision", "asked"})
  \/ Decide(p) /\ At(p).do = "decide" /\ Changes(p, {"data", "decision", "previewed"})
  \/ AddPreset(p) /\ At(p).do = "add-preset" /\ Changes(p, {"data"})
  \/ RunCommand(p) /\ At(p).do = "run" /\ Changes(p, {"ran", "ranFor"})
  \/ LoadPresets(p) /\ At(p).do = "load-presets" /\ Changes(p, {"presets"})

\* Every step of a process has the shape of one, and changes what its stage may change.
LEMMA StepTable ==
  ASSUME PlanInv, NEW p \in Processes, Steps(p)
  PROVE  Shape(p) /\ StepIs(p)
  <1>1. CASE \/ Try(p) \/ Validate(p) \/ Discover(p) \/ QuarantineFile(p) \/ FillTemporary(p)
             \/ VerifyTemporary(p) \/ InstallBridge(p) \/ SyncDirectory(p) \/ ProjectOpened(p)
             \/ ResolveInvocation(p) \/ GradleFails(p) \/ FindFailures(p) \/ Verdict(p)
             \/ AdbInstall(p) \/ AdbStop(p) \/ CheckEmulator(p) \/ KillEmulator(p) \/ FindCommand(p)
             \/ ResolveTarget(p) \/ Capture(p)
    <2>1. Shape(p) /\ mem'[p] = mem[p]
      BY <1>1, PlainSteps
    <2>2. At(p).do \in Idle
      BY <1>1 DEF Try, Validate, Discover, QuarantineFile, FillTemporary, VerifyTemporary,
                  InstallBridge, SyncDirectory, ProjectOpened, ResolveInvocation, GradleFails,
                  FindFailures, Verdict, AdbInstall, AdbStop, CheckEmulator, KillEmulator,
                      FindCommand,
                  ResolveTarget, Capture, Local, Doing, At, Idle
    <2> QED
      BY <2>1, <2>2 DEF StepIs
  <1>2. CASE Extract(p) \/ FindArtifacts(p) \/ UsePreset(p) \/ StartGradle(p)
    <2>1. At(p).do \in Idle
      BY <1>2 DEF Extract, FindArtifacts, UsePreset, StartGradle, Doing, At, Idle
    <2> QED
      BY <1>2, <2>1, OtherSteps DEF StepIs
  <1>3. CASE LoadConfig(p)
    <2>1. At(p).do = "config"
      BY <1>3 DEF LoadConfig, Doing, At
    <2> QED
      BY <1>3, <2>1, OtherSteps DEF StepIs
  <1>4. CASE OpenProject(p)
    <2>1. At(p).do = "cache"
      BY <1>4 DEF OpenProject, Doing, At
    <2> QED
      BY <1>4, <2>1, OtherSteps DEF StepIs
  <1>5. CASE OpenTemporary(p)
    <2>1. At(p).do = "open"
      BY <1>5 DEF OpenTemporary, Doing, At
    <2> QED
      BY <1>5, <2>1, OtherSteps DEF StepIs
  <1>6. CASE Evaluate(p)
    <2>1. At(p).do = "evaluate"
      BY <1>6 DEF Evaluate, Doing, At
    <2> QED
      BY <1>6, <2>1, OtherSteps DEF StepIs
  <1>7. CASE Fingerprint(p)
    <2>1. At(p).do = "cache-again"
      BY <1>7 DEF Fingerprint, Doing, At
    <2> QED
      BY <1>7, <2>1, OtherSteps DEF StepIs
  <1>8. CASE RenameFile(p)
    <2>1. At(p).do = "rename"
      BY <1>8 DEF RenameFile, Doing, At
    <2> QED
      BY <1>8, <2>1, OtherSteps DEF StepIs
  <1>9. CASE Publish(p)
    <2>1. At(p).do = "publish"
      BY <1>9 DEF Publish, Doing, At
    <2> QED
      BY <1>9, <2>1, OtherSteps DEF StepIs
  <1>10. CASE ListDevices(p)
    <2>1. At(p).do = "devices"
      BY <1>10 DEF ListDevices, Doing, At
    <2> QED
      BY <1>10, <2>1, OtherSteps DEF StepIs
  <1>11. CASE ResolveProfile(p)
    <2>1. At(p).do = "profile"
      BY <1>11 DEF ResolveProfile, Doing, At
    <2> QED
      BY <1>11, <2>1, OtherSteps DEF StepIs
  <1>12. CASE Confirm(p)
    <2>1. At(p).do = "confirm"
      BY <1>12 DEF Confirm, Doing, At
    <2> QED
      BY <1>12, <2>1, OtherSteps DEF StepIs
  <1>13. CASE AdbRemove(p)
    <2>1. At(p).do \in {"uninstall", "clear"}
      BY <1>13 DEF AdbRemove, Doing, At
    <2> QED
      BY <1>13, <2>1, OtherSteps DEF StepIs
  <1>14. CASE SpawnEmulator(p)
    <2>1. At(p).do = "spawn"
      BY <1>14 DEF SpawnEmulator, Doing, At
    <2> QED
      BY <1>14, <2>1, OtherSteps DEF StepIs
  <1>15. CASE AdbLaunch(p)
    <2>1. At(p).do = "launch"
      BY <1>15 DEF AdbLaunch, Doing, At
    <2> QED
      BY <1>15, <2>1, OtherSteps DEF StepIs
  <1>16. CASE PollBoot(p)
    <2>1. At(p).do = "boot"
      BY <1>16 DEF PollBoot, Doing, At
    <2> QED
      BY <1>16, <2>1, OtherSteps DEF StepIs
  <1>17. CASE ReadTrust(p)
    <2>1. At(p).do = "trust"
      BY <1>17 DEF ReadTrust, Doing, At
    <2> QED
      BY <1>17, <2>1, OtherSteps DEF StepIs
  <1>18. CASE Ask(p)
    <2>1. At(p).do = "ask"
      BY <1>18 DEF Ask, Doing, At
    <2> QED
      BY <1>18, <2>1, OtherSteps DEF StepIs
  <1>19. CASE Decide(p)
    <2>1. At(p).do = "decide"
      BY <1>19 DEF Decide, Doing, At
    <2> QED
      BY <1>19, <2>1, OtherSteps DEF StepIs
  <1>20. CASE AddPreset(p)
    <2>1. At(p).do = "add-preset"
      BY <1>20 DEF AddPreset, Doing, At
    <2> QED
      BY <1>20, <2>1, OtherSteps DEF StepIs
  <1>21. CASE RunCommand(p)
    <2>1. At(p).do = "run"
      BY <1>21 DEF RunCommand, Doing, At
    <2> QED
      BY <1>21, <2>1, OtherSteps DEF StepIs
  <1>22. CASE LoadPresets(p)
    <2>1. At(p).do = "load-presets"
      BY <1>22 DEF LoadPresets, Doing, At
    <2> QED
      BY <1>22, <2>1, OtherSteps DEF StepIs
  <1> QED
    BY <1>1, <1>2, <1>3, <1>4, <1>5, <1>6, <1>7, <1>8, <1>9, <1>10, <1>11, <1>12, <1>13,
       <1>14, <1>15, <1>16, <1>17, <1>18, <1>19, <1>20, <1>21, <1>22 DEF Steps

\* What a step changes around the processes, and which one it is at some stages.
Around(p) ==
  /\ UNCHANGED <<tree, remote, budget>>
  /\ builder' = builder \/ StartGradle(p)
  /\ installed' = installed \/ AdbInstall(p) \/ AdbRemove(p)
  /\ avd' = avd \/ SpawnEmulator(p) \/ KillEmulator(p)
  /\ bridge' = bridge \/ OpenTemporary(p) \/ FillTemporary(p) \/ InstallBridge(p)
  /\ consents' = consents \/ Decide(p)
  /\ UNCHANGED storageVars \/ QuarantineFile(p) \/ RenameFile(p) \/ SyncDirectory(p)
  /\ At(p).do \in {"assemble", "clean", "test"} => StartGradle(p) \/ GradleFails(p)
  /\ At(p).do = "wipe" => CheckEmulator(p)
  /\ At(p).do = "find" => FindArtifacts(p)
  /\ At(p).do = "install" => AdbInstall(p)
  /\ At(p).do = "verdict" => Verdict(p)

\* What every step changes around the processes.
LEMMA AroundSteps ==
  ASSUME NEW p \in Processes, Steps(p)
  PROVE  Around(p)
  <1>1. CASE Try(p)
    BY <1>1 DEF Try, Around, Doing, At, worldVars, Local
  <1>2. CASE Validate(p)
    BY <1>2 DEF Validate, Around, Doing, At, worldVars
  <1>3. CASE Discover(p)
    BY <1>3 DEF Discover, Around, Doing, At, worldVars
  <1>4. CASE LoadConfig(p)
    BY <1>4 DEF LoadConfig, Around, Doing, At, worldVars
  <1>5. CASE OpenProject(p)
    BY <1>5 DEF OpenProject, Around, Doing, At, worldVars
  <1>6. CASE QuarantineFile(p)
    BY <1>6 DEF QuarantineFile, Around, Doing, At, worldVars
  <1>7. CASE Extract(p)
    BY <1>7 DEF Extract, Around, Doing, At, worldVars
  <1>8. CASE OpenTemporary(p)
    BY <1>8 DEF OpenTemporary, Around, Doing, At, worldVars
  <1>9. CASE FillTemporary(p)
    BY <1>9 DEF FillTemporary, Around, Doing, At, worldVars
  <1>10. CASE VerifyTemporary(p)
    BY <1>10 DEF VerifyTemporary, Around, Doing, At, worldVars
  <1>11. CASE InstallBridge(p)
    BY <1>11 DEF InstallBridge, Around, Doing, At, worldVars
  <1>12. CASE Evaluate(p)
    BY <1>12 DEF Evaluate, Around, Doing, At, worldVars
  <1>13. CASE Fingerprint(p)
    BY <1>13 DEF Fingerprint, Around, Doing, At, worldVars
  <1>14. CASE RenameFile(p)
    BY <1>14 DEF RenameFile, Around, Doing, At, worldVars
  <1>15. CASE SyncDirectory(p)
    BY <1>15 DEF SyncDirectory, Around, Doing, At, worldVars
  <1>16. CASE Publish(p)
    BY <1>16 DEF Publish, Around, Doing, At, worldVars
  <1>17. CASE ProjectOpened(p)
    BY <1>17 DEF ProjectOpened, Around, Doing, At, worldVars
  <1>18. CASE ListDevices(p)
    BY <1>18 DEF ListDevices, Around, Doing, At, worldVars
  <1>19. CASE ResolveProfile(p)
    BY <1>19 DEF ResolveProfile, Around, Doing, At, worldVars
  <1>20. CASE Confirm(p)
    BY <1>20 DEF Confirm, Around, Doing, At, worldVars
  <1>21. CASE ResolveInvocation(p)
    BY <1>21 DEF ResolveInvocation, Around, Doing, At, worldVars
  <1>22. CASE StartGradle(p)
    BY <1>22 DEF StartGradle, Around, Doing, At, worldVars
  <1>23. CASE GradleFails(p)
    BY <1>23 DEF GradleFails, Around, Doing, At, worldVars
  <1>24. CASE FindFailures(p)
    BY <1>24 DEF FindFailures, Around, Doing, At, worldVars
  <1>25. CASE Verdict(p)
    BY <1>25 DEF Verdict, Around, Doing, At, worldVars
  <1>26. CASE FindArtifacts(p)
    BY <1>26 DEF FindArtifacts, Around, Doing, At, worldVars
  <1>27. CASE AdbInstall(p)
    BY <1>27 DEF AdbInstall, Around, Doing, At, worldVars
  <1>28. CASE AdbRemove(p)
    BY <1>28 DEF AdbRemove, Around, Doing, At, worldVars
  <1>29. CASE AdbLaunch(p)
    BY <1>29 DEF AdbLaunch, Around, Doing, At, worldVars
  <1>30. CASE AdbStop(p)
    BY <1>30 DEF AdbStop, Around, Doing, At, worldVars
  <1>31. CASE CheckEmulator(p)
    BY <1>31 DEF CheckEmulator, Around, Doing, At, worldVars
  <1>32. CASE SpawnEmulator(p)
    BY <1>32 DEF SpawnEmulator, Around, Doing, At, worldVars
  <1>33. CASE PollBoot(p)
    BY <1>33 DEF PollBoot, Around, Doing, At, worldVars
  <1>34. CASE KillEmulator(p)
    BY <1>34 DEF KillEmulator, Around, Doing, At, worldVars
  <1>35. CASE FindCommand(p)
    BY <1>35 DEF FindCommand, Around, Doing, At, worldVars
  <1>36. CASE ReadTrust(p)
    BY <1>36 DEF ReadTrust, Around, Doing, At, worldVars
  <1>37. CASE Ask(p)
    BY <1>37 DEF Ask, Around, Doing, At, worldVars
  <1>38. CASE Decide(p)
    BY <1>38 DEF Decide, Around, Doing, At, worldVars
  <1>39. CASE RunCommand(p)
    BY <1>39 DEF RunCommand, Around, Doing, At, worldVars
  <1>40. CASE UsePreset(p)
    BY <1>40 DEF UsePreset, Around, Doing, At, worldVars
  <1>41. CASE LoadPresets(p)
    BY <1>41 DEF LoadPresets, Around, Doing, At, worldVars
  <1>42. CASE AddPreset(p)
    BY <1>42 DEF AddPreset, Around, Doing, At, worldVars
  <1>43. CASE ResolveTarget(p)
    BY <1>43 DEF ResolveTarget, Around, Doing, At, worldVars
  <1>44. CASE Capture(p)
    BY <1>44 DEF Capture, Around, Doing, At, worldVars
  <1> QED
    BY <1>1, <1>2, <1>3, <1>4, <1>5, <1>6, <1>7, <1>8, <1>9, <1>10, <1>11, <1>12, <1>13,
       <1>14, <1>15, <1>16, <1>17, <1>18, <1>19, <1>20, <1>21, <1>22, <1>23, <1>24, <1>25,
       <1>26, <1>27, <1>28, <1>29, <1>30, <1>31, <1>32, <1>33, <1>34, <1>35, <1>36, <1>37,
       <1>38, <1>39, <1>40, <1>41, <1>42, <1>43, <1>44 DEF Steps

\* Nothing left to do is a plan.
LEMMA EmptyPlan == ASSUME NEW r PROVE Plan(r, <<>>)
  <1>1. IsSeq(<<>>) /\ Len(<<>>) = 0
    BY EmptySeq DEF IsSeq
  <1> QED
    BY <1>1 DEF Plan, Chained, Opens

-----------------------------------------------------------------------------
\* The end of a build moves the process that waits for it, if it still does.
Waited(p, build) ==
  /\ Shape(p) /\ Changes(p, {"passed"}) /\ At(p).do = build.does
  /\ GoesOn(p) /\ build.does = "assemble" => tree' = [tree EXCEPT !.artifact = build.sources]

Left(p) == exit[p] # "running" /\ UNCHANGED <<todo, exit, mem>>

\* The end of a build, for the process it was for and for all others.
LEMMA GradleSteps ==
  ASSUME PlanInv, GradleEnds
  PROVE  /\ builder' = {} /\ request' = request
         /\ \E build \in builder : Left(build.by) \/ Waited(build.by, build)
  <1>1. PICK build \in builder, well \in BOOLEAN, failing \in BOOLEAN :
          /\ builder' = NoBuild /\ request' = request
          /\ tree' = CASE build.does = "test" /\ request[build.by].kind = "local"
                                                   -> [tree EXCEPT !.failing = failing]
                       [] build.does = "clean" /\ well  -> [tree EXCEPT !.artifact = 0]
                       [] build.does = "assemble"
                           /\ well -> [tree EXCEPT !.artifact = build.sources]
                       [] OTHER                         -> tree
          /\ CASE exit[build.by] # "running" -> UNCHANGED <<todo, exit, mem>>
               [] exit[build.by] = "running" /\ (well \/ build.does = "test") ->
                    Moves(build.by, [mem[build.by] EXCEPT !.passed = @ /\ well])
               [] OTHER -> Fails(build.by)
    BY ZenonT(60) DEF GradleEnds
  <1>p. PICK p : p = build.by
    OBVIOUS
  <1>m. PICK m : m = [mem[p] EXCEPT !.passed = @ /\ well]
    OBVIOUS
  <1>2. p \in Processes /\ (exit[p] = "running" => At(p).do = build.does)
    BY <1>p DEF PlanInv, Building
  <1>3. CASE exit[p] # "running"
    <2>1. UNCHANGED <<todo, exit, mem>>
      BY <1>1, <1>3, <1>p
    <2> QED
      BY <1>1, <1>3, <1>p, <2>1 DEF NoBuild, Left
  <1>4. CASE exit[p] = "running"
    <2>1. /\ DOMAIN mem[p] = Fields /\ At(p).do # "set-aside"
          /\ \A n : DOMAIN n = Fields /\ Moves(p, n) => Passes(p, n)
          /\ Fails(p) => Drops(p, mem[p])
      <3>1. At(p).do # "set-aside"
        BY <1>2, <1>4, <1>p DEF PlanInv, Building
      <3> QED
        BY <1>1, <1>2, <1>4, <3>1, Ways
    <2>2. CASE well \/ build.does = "test"
      <3>1. Moves(p, m)
        BY <1>1, <1>4, <1>p, <1>m, <2>2
      <3>2. DOMAIN m = Fields /\ \A f \in Fields \ {"passed"} : m[f] = mem[p][f]
        BY <1>m, <2>1
      <3>3. Passes(p, m)
        BY <2>1, <3>1, <3>2
      <3>4. Shape(p) /\ Changes(p, {"passed"})
        BY <2>1, <3>2, <3>3 DEF Passes, Shape, Changes
      <3>5. build.does = "assemble" => tree' = [tree EXCEPT !.artifact = build.sources]
        BY <1>1, <2>2
      <3> QED
        BY <1>1, <1>2, <1>4, <1>p, <3>4, <3>5 DEF Waited, NoBuild
    <2>3. CASE ~ (well \/ build.does = "test")
      <3>1. Fails(p)
        BY <1>1, <1>4, <1>p, <2>3
      <3>2. Drops(p, mem[p])
        BY <2>1, <3>1
      <3>3. Shape(p) /\ Changes(p, {"passed"})
        BY <3>2 DEF Drops, Shape, Changes
      <3>4. ~ GoesOn(p)
        <4>1. Possible(request[p], At(p)) /\ todo[p] # <<>>
          BY <1>1, <1>2, <1>4, Ways
        <4>2. At(p).do \notin Early
          BY <1>2, <1>4, <1>p DEF PlanInv, Building, Early, Writing
        <4> QED
          BY <3>2, <4>2 DEF Drops, FallsOut, GoesOn
      <3> QED
        BY <1>1, <1>2, <1>4, <1>p, <3>3, <3>4 DEF Waited, NoBuild
    <2> QED
      BY <2>2, <2>3
  <1> QED
    BY <1>3, <1>4

-----------------------------------------------------------------------------
(***************************************************************************)
(* Every step, as one process sees it, whoever takes it.                   *)
(***************************************************************************)
Rests(q) == todo'[q] = todo[q] /\ exit'[q] = exit[q] /\ mem'[q] = mem[q]

Dies(q) == todo'[q] = <<>> /\ exit'[q] \in {exit[q], "Killed"} /\ exit'[q] # "running"
             /\ mem'[q] = mem[q]

Acts(q) == Steps(q) /\ Shape(q) /\ StepIs(q) /\ Around(q)

Built(q) == GradleEnds /\ \E build \in builder : build.by = q /\ Waited(q, build)

Seen == request' = request /\ \A q \in Processes : Rests(q) \/ Dies(q) \/ Acts(q) \/ Built(q)

\* Every step of the system keeps the plans, and each process rests, ends, takes a step
\* or has its build finished.
LEMMA NextSteps ==
  ASSUME PlanInv, [Next]_vars
  PROVE  /\ Seen /\ PlanInv'
         /\ remote' = remote \/ RemoteChanges
         /\ \/ \E p \in Processes : Steps(p) /\ Around(p)
            \/ GradleEnds
            \/ LosePower
            \/ UNCHANGED <<mem, tree, installed, consents, storageVars>>
                   /\ remote' \in {remote, remote + 1}
                 /\ builder' = builder
            \/ SpoilFile
            \/ Edit
  <1>1. /\ DOMAIN todo = Processes /\ DOMAIN exit = Processes /\ DOMAIN mem = Processes
        /\ \A p \in Processes : PlannedAs(request[p], todo[p], exit[p], mem[p])
        /\ \A one, other \in builder : one = other
        /\ \A build \in builder : Building(build)
    BY DEF PlanInv, Planned
  <1>a. ASSUME request' = request, builder' = builder, UNCHANGED <<todo, exit, mem>>
        PROVE  Seen /\ PlanInv'
    BY <1>a DEF Seen, Rests, PlanInv, Planned, PlannedAs, Building, At
  <1>b. ASSUME NEW p \in Processes, Turned(p)
        PROVE  /\ DOMAIN todo' = Processes /\ DOMAIN exit' = Processes /\ DOMAIN mem' = Processes
               /\ request' = request /\ \A q \in Processes \ {p} : Rests(q)
               /\ \A q \in Processes : PlannedAs(request'[q], todo'[q], exit'[q], mem'[q])
    BY <1>1, <1>b DEF Turned, Rests
  <1>c. ASSUME DOMAIN todo' = Processes /\ DOMAIN exit' = Processes /\ DOMAIN mem' = Processes,
               \A q \in Processes : PlannedAs(request'[q], todo'[q], exit'[q], mem'[q]),
               \A one, other \in builder' : one = other,
               \A build \in builder' : /\ build.by \in Processes
                                       /\ build.does \in {"assemble", "clean", "test"}
                                       /\ exit'[build.by] = "running" =>
                                            Head(todo'[build.by]).do = build.does
        PROVE  PlanInv'
    BY <1>c DEF PlanInv, Planned, Building, At
  <1>2. ASSUME NEW p \in Processes, Steps(p) PROVE Seen /\ PlanInv' /\ Around(p)
    <2>1. Shape(p) /\ StepIs(p)
      BY <1>2, StepTable
    <2>2. Around(p)
      BY <1>2, AroundSteps
    <2>3. Turned(p)
      BY <2>1 DEF Shape
    <2>4. Seen
      BY <1>2, <1>b, <2>1, <2>2, <2>3 DEF Seen, Acts
    <2>5. CASE StartGradle(p)
      <3>1. /\ UNCHANGED <<todo, exit>> /\ exit[p] = "running"
            /\ At(p).do \in {"assemble", "clean", "test"}
            /\ builder' = {[by |-> p, does |-> At(p).do, sources |-> tree.sources]}
        BY <2>5 DEF StartGradle, Doing, At
      <3> QED
        BY <1>b, <1>c, <2>2, <2>3, <2>4, <3>1 DEF At
    <2>6. CASE ~ StartGradle(p)
      <3>1. builder' = builder
        BY <2>2, <2>6 DEF Around
      <3>2. ASSUME NEW build \in builder, exit'[build.by] = "running"
            PROVE  Head(todo'[build.by]).do = build.does
        <4>1. CASE build.by = p
          <5>1. exit[p] = "running"
            BY <2>3 DEF Turned
          <5>2. At(p).do \in {"assemble", "clean", "test"}
            BY <1>1, <4>1, <5>1 DEF Building
          <5>3. GradleFails(p)
            BY <2>2, <2>6, <5>2 DEF Around
          <5> QED
            BY <4>1, <5>3 DEF GradleFails
        <4>2. CASE build.by # p
          BY <1>1, <1>b, <2>3, <3>2, <4>2 DEF Building, Rests, At
        <4> QED
          BY <4>1, <4>2
      <3> QED
        BY <1>1, <1>b, <1>c, <2>2, <2>3, <2>4, <3>1, <3>2 DEF Building
    <2> QED
      BY <2>2, <2>4, <2>5, <2>6
  <1>3. ASSUME NEW p \in Processes, Kill(p)
        PROVE  /\ Seen /\ PlanInv' /\ builder' = builder /\ remote' = remote
               /\ UNCHANGED <<mem, tree, installed, consents, storageVars>>
    <2>1. /\ exit[p] = "running" /\ request' = request /\ builder' = builder /\ remote' = remote
          /\ UNCHANGED <<mem, tree, installed, consents, storageVars>>
          /\ exit' = [exit EXCEPT ![p] = "Killed"] /\ todo' = [todo EXCEPT ![p] = <<>>]
      BY <1>3 DEF Kill
    <2>2. /\ exit'[p] = "Killed" /\ todo'[p] = <<>>
          /\ DOMAIN todo' = Processes /\ DOMAIN exit' = Processes
          /\ \A q \in Processes \ {p} : exit'[q] = exit[q] /\ todo'[q] = todo[q]
      BY <1>1, <2>1
    <2>3. Seen
      BY <2>1, <2>2 DEF Seen, Rests, Dies
    <2>4. PlannedAs(request[p], <<>>, "Killed", mem[p])
      <3>1. DOMAIN mem[p] = Fields
        BY <1>1 DEF PlannedAs
      <3> QED
        BY <3>1, EmptyPlan DEF PlannedAs
    <2>5. \A q \in Processes : PlannedAs(request'[q], todo'[q], exit'[q], mem'[q])
      BY <1>1, <2>1, <2>2, <2>4
    <2> QED
      BY <1>1, <1>c, <2>1, <2>2, <2>3, <2>5 DEF Building, At
  <1>4. ASSUME LosePower PROVE Seen /\ PlanInv'
    <2>1. /\ request' = request /\ builder' = {} /\ mem' = mem
          /\ exit' = [p \in Processes |-> IF exit[p] = "running" THEN "Killed" ELSE exit[p]]
          /\ todo' = [p \in Processes |-> <<>>]
      BY <1>4 DEF LosePower, NoBuild
    <2>2. \A q \in Processes : Dies(q)
      BY <2>1 DEF Dies
    <2>3. ASSUME NEW q \in Processes PROVE PlannedAs(request'[q], todo'[q], exit'[q], mem'[q])
      <3>1. DOMAIN mem[q] = Fields
        BY <1>1 DEF PlannedAs
      <3> QED
        BY <2>1, <3>1, EmptyPlan DEF PlannedAs
    <2> QED
      BY <1>1, <1>c, <2>1, <2>2, <2>3 DEF Seen
  <1>5. ASSUME GradleEnds PROVE Seen /\ PlanInv'
    <2>1. /\ builder' = {} /\ request' = request
          /\ \E build \in builder : Left(build.by) \/ Waited(build.by, build)
      BY <1>5, GradleSteps
    <2>2. PICK build \in builder : Left(build.by) \/ Waited(build.by, build)
      BY <2>1
    <2>3. CASE Left(build.by)
      BY <1>1, <1>c, <2>1, <2>3 DEF Left, Seen, Rests
    <2>4. CASE Waited(build.by, build)
      <3>1. build.by \in Processes /\ Turned(build.by)
        BY <1>1, <2>4 DEF Waited, Shape, Building
      <3> QED
        BY <1>5, <1>b, <1>c, <2>1, <2>4, <3>1 DEF Seen, Built
    <2> QED
      BY <2>2, <2>3, <2>4
  <1>6. ASSUME SpoilFile PROVE Seen /\ PlanInv'
    BY <1>6, <1>a DEF SpoilFile, processVars
  <1>7. ASSUME Edit PROVE Seen /\ PlanInv'
    BY <1>7, <1>a DEF Edit, processVars
  <1>8. ASSUME RemoteChanges \/ EmulatorBoots \/ UNCHANGED vars
        PROVE  /\ Seen /\ PlanInv' /\ builder' = builder /\ remote' \in {remote, remote + 1}
               /\ UNCHANGED <<mem, tree, installed, consents, storageVars>>
    BY <1>8, <1>a DEF RemoteChanges, EmulatorBoots, vars, processVars, worldVars
  <1>9. remote' = remote \/ RemoteChanges
    <2>1. LosePower \/ Edit \/ SpoilFile \/ EmulatorBoots \/ UNCHANGED vars => remote' = remote
      BY DEF LosePower, Edit, SpoilFile, EmulatorBoots, vars, worldVars
    <2>2. GradleEnds => remote' = remote
      BY Zenon DEF GradleEnds
    <2> QED
      BY <1>2, <1>3, <2>1, <2>2 DEF Next, Around
  <1> QED
    BY <1>2, <1>3, <1>4, <1>5, <1>6, <1>7, <1>8, <1>9 DEF Next

\* The stages of every command, and of every process at any time, form a plan: the
\* first half of what the other invariants rest on.
THEOREM PlansAreKept == Spec => []PlanInv
  <1>1. Init => PlanInv
    <2> SUFFICES ASSUME Init PROVE PlanInv
      OBVIOUS
    <2>1. PICK session \in Sessions :
            /\ request = session.request
            /\ todo = [p \in Processes |-> Stages(request[p])]
            /\ exit = [p \in Processes |-> "running"]
            /\ mem = [p \in Processes |-> InitialMem]
            /\ builder = NoBuild
      BY DEF Init
    <2>2. DOMAIN InitialMem = Fields
      BY DEF InitialMem, Fields
    <2>3. ASSUME NEW p \in Processes PROVE Planned(p)
      <3>1. request[p].command \in Subcommands
        BY <2>1, InvocationsAssumption
      <3>2. Starts(request[p], Stages(request[p]))
        BY <3>1, StagesArePlans
      <3>3. todo[p] = Stages(request[p]) /\ exit[p] = "running" /\ mem[p] = InitialMem
        BY <2>1
      <3> QED
        BY <2>2, <3>2, <3>3 DEF Planned, PlannedAs, Starts
    <2> QED
      BY <2>1, <2>3 DEF PlanInv, NoBuild
  <1>2. PlanInv /\ [Next]_vars => PlanInv'
    BY NextSteps
  <1> QED
    BY <1>1, <1>2, PTL DEF Spec

-----------------------------------------------------------------------------
(***************************************************************************)
(* The remote that a user is asked about.                                  *)
(***************************************************************************)
Writes(p, does) == Goes(p) /\ At(p).do \in does

\* From its preview to its decision a process knows the remote the project has, when no
\* remote is changed meanwhile; nobody answers before there is a preview.
Previewed(p) ==
  /\ exit[p] = "running" /\ mem[p].previewed # {} /\ ~RemoteAnyTime =>
       mem[p].previewed = {remote} /\ mem[p].readFor = remote
  /\ Writes(p, {"ask"}) => mem[p].previewed # {}
  /\ Writes(p, {"set-aside"}) /\ At(p).file = "trust" => mem[p].previewed # {}
  /\ exit[p] = "running" /\ mem[p].decision # "none" => mem[p].previewed # {}

PreviewInv == \A p \in Processes : Previewed(p)

\* Where a process comes from that asks its user.
LEMMA AskArrivals ==
  ASSUME NEW p \in Processes, Shape(p), NEW b, todo'[p] # <<>>, Head(todo'[p]) = b
  PROVE  /\ b.do = "ask" => At(p).do = "trust" \/ (At(p).do = "set-aside" /\ At(p).file = "trust")
         /\ b.do = "set-aside" /\ b.file = "trust" => At(p).do = "trust"
  <1>1. CASE GoesOn(p) /\ (At(p).do = "set-aside" => At(p).exit = Unnoticed)
    BY <1>1 DEF GoesOn, Precedes
  <1>2. CASE FallsOut(p)
    BY <1>2 DEF FallsOut
  <1>3. CASE Stays(p) /\ At(p).do \in {"assemble", "clean", "test", "boot"}
    BY <1>3 DEF Stays, At
  <1>4. CASE \E a : TurnsTo(p, a) /\ TurnedAs(p, a)
    BY <1>4 DEF TurnsTo, TurnedAs
  <1> QED
    BY <1>1, <1>2, <1>3, <1>4 DEF Shape

\* A reading of the trust is for the remote of that moment, the first one is the preview.
LEMMA ReadTrustReads ==
  ASSUME PlanInv, NEW p \in Processes, ReadTrust(p)
  PROVE  \/ exit'[p] # "running" /\ todo'[p] = <<>> /\ mem'[p] = mem[p]
         \/ /\ mem'[p].trusted = IsTrusted /\ mem'[p].readFor = remote
            /\ mem'[p].previewed = IF mem[p].previewed = {} THEN {remote} ELSE mem[p].previewed
  <1>1. Doing(p, {"trust"})
    BY DEF ReadTrust
  <1>2. /\ DOMAIN mem[p] = Fields /\ At(p).do = "trust"
        /\ exit[p] = "running" /\ request' = request
    BY <1>1, WaysAt
  <1>m. PICK m :
          m = [mem[p] EXCEPT !.trusted = IsTrusted, !.readFor = remote,
                             !.previewed = IF @ = {} THEN {remote} ELSE @]
    OBVIOUS
  <1>3. \/ Inserts(p, <<SetAsideStage("trust", Unnoticed)>>, m)
        \/ Moves(p, m)
        \/ Fails(p)
    BY <1>m, Zenon DEF ReadTrust
  <1>4. /\ DOMAIN m = Fields /\ m.trusted = IsTrusted /\ m.readFor = remote
        /\ m.previewed = IF mem[p].previewed = {} THEN {remote} ELSE mem[p].previewed
    BY <1>2, <1>m DEF Fields
  <1>5. Inserts(p, <<SetAsideStage("trust", Unnoticed)>>, m) \/ Moves(p, m) => mem'[p] = m
    BY <1>1, <1>2, <1>4, TurningWays, WaysAt DEF Turns, Passes
  <1>6. Fails(p) => exit'[p] # "running" /\ todo'[p] = <<>> /\ mem'[p] = mem[p]
    BY <1>1, <1>2, WaysAt DEF Drops, FallsOut, Early, Writing
  <1> QED
    BY <1>3, <1>4, <1>5, <1>6

\* The answer is used up by the decision, or the command fails there.
LEMMA DecideUsesUp ==
  ASSUME PlanInv, NEW p \in Processes, Decide(p)
  PROVE  \/ exit'[p] # "running" /\ todo'[p] = <<>> /\ mem'[p] = mem[p]
         \/ mem'[p].decision = "none" /\ mem'[p].previewed = {}
  <1>1. Doing(p, {"decide"})
    BY DEF Decide
  <1>2. /\ DOMAIN mem[p] = Fields /\ At(p).do = "decide"
        /\ exit[p] = "running" /\ request' = request
    BY <1>1, WaysAt
  <1>d. PICK d : d = [mem[p] EXCEPT !.decision = "none", !.previewed = {}]
    OBVIOUS
  <1>m. PICK m : m = [d EXCEPT !.data = remote]
    OBVIOUS
  <1>3. \/ Inserts(p, Write("trust", "InvalidUsage"), m)
        \/ Moves(p, d)
        \/ Fails(p)
    BY <1>d, <1>m, Zenon DEF Decide, Checks
  <1>4. /\ DOMAIN d = Fields /\ d.decision = "none" /\ d.previewed = {}
        /\ DOMAIN m = Fields /\ m.decision = "none" /\ m.previewed = {}
    BY <1>2, <1>d, <1>m DEF Fields
  <1>5. Moves(p, d) => mem'[p] = d
    BY <1>1, <1>4, WaysAt DEF Passes
  <1>6. Inserts(p, Write("trust", "InvalidUsage"), m) => mem'[p] = m
    BY <1>2, <1>4, TurningWays DEF Turns
  <1>7. Fails(p) => exit'[p] # "running" /\ todo'[p] = <<>> /\ mem'[p] = mem[p]
    BY <1>1, <1>2, WaysAt DEF Drops, FallsOut, Early, Writing
  <1> QED
    BY <1>3, <1>4, <1>5, <1>6, <1>7

\* Every step keeps what a process knows of the remote.
LEMMA PreviewKept ==
  ASSUME PlanInv, PreviewInv, [Next]_vars, NEW q \in Processes PROVE Previewed(q)'
  <1>1. Previewed(q) /\ (exit[q] = "running" <=> todo[q] # <<>>)
    BY DEF PreviewInv, PlanInv, Planned, PlannedAs
  <1>2. CASE Rests(q)
    <2>1. remote' # remote => RemoteAnyTime \/ (exit[q] = "running" => mem[q].previewed = {})
      BY NextSteps DEF RemoteChanges
    <2> QED
      BY <1>1, <1>2, <2>1 DEF Rests, Previewed, Writes, Goes, At
  <1>3. CASE Dies(q)
    BY <1>1, <1>3 DEF Dies, Previewed, Writes, Goes
  <1>a. ASSUME Shape(q), todo'[q] # <<>>
        PROVE  /\ Head(todo'[q]).do = "ask" =>
                    At(q).do = "trust" \/ (At(q).do = "set-aside" /\ At(q).file = "trust")
               /\ Head(todo'[q]).do = "set-aside" /\ Head(todo'[q]).file = "trust" =>
                    At(q).do = "trust"
    BY <1>a, AskArrivals
  <1>4. CASE Built(q)
    <2>1. At(q).do \in {"assemble", "clean", "test"} /\ Shape(q) /\ Changes(q, {"passed"})
      BY <1>4 DEF Built, Waited, PlanInv, Building
    <2>2. /\ mem'[q].decision = mem[q].decision /\ mem'[q].previewed = mem[q].previewed
          /\ mem'[q].readFor = mem[q].readFor /\ exit[q] = "running"
      BY <2>1 DEF Changes, Fields, Shape, Turned
    <2>3. remote' = remote
      BY <1>4, Zenon DEF Built, GradleEnds
    <2> QED
      BY <1>1, <1>a, <2>1, <2>2, <2>3 DEF Previewed, Writes, Goes, At
  <1>5. CASE Acts(q)
    <2>1. Shape(q) /\ StepIs(q) /\ Goes(q) /\ exit[q] = "running" /\ remote' = remote
      BY <1>5 DEF Acts, Shape, Turned, Goes, Around
    <2>2. CASE At(q).do = "trust"
      <3>1. ReadTrust(q) /\ mem'[q].decision = mem[q].decision
        BY <2>1, <2>2 DEF StepIs, Idle, Changes, Fields
      <3> QED
        BY <1>1, <1>a, <2>1, <2>2, <3>1, ReadTrustReads DEF Previewed, Writes, Goes, At
    <2>3. CASE At(q).do = "ask"
      <3>1. mem'[q].previewed = mem[q].previewed /\ mem'[q].readFor = mem[q].readFor
        BY <2>1, <2>3 DEF StepIs, Idle, Changes, Fields
      <3> QED
        BY <1>1, <1>a, <2>1, <2>3, <3>1 DEF Previewed, Writes, Goes, At
    <2>4. CASE At(q).do = "decide"
      <3>1. Decide(q)
        BY <2>1, <2>4 DEF StepIs, Idle
      <3> QED
        BY <1>1, <1>a, <2>1, <2>4, <3>1, DecideUsesUp DEF Previewed, Writes, Goes, At
    <2>5. CASE At(q).do \notin {"trust", "ask", "decide"}
      <3>1. /\ mem'[q].previewed = mem[q].previewed /\ mem'[q].readFor = mem[q].readFor
            /\ mem'[q].decision = mem[q].decision
        BY <2>1, <2>5 DEF StepIs, Changes, Fields
      <3> QED
        BY <1>1, <1>a, <2>1, <2>5, <3>1 DEF Previewed, Writes, Goes, At
    <2> QED
      BY <2>2, <2>3, <2>4, <2>5
  <1> QED
    BY <1>2, <1>3, <1>4, <1>5, NextSteps DEF Seen

-----------------------------------------------------------------------------
(***************************************************************************)
(* The stored files.                                                       *)
(***************************************************************************)

\* A stream that assembles ends with its only completion, so what is assembled is what
\* the bridge hashed: the whole model.
LEMMA AssembledIsModel ==
  ASSUME NEW stream \in Outputs, Assembles(stream)
  PROVE  ModelOf(Assembled(stream)) = Model
  <1>R. PICK R : stream \in Seq(R)
    BY BridgeAssumption
  <1>n. PICK n : n = Len(stream)
    OBVIOUS
  <1>1. n \in Nat /\ DOMAIN stream = 1 .. n
    BY <1>R, <1>n
  <1>2. \A i \in 1 .. n : ~ Occurs("complete", Before(stream, i))
    BY <1>1 DEF Assembles, IsValid
  <1>3. PICK k \in 1 .. n : stream[k].type = "complete"
    BY <1>1 DEF Assembles, Occurs
  <1>4. ASSUME NEW i \in 1 .. n, NEW j \in 1 .. n, j < i PROVE stream[j].type # "complete"
    <2>1. Before(stream, i) \in Seq(R) /\ Len(Before(stream, i)) = i - 1
      BY <1>R, <1>1, <1>n DEF Before
    <2>2. j \in DOMAIN Before(stream, i) /\ Before(stream, i)[j] = stream[j]
      BY <1>R, <1>1, <1>4, <1>n, <2>1 DEF Before
    <2> QED
      BY <1>2, <2>2 DEF Occurs
  <1>5. k = n
    BY <1>1, <1>3, <1>4
  <1>6. \A j \in 1 .. n - 1 : stream[j].type # "complete"
    BY <1>1, <1>4, <1>5
  <1>f. PICK front : front = Front(stream)
    OBVIOUS
  <1>7. stream[n].hash = front
    BY <1>f, <1>n DEF Assembles, HashMatches, Last
  <1>8. /\ DOMAIN front = 1 .. n - 1
        /\ \A j \in 1 .. n - 1 : front[j] = stream[j]
    BY <1>R, <1>1, <1>f, <1>n, <1>5 DEF Front
  <1>9. {stream[i] : i \in {j \in 1 .. n : stream[j].type # "complete"}}
          = {front[i] : i \in {j \in 1 .. n - 1 : front[j].type # "complete"}}
    <2>1. {j \in 1 .. n : stream[j].type # "complete"} = {j
              \in 1 .. n - 1 : front[j].type # "complete"}
      BY <1>1, <1>3, <1>5, <1>8
    <2>2. \A i \in {j \in 1 .. n - 1 : front[j].type # "complete"} : stream[i] = front[i]
      BY <1>8
    <2> QED
      BY <2>1, <2>2
  <1>10. Assembled(stream) = Assembled(front)
    BY <1>1, <1>8, <1>9 DEF Assembled
  <1> QED
    BY <1>1, <1>3, <1>5, <1>7, <1>10, BridgeAssumption

\* What a step does to the stored files.
StorageSteps ==
  \/ UNCHANGED storageVars
  \/ \E f : SetAside(f)
  \/ \E p \in Processes : /\ Goes(p) /\ At(p).do = "rename"
                          /\ Persist(At(p).file, mem[p].data, TRUE)
  \/ \E p \in Processes : /\ Goes(p) /\ At(p).do = "sync-directory"
                          /\ Acknowledge(At(p).file, mem[p].wrote)
  \/ \E f \in Files : Spoil(f)
  \/ PowerLoss /\ \A p \in Processes : todo'[p] = <<>>

\* Every step of the system does one of these to the files; consents are never withdrawn.
LEMMA StorageMoves ==
  ASSUME PlanInv, [Next]_vars PROVE StorageSteps /\ consents \subseteq consents'
  <1>1. ASSUME NEW p \in Processes, Steps(p), Around(p)
        PROVE  StorageSteps /\ consents \subseteq consents'
    <2>1. Goes(p)
      BY <1>1, StepTable DEF Shape, Turned, Goes
    <2>2. consents \subseteq consents'
      BY <1>1 DEF Around, Decide
    <2>3. CASE UNCHANGED storageVars
      BY <2>2, <2>3 DEF StorageSteps
    <2>4. CASE QuarantineFile(p)
      BY <2>2, <2>4 DEF QuarantineFile, StorageSteps
    <2>5. CASE RenameFile(p)
      BY <2>1, <2>2, <2>5 DEF RenameFile, StorageSteps, Doing, At
    <2>6. CASE SyncDirectory(p)
      BY <2>1, <2>2, <2>6 DEF SyncDirectory, StorageSteps, Doing, At
    <2> QED
      BY <1>1, <2>3, <2>4, <2>5, <2>6 DEF Around
  <1>2. CASE GradleEnds
    BY <1>2 DEF GradleEnds, StorageSteps
  <1>3. CASE LosePower
    BY <1>3 DEF LosePower, StorageSteps
  <1>4. CASE SpoilFile
    BY <1>4 DEF SpoilFile, StorageSteps
  <1>5. CASE Edit
    BY <1>5 DEF Edit, StorageSteps
  <1>6. CASE UNCHANGED <<mem, tree, installed, consents, storageVars>>
    BY <1>6 DEF StorageSteps
  <1> QED
    BY <1>1, <1>2, <1>3, <1>4, <1>5, <1>6, NextSteps

\* A directory in which one file was replaced.
Shaped(d) == DOMAIN d = {"at", "aside"} /\ DOMAIN d.at = Files

Replaced(d, e, f, content) ==
  /\ Shaped(e) /\ d.aside \subseteq e.aside
  /\ \A g \in Files : e.at[g] = IF g = f THEN content ELSE d.at[g]

\* What is written in place of a file replaces it and nothing else.
LEMMA Replacing ==
  ASSUME NEW d, Shaped(d), NEW f, NEW content, NEW S
  PROVE  /\ Replaced(d, [d EXCEPT !.at[f] = content], f, content)
         /\ Replaced(d, [d EXCEPT !.at[f] = content, !.aside = @ \cup S], f, content)
         /\ S \subseteq [d EXCEPT !.at[f] = content, !.aside = @ \cup S].aside
  BY DEF Shaped, Replaced

\* What each of these does to the directory and to the counts.
LEMMA StorageEffects ==
  ASSUME Shaped(directory)
  PROVE  /\ \A f : SetAside(f) =>
              /\ possible' = possible \cup {directory'} /\ UNCHANGED <<writes, safe, spoiled>>
              /\ Replaced(directory, directory', f, Missing)
              /\ <<f, directory.at[f]>> \in directory'.aside
         /\ \A f, data : Persist(f, data, TRUE) =>
              /\ possible' = possible \cup {directory'} /\ UNCHANGED <<safe, spoiled>>
              /\ Replaced(directory, directory', f, Written(writes[f] + 1, data))
              /\ writes' = [writes EXCEPT ![f] = writes[f] + 1]
         /\ \A f, n : Acknowledge(f, n) =>
              /\ directory' = directory /\ possible' = {directory} /\ UNCHANGED <<writes, spoiled>>
              /\ safe' = [safe EXCEPT ![f] = IF @ > n \/ spoiled[f] >= n THEN @ ELSE n]
         /\ \A f : Spoil(f) =>
              /\ possible' = {directory'} /\ UNCHANGED writes /\ IsLoaded(directory.at[f])
              /\ Replaced(directory, directory', f, Damaged(directory.at[f].n))
              /\ safe' = [safe EXCEPT ![f] = 0]
              /\ spoiled' = [spoiled EXCEPT ![f] = directory.at[f].n]
  <1>1. ASSUME NEW f, SetAside(f)
        PROVE  /\ possible' = possible \cup {directory'} /\ UNCHANGED <<writes, safe, spoiled>>
               /\ Replaced(directory, directory', f, Missing)
               /\ <<f, directory.at[f]>> \in directory'.aside
    <2>1. /\ directory' = [directory EXCEPT !.at[f] = Missing,
                 !.aside = @ \cup {<<f, directory.at[f]>>}]
          /\ possible' = possible \cup {directory'} /\ UNCHANGED <<writes, safe, spoiled>>
      BY <1>1 DEF SetAside, Becomes
    <2> QED
      BY <2>1, Replacing
  <1>2. ASSUME NEW f, NEW data, Persist(f, data, TRUE)
        PROVE  /\ possible' = possible \cup {directory'} /\ UNCHANGED <<safe, spoiled>>
               /\ Replaced(directory, directory', f, Written(writes[f] + 1, data))
               /\ writes' = [writes EXCEPT ![f] = writes[f] + 1]
    <2>1. /\ directory' = [directory EXCEPT !.at[f] = Written(writes[f] + 1, data)]
          /\ possible' = possible \cup {directory'} /\ UNCHANGED <<safe, spoiled>>
          /\ writes' = [writes EXCEPT ![f] = writes[f] + 1]
      BY <1>2 DEF Persist
    <2> QED
      BY <2>1, Replacing
  <1>3. ASSUME NEW f, Spoil(f)
        PROVE  /\ possible' = {directory'} /\ UNCHANGED writes /\ IsLoaded(directory.at[f])
               /\ Replaced(directory, directory', f, Damaged(directory.at[f].n))
               /\ safe' = [safe EXCEPT ![f] = 0]
               /\ spoiled' = [spoiled EXCEPT ![f] = directory.at[f].n]
    <2>1. /\ directory' = [directory EXCEPT !.at[f] = Damaged(directory.at[f].n)]
          /\ possible' = {directory'} /\ UNCHANGED writes /\ IsLoaded(directory.at[f])
          /\ safe' = [safe EXCEPT ![f] = 0]
          /\ spoiled' = [spoiled EXCEPT ![f] = directory.at[f].n]
      BY <1>3 DEF Spoil, IsLoaded
    <2> QED
      BY <2>1, Replacing
  <1> QED
    BY <1>1, <1>2, <1>3 DEF Acknowledge

\* What the directory may hold after a step.
LEMMA DirectorySteps ==
  ASSUME StorageSteps, directory \in possible, \A d \in possible : Shaped(d)
  PROVE  /\ directory' \in possible'
         /\ \A d \in possible' \ {directory'} : d \in possible
         /\ \/ directory' \in possible
            \/ \E f : Replaced(directory, directory', f, Missing)
            \/ \E p \in Processes :
                 /\ Goes(p) /\ At(p).do = "rename"
                 /\ Replaced(directory, directory', At(p).file,
                             Written(writes[At(p).file] + 1, mem[p].data))
            \/ \E f \in Files : Replaced(directory, directory', f, Damaged(directory.at[f].n))
  <1>0. Shaped(directory)
    OBVIOUS
  <1>1. CASE UNCHANGED storageVars
    BY <1>1 DEF storageVars
  <1>2. CASE PowerLoss
    BY <1>2 DEF PowerLoss
  <1> QED
    BY <1>0, <1>1, <1>2, StorageEffects DEF StorageSteps

Whole == {Model, OldModel}
Fits(f, data, trusted) == /\ f = "bundle" => data.model \in Whole
                          /\ f = "trust" /\ ~RemoteAnyTime => data \in trusted

\* What a process is about to write is what belongs there, and the project it works with
\* is a whole one.
Holding(p) ==
  /\ Writes(p, {"temporary", "sync", "rename"}) => /\ At(p).file \in Files
                                                   /\ Fits(At(p).file, mem[p].data, consents)
  /\ \/ Writes(p, {"cache-again", "publish"})
     \/ Writes(p, Writing) /\ At(p).file = "bundle"
     => mem[p].output = Model
  /\ mem[p].known => mem[p].model \in Whole

ContentInv ==
  /\ directory \in possible
  /\ \A d \in possible : /\ Shaped(d)
                         /\ \A f \in Files : IsLoaded(d.at[f]) => Fits(f, d.at[f].data, consents)
  /\ \A p \in Processes : Holding(p)

\* Where a process comes from that writes, or keeps what was evaluated.
LEMMA WritingArrivals ==
  ASSUME NEW p \in Processes, Shape(p), NEW b, todo'[p] # <<>>, Head(todo'[p]) = b
  PROVE  /\ b.do = "temporary" =>
              \/ At(p).do = "cache-again" /\ b.file = "bundle" /\ GoesOn(p)
              \/ At(p).do = "decide" /\ b.file = "trust" /\ TurnsTo(p, b)
              \/ At(p).do = "add-preset" /\ b.file = "filters" /\ TurnsTo(p, b)
         /\ b.do = "sync" => At(p).do = "temporary" /\ At(p).file = b.file
         /\ b.do = "rename" => At(p).do = "sync" /\ At(p).file = b.file
         /\ b.do = "sync-directory" => At(p).do = "rename" /\ At(p).file = b.file /\ GoesOn(p)
         /\ b.do = "publish" => At(p).do = "sync-directory" /\ At(p).file = "bundle"
         /\ b.do = "cache-again" => At(p).do = "evaluate" /\ GoesOn(p)
  <1>1. CASE GoesOn(p) /\ (At(p).do = "set-aside" => At(p).exit = Unnoticed)
    BY <1>1 DEF GoesOn, Precedes
  <1>2. CASE FallsOut(p)
    BY <1>2 DEF FallsOut
  <1>3. CASE Stays(p) /\ At(p).do \in {"assemble", "clean", "test", "boot"}
    BY <1>3 DEF Stays, At
  <1>4. CASE \E a : TurnsTo(p, a) /\ TurnedAs(p, a)
    BY <1>4 DEF TurnsTo, TurnedAs
  <1> QED
    BY <1>1, <1>2, <1>3, <1>4 DEF Shape

\* What is evaluated is kept only when it is the whole model.
LEMMA EvaluateKeeps ==
  ASSUME PlanInv, NEW p \in Processes, Evaluate(p), todo'[p] # <<>>,
         Head(todo'[p]).do = "cache-again"
  PROVE  mem'[p].output = Model
  <1>1. Doing(p, {"evaluate"})
    BY DEF Evaluate
  <1>2. PICK stream \in Outputs :
          \/ /\ Assembles(stream)
             /\ Moves(p, [mem[p] EXCEPT !.output = ModelOf(Assembled(stream))])
          \/ Fails(p)
    BY Zenon DEF Evaluate, Checks
  <1>3. ~ Fails(p)
    <2>1. Fails(p) => FallsOut(p)
      BY <1>1, WaysAt DEF Drops
    <2> QED
      BY <2>1 DEF FallsOut
  <1>m. PICK m : m = [mem[p] EXCEPT !.output = ModelOf(Assembled(stream))]
    OBVIOUS
  <1>4. DOMAIN m = Fields /\ m.output = ModelOf(Assembled(stream))
    BY <1>1, <1>m, WaysAt DEF Fields
  <1>5. mem'[p] = m
    BY <1>1, <1>2, <1>3, <1>m, <1>4, WaysAt DEF Passes
  <1> QED
    BY <1>2, <1>3, <1>4, <1>5, AssembledIsModel

\* What is about to be written to the cache is what was evaluated.
LEMMA FingerprintWrites ==
  ASSUME PlanInv, NEW p \in Processes, Fingerprint(p), todo'[p] # <<>>,
         Head(todo'[p]).do = "temporary"
  PROVE  mem'[p].data.model = mem[p].output
  <1>1. Doing(p, {"cache-again"})
    BY DEF Fingerprint
  <1>2. /\ DOMAIN mem[p] = Fields /\ At(p).do = "cache-again"
        /\ exit[p] = "running" /\ request' = request
    BY <1>1, WaysAt
  <1>v. PICK v : v = [model |-> mem[p].output, inputs |-> tree.inputs]
    OBVIOUS
  <1>3. \/ Inserts(p, <<SetAsideStage("bundle", Fallback)>>, mem[p])
        \/ Moves(p, [mem[p] EXCEPT !.inputs = tree.inputs, !.data = v])
    BY <1>v, Zenon DEF Fingerprint, SetsAside
  <1>4. ~ Inserts(p, <<SetAsideStage("bundle", Fallback)>>, mem[p])
    <2>1. Inserts(p, <<SetAsideStage("bundle", Fallback)>>, mem[p]) => Turns(p, mem[p])
      BY <1>2, TurningWays
    <2> QED
      BY <1>2, <2>1 DEF Turns, TurnsTo, TurnedAs
  <1>m. PICK m : m = [mem[p] EXCEPT !.inputs = tree.inputs, !.data = v]
    OBVIOUS
  <1>5. DOMAIN m = Fields /\ m.data = v
    BY <1>2, <1>m DEF Fields
  <1>6. mem'[p] = m
    BY <1>1, <1>3, <1>4, <1>m, <1>5, WaysAt DEF Passes
  <1> QED
    BY <1>5, <1>6, <1>v

\* What is about to be stored is the remote; the user has consented to the one of the preview.
LEMMA DecideWrites ==
  ASSUME PlanInv, NEW p \in Processes, Decide(p), todo'[p] # <<>>,
         Head(todo'[p]).do = "temporary"
  PROVE  /\ mem'[p].data = remote /\ mem[p].previewed \subseteq consents'
         /\ mem[p].decision = "project" /\ request[p].interactive /\ ~ mem[p].trusted
  <1>1. Doing(p, {"decide"})
    BY DEF Decide
  <1>2. /\ DOMAIN mem[p] = Fields /\ At(p).do = "decide"
        /\ exit[p] = "running" /\ request' = request
    BY <1>1, WaysAt
  <1>d. PICK d : d = [mem[p] EXCEPT !.decision = "none", !.previewed = {}]
    OBVIOUS
  <1>m. PICK m : m = [d EXCEPT !.data = remote]
    OBVIOUS
  <1>3. DOMAIN m = Fields /\ m.data = remote /\ DOMAIN d = Fields
    BY <1>2, <1>d, <1>m DEF Fields
  <1>4. \/ /\ ~ mem[p].trusted /\ request[p].interactive /\ mem[p].decision = "project"
           /\ Inserts(p, Write("trust", "InvalidUsage"), m)
           /\ consents' = consents \cup mem[p].previewed
        \/ Moves(p, d) \/ Fails(p)
    BY <1>d, <1>m, Zenon DEF Decide, Checks
  <1>5. ~ Fails(p) /\ ~ Moves(p, d)
    <2>1. (Fails(p) => FallsOut(p)) /\ (Moves(p, d) => GoesOn(p))
      BY <1>1, <1>3, WaysAt DEF Drops, Passes
    <2> QED
      BY <1>2, <2>1 DEF FallsOut, GoesOn, Precedes
  <1>6. Inserts(p, Write("trust", "InvalidUsage"), m) => mem'[p] = m
    BY <1>2, <1>3, TurningWays DEF Turns
  <1> QED
    BY <1>3, <1>4, <1>5, <1>6

\* The project that is opened is the one that is stored.
LEMMA OpenTakes ==
  ASSUME PlanInv, NEW p \in Processes, OpenProject(p)
  PROVE  \/ mem'[p] = mem[p]
         \/ IsLoaded(directory.at["bundle"]) /\ mem'[p].model = directory.at["bundle"].data.model
  <1>1. Doing(p, {"cache"})
    BY DEF OpenProject
  <1>2. /\ DOMAIN mem[p] = Fields /\ At(p).do = "cache"
        /\ exit[p] = "running" /\ request' = request
    BY <1>1, WaysAt
  <1>m. PICK m : m = [mem[p] EXCEPT !.known = TRUE, !.model = directory.at["bundle"].data.model]
    OBVIOUS
  <1>3. DOMAIN m = Fields /\ m.model = directory.at["bundle"].data.model
    BY <1>2, <1>m DEF Fields
  <1>4. \/ Inserts(p, <<SetAsideStage("bundle", At(p).exit)>>, mem[p])
               \/ Inserts(p, Refresh, mem[p])
        \/ IsLoaded(directory.at["bundle"]) /\ (Moves(p, m) \/ Inserts(p, Refresh, m))
    BY <1>m, Zenon DEF OpenProject, SetsAside, Bundle, At
  <1>5. \A n : DOMAIN n = Fields /\
             (\/ Inserts(p, <<SetAsideStage("bundle", At(p).exit)>>, n)
              \/ Inserts(p, Refresh, n) \/ Moves(p, n)) => mem'[p] = n
    BY <1>1, <1>2, TurningWays, WaysAt DEF Turns, Passes
  <1> QED
    BY <1>2, <1>3, <1>4, <1>5

\* The project that is published is the one that was evaluated.
LEMMA PublishTakes ==
  ASSUME PlanInv, NEW p \in Processes, Publish(p) PROVE mem'[p].model = mem[p].output
  <1>1. Doing(p, {"publish"}) /\ Moves(p, [mem[p] EXCEPT !.known = TRUE, !.model = mem[p].output])
    BY DEF Publish
  <1>m. PICK m : m = [mem[p] EXCEPT !.known = TRUE, !.model = mem[p].output]
    OBVIOUS
  <1>2. DOMAIN m = Fields /\ m.model = mem[p].output
    BY <1>1, <1>m, WaysAt DEF Fields
  <1> QED
    BY <1>1, <1>2, <1>m, WaysAt DEF Passes

\* Which steps these are.
LEMMA WritingSteps ==
  ASSUME NEW p \in Processes, StepIs(p)
  PROVE  /\ At(p).do \in {"temporary", "sync", "sync-directory"} => mem'[p] = mem[p]
         /\ At(p).do = "rename" => RenameFile(p) /\ mem'[p].output = mem[p].output
         /\ At(p).do = "evaluate" => Evaluate(p)
         /\ At(p).do = "cache-again" => Fingerprint(p) /\ mem'[p].output = mem[p].output
         /\ At(p).do = "decide" => Decide(p)
         /\ \/ OpenProject(p)
            \/ Publish(p) /\ At(p).do = "publish"
            \/ mem'[p].known = mem[p].known /\ mem'[p].model = mem[p].model
  <1>1. /\ At(p).do \in {"temporary", "sync", "sync-directory"} => mem'[p] = mem[p]
        /\ At(p).do = "rename" => RenameFile(p) /\ Changes(p, {"wrote"})
        /\ At(p).do = "evaluate" => Evaluate(p)
        /\ At(p).do = "cache-again" => Fingerprint(p) /\ Changes(p, {"inputs", "data"})
        /\ At(p).do = "decide" => Decide(p)
    BY DEF StepIs, Idle
  <1>2. \/ OpenProject(p)
        \/ Publish(p) /\ At(p).do = "publish"
        \/ mem'[p].known = mem[p].known /\ mem'[p].model = mem[p].model
    BY DEF StepIs, Changes, Fields
  <1> QED
    BY <1>1, <1>2 DEF Changes, Fields

\* A process holds what it should after a step, whoever took it.
LEMMA HoldingKept ==
  ASSUME PlanInv, PreviewInv, ContentInv, [Next]_vars, NEW q \in Processes PROVE Holding(q)'
  <1>1. /\ Holding(q) /\ directory \in possible
        /\ consents \subseteq consents'
        /\ IsLoaded(directory.at["bundle"]) => directory.at["bundle"].data.model \in Whole
    <2>1. "bundle" \in Files
      BY InvocationsAssumption
    <2>2. consents \subseteq consents'
      BY StorageMoves
    <2> QED
      BY <2>1, <2>2 DEF ContentInv, Fits
  <1>2. \A f, data : Fits(f, data, consents) => Fits(f, data, consents')
    BY <1>1 DEF Fits, Whole
  <1>3. CASE Rests(q)
    BY <1>1, <1>2, <1>3 DEF Rests, Holding, Writes, Goes, At, Whole
  <1>4. CASE Dies(q)
    BY <1>1, <1>4 DEF Dies, Holding, Writes, Goes, Whole
  <1>5. ASSUME Shape(q),
               \/ Acts(q)
               \/ /\ At(q).do \in {"assemble", "clean", "test"} /\ mem'[q].output = mem[q].output
                  /\ mem'[q].known = mem[q].known /\ mem'[q].model = mem[q].model
        PROVE  Holding(q)'
    <2>b. PICK b : b = Head(todo'[q])
      OBVIOUS
    <2>1. Goes(q)
      BY <1>5 DEF Shape, Turned, Goes
    <2>2. At(q).do \notin {"assemble", "clean", "test"} => Acts(q) /\ StepIs(q)
      BY <1>5 DEF Acts
    <2>3. ASSUME todo'[q] # <<>>, b.do \in {"temporary", "sync", "rename"}
          PROVE  b.file \in Files /\ Fits(b.file, mem'[q].data, consents')
      <3>1. CASE b.do = "temporary" /\ At(q).do = "cache-again" /\ b.file = "bundle"
        <4>1. Fingerprint(q)
          BY <2>2, <3>1, WritingSteps
        <4>2. mem'[q].data.model = mem[q].output
          BY <2>b, <2>3, <3>1, <4>1, FingerprintWrites
        <4>3. mem[q].output = Model
          BY <1>1, <2>1, <3>1 DEF Holding, Writes
        <4> QED
          BY <3>1, <4>2, <4>3, InvocationsAssumption DEF Fits, Whole
      <3>2. CASE b.do = "temporary" /\ At(q).do = "decide" /\ b.file = "trust"
        <4>1. Decide(q)
          BY <2>2, <3>2, WritingSteps
        <4>2. /\ mem'[q].data = remote /\ mem[q].previewed \subseteq consents'
              /\ mem[q].decision = "project"
          BY <2>b, <2>3, <3>2, <4>1, DecideWrites
        <4>3. ~RemoteAnyTime => mem[q].previewed = {remote}
          BY <1>5, <4>2 DEF PreviewInv, Previewed, Shape, Turned
        <4> QED
          BY <3>2, <4>2, <4>3, InvocationsAssumption DEF Fits
      <3>3. CASE b.file = "filters"
        BY <3>3, InvocationsAssumption DEF Fits
      <3>4. CASE At(q).do \in {"temporary", "sync"} /\ b.file = At(q).file
        <4>1. mem'[q] = mem[q]
          BY <2>2, <3>4, WritingSteps
        <4>2. At(q).file \in Files /\ Fits(At(q).file, mem[q].data, consents)
          BY <1>1, <2>1, <3>4 DEF Holding, Writes
        <4> QED
          BY <1>2, <3>4, <4>1, <4>2
      <3> QED
        BY <1>5, <2>b, <2>3, <3>1, <3>2, <3>3, <3>4, WritingArrivals
    <2>4. ASSUME todo'[q] # <<>>, b.do \in {"cache-again", "publish"}
              \/ (b.do \in Writing /\ b.file = "bundle")
          PROVE  mem'[q].output = Model
      <3>1. CASE b.do = "cache-again"
        <4>1. At(q).do = "evaluate"
          BY <1>5, <2>b, <2>4, <3>1, WritingArrivals
        <4> QED
          BY <2>2, <2>4, <2>b, <3>1, <4>1, WritingSteps, EvaluateKeeps
      <3>2. CASE b.do # "cache-again"
        <4>1. \/ At(q).do = "cache-again"
              \/ At(q).do \in Writing /\ At(q).file = "bundle"
          BY <1>5, <2>b, <2>4, <3>2, WritingArrivals DEF Writing
        <4>2. mem[q].output = Model
          BY <1>1, <2>1, <4>1 DEF Holding, Writes
        <4>3. mem'[q].output = mem[q].output
          BY <2>2, <4>1, WritingSteps DEF Writing
        <4> QED
          BY <4>2, <4>3
      <3> QED
        BY <3>1, <3>2
    <2>5. mem'[q].known => mem'[q].model \in Whole
      <3>1. CASE Acts(q) /\ OpenProject(q)
        BY <1>1, <3>1, OpenTakes DEF Holding
      <3>2. CASE Acts(q) /\ Publish(q) /\ At(q).do = "publish"
        <4>1. mem[q].output = Model
          BY <1>1, <2>1, <3>2 DEF Holding, Writes
        <4> QED
          BY <3>2, <4>1, PublishTakes DEF Whole
      <3>3. CASE mem'[q].known = mem[q].known /\ mem'[q].model = mem[q].model
        BY <1>1, <3>3 DEF Holding
      <3> QED
        BY <1>5, <3>1, <3>2, <3>3, WritingSteps DEF Acts
    <2>6. At(q)' = b /\ (Goes(q)' <=> todo'[q] # <<>>) /\ Whole' = Whole
      BY <2>b DEF At, Goes, Whole
    <2> QED
      BY <2>3, <2>4, <2>5, <2>6 DEF Holding, Writes
  <1>6. CASE Acts(q)
    BY <1>5, <1>6 DEF Acts
  <1>7. CASE Built(q)
    <2>1. PICK build \in builder : build.by = q /\ Waited(q, build)
      BY <1>7 DEF Built
    <2>2. Shape(q) /\ Changes(q, {"passed"}) /\ At(q).do \in {"assemble", "clean", "test"}
      BY <2>1 DEF Waited, PlanInv, Building
    <2>3. /\ mem'[q].output = mem[q].output
          /\ mem'[q].known = mem[q].known /\ mem'[q].model = mem[q].model
      BY <2>2 DEF Changes, Fields
    <2> QED
      BY <1>5, <2>2, <2>3
  <1> QED
    BY <1>3, <1>4, <1>6, <1>7, NextSteps DEF Seen

\* Every step keeps what the files and the processes hold.
LEMMA ContentsKept == ASSUME PlanInv, PreviewInv, ContentInv, [Next]_vars PROVE ContentInv'
  <1>1. \A q \in Processes : Holding(q)'
    BY HoldingKept
  <1>2. /\ directory \in possible /\ consents \subseteq consents'
        /\ StorageSteps
        /\ \A d \in possible : Shaped(d)
        /\ \A d \in possible : \A f \in Files : IsLoaded(d.at[f]) => Fits(f, d.at[f].data, consents)
    BY StorageMoves DEF ContentInv
  <1>3. \A f, data : Fits(f, data, consents) => Fits(f, data, consents')
    BY <1>2 DEF Fits, Whole
  <1>4. \A d \in possible : Shaped(d)' /\ \A f \in Files : IsLoaded(d.at[f]) =>
            Fits(f, d.at[f].data, consents')
    BY <1>2, <1>3 DEF Shaped
  <1>5. /\ directory' \in possible' /\ \A d \in possible' \ {directory'} : d \in possible
    BY <1>2, DirectorySteps
  <1>d. PICK d : d = directory'
    OBVIOUS
  <1>6. ASSUME NEW f, NEW content, Replaced(directory, d, f, content),
               f \in Files /\ IsLoaded(content) => Fits(f, content.data, consents')
        PROVE  Shaped(d) /\ \A g \in Files : IsLoaded(d.at[g]) => Fits(g, d.at[g].data, consents')
    BY <1>4, <1>2, <1>6 DEF Replaced
  <1>7. Shaped(d) /\ \A g \in Files : IsLoaded(d.at[g]) => Fits(g, d.at[g].data, consents')
    <2>1. ~ IsLoaded(Missing) /\ \A n : ~ IsLoaded(Damaged(n))
      BY DEF IsLoaded, Missing, Damaged
    <2>2. ASSUME NEW p \in Processes, Goes(p), At(p).do = "rename"
          PROVE  Fits(At(p).file, mem[p].data, consents')
      BY <1>3, <2>2 DEF ContentInv, Holding, Writes
    <2>3. \A n, data : Written(n, data).data = data
      BY DEF Written
    <2>4. CASE d \in possible
      BY <1>4, <2>4 DEF Shaped
    <2>5. ASSUME NEW f, Replaced(directory, d, f, Missing)
          PROVE  Shaped(d) /\ \A g \in Files : IsLoaded(d.at[g]) => Fits(g, d.at[g].data, consents')
      BY <1>6, <2>1, <2>5
    <2>6. ASSUME NEW p \in Processes, Goes(p), At(p).do = "rename",
                 Replaced(directory, d, At(p).file, Written(writes[At(p).file] + 1, mem[p].data))
          PROVE  Shaped(d) /\ \A g \in Files : IsLoaded(d.at[g]) => Fits(g, d.at[g].data, consents')
      BY <1>6, <2>2, <2>3, <2>6
    <2>7. ASSUME NEW f \in Files, Replaced(directory, d, f, Damaged(directory.at[f].n))
          PROVE  Shaped(d) /\ \A g \in Files : IsLoaded(d.at[g]) => Fits(g, d.at[g].data, consents')
      BY <1>6, <2>1, <2>7
    <2> QED
      BY <1>2, <1>d, <2>4, <2>5, <2>6, <2>7, DirectorySteps
  <1> QED
    BY <1>1, <1>4, <1>5, <1>7, <1>d DEF ContentInv, Shaped

Consented(session) == IF session.trusted THEN {1} ELSE {}

InitialFiles(session) ==
  [f \in Files |->
     CASE f = "filters" -> Written(1, {"crashes"})
       [] f = "trust"   -> IF session.trusted THEN Written(1, 1) ELSE Missing
       [] f = "bundle"  ->
            CASE session.bundle = "missing" -> Missing
              [] session.bundle = "stale"   -> Written(1, [model |-> OldModel, inputs |-> 0])
              [] session.bundle = "current" -> Written(1, [model |-> Model, inputs |-> 1])]

\* Where the processes and the files begin.
LEMMA Beginning ==
  ASSUME Init
  PROVE  /\ \E session \in Sessions :
              StorageInit(InitialFiles(session)) /\ consents = Consented(session)
         /\ \A p \in Processes : mem[p] = InitialMem /\ Goes(p) /\ At(p).do = "validate"
  <1>1. PICK session \in Sessions :
          /\ request = session.request
          /\ todo = [p \in Processes |-> Stages(request[p])]
          /\ mem = [p \in Processes |-> InitialMem]
          /\ consents = Consented(session) /\ StorageInit(InitialFiles(session))
    BY DEF Init, InitialFiles, Consented
  <1>2. ASSUME NEW p \in Processes PROVE Goes(p) /\ At(p).do = "validate"
    <2>1. request[p].command \in Subcommands
      BY <1>1, InvocationsAssumption
    <2>2. Starts(request[p], Stages(request[p]))
      BY <2>1, StagesArePlans
    <2> QED
      BY <1>1, <2>2 DEF Starts, Goes, At
  <1> QED
    BY <1>1, <1>2

\* What is stored before any command is one file of each kind, or none.
LEMMA StoredFirst ==
  ASSUME NEW session \in Sessions, NEW f \in Files
  PROVE  \/ InitialFiles(session)[f] = Missing
         \/ \E data : /\ InitialFiles(session)[f] = Written(1, data)
                       /\ Fits(f, data, Consented(session))
  <1>1. /\ Files = {"bundle", "trust", "filters"}
        /\ session.bundle \in {"missing", "stale", "current"}
    BY InvocationsAssumption
  <1>2. CASE f = "bundle"
    <2>1. InitialFiles(session)[f] =
            CASE session.bundle = "missing" -> Missing
              [] session.bundle = "stale"   -> Written(1, [model |-> OldModel, inputs |-> 0])
              [] session.bundle = "current" -> Written(1, [model |-> Model, inputs |-> 1])
      BY <1>2, Zenon DEF InitialFiles
    <2>2. /\ Fits(f, [model |-> OldModel, inputs |-> 0], Consented(session))
          /\ Fits(f, [model |-> Model, inputs |-> 1], Consented(session))
      BY <1>2 DEF Fits, Whole
    <2> QED
      BY <1>1, <2>1, <2>2
  <1>3. CASE f = "trust"
    BY <1>3 DEF InitialFiles, Fits, Consented
  <1>4. CASE f = "filters"
    BY <1>4 DEF InitialFiles, Fits
  <1> QED
    BY <1>1, <1>2, <1>3, <1>4

\* What the files hold when the commands begin.
LEMMA ContentsFirst == ASSUME Init PROVE ContentInv
  <1>1. PICK session \in Sessions :
          StorageInit(InitialFiles(session)) /\ consents = Consented(session)
    BY Beginning
  <1>s. PICK initial : initial = InitialFiles(session)
    OBVIOUS
  <1>2. /\ directory = [at |-> initial, aside |-> {}] /\ possible = {directory}
        /\ DOMAIN initial = Files
    BY <1>1, <1>s DEF StorageInit, InitialFiles
  <1>3. Shaped(directory) /\ directory.at = initial
    BY <1>2 DEF Shaped
  <1>4. ASSUME NEW f \in Files, IsLoaded(initial[f]) PROVE Fits(f, initial[f].data, consents)
    <2>1. initial[f] # Missing
      BY <1>4 DEF IsLoaded, Missing
    <2>2. PICK data : initial[f] = Written(1, data) /\ Fits(f, data, consents)
      BY <1>1, <1>s, <2>1, StoredFirst
    <2> QED
      BY <2>2 DEF Written
  <1>5. ASSUME NEW p \in Processes PROVE Holding(p)
    <2>1. At(p).do = "validate" /\ mem[p].known = FALSE
      BY Beginning DEF InitialMem
    <2> QED
      BY <2>1 DEF Holding, Writes, Writing
  <1> QED
    BY <1>2, <1>3, <1>4, <1>5 DEF ContentInv

\* Between its preview and its decision a process knows the remote of the project.
THEOREM PreviewsAreKept == Spec => []PreviewInv
  <1>1. Init => PreviewInv
    <2> SUFFICES ASSUME Init, NEW p \in Processes PROVE Previewed(p)
      BY DEF PreviewInv
    <2>1. At(p).do = "validate" /\ mem[p].previewed = {} /\ mem[p].decision = "none"
      BY Beginning DEF InitialMem
    <2> QED
      BY <2>1 DEF Previewed, Writes
  <1>2. PlanInv /\ PreviewInv /\ [Next]_vars => PreviewInv'
    BY PreviewKept DEF PreviewInv
  <1> QED
    BY <1>1, <1>2, PlansAreKept, PTL DEF Spec

\* In every state a file holds what belongs there, also in every directory that a power loss
\* may bring back, and a process that is about to write holds what belongs in the file.
THEOREM ContentsAreKept == Spec => []ContentInv
  <1>1. PlanInv /\ PreviewInv /\ ContentInv /\ [Next]_vars => ContentInv'
    BY ContentsKept
  <1>2. Init => ContentInv
    BY ContentsFirst
  <1> QED
    BY <1>1, <1>2, PlansAreKept, PreviewsAreKept, PTL DEF Spec

\* No command works with part of a model: what Gradle failed to write whole, and a file
\* that is damaged in the cache, are never taken for the project, whatever other commands,
\* crashes and power losses come between the writing and the reading.
THEOREM ModelsAreWhole == Spec => []OnlyWholeModelsAreUsed
  <1>1. ContentInv => OnlyWholeModelsAreUsed
    BY DEF ContentInv, Holding, Whole, OnlyWholeModelsAreUsed
  <1> QED
    BY <1>1, ContentsAreKept, PTL

-----------------------------------------------------------------------------
\* The n-th write of f, or a later one, is in the directory, or was set aside.
HasWrite(d, f, n) ==
  \/ IsLoaded(d.at[f]) /\ d.at[f].n >= n
  \/ \E entry \in d.aside : entry[1] = f /\ IsLoaded(entry[2]) /\ entry[2].n >= n

\* While anybody works, a file that is whole is the last that was written: only a power
\* loss brings an older one back, and it leaves nobody at work.
Newest == (\E p \in Processes : Goes(p)) =>
            \A f \in Files : IsLoaded(directory.at[f]) => directory.at[f].n = writes[f]

\* What a process has written and will acknowledge is there, or somebody spoiled it.
Pending(p) ==
  Writes(p, {"sync-directory"}) =>
    /\ mem[p].wrote \in Nat /\ mem[p].wrote <= writes[At(p).file] /\ At(p).file \in Files
    /\ \/ spoiled[At(p).file] >= mem[p].wrote
       \/ HasWrite(directory, At(p).file, mem[p].wrote)

CountsInv ==
  /\ writes \in [Files -> Nat] /\ safe \in [Files -> Nat] /\ spoiled \in [Files -> Nat]
  /\ \A f \in Files : safe[f] <= writes[f]
  /\ \A d \in possible : \A f \in Files : d.at[f].n \in Nat /\ d.at[f].n <= writes[f]

KeptInv == CountsInv /\ Newest /\ (\A d \in possible : \A f \in Files : Keeps(d, f))
             /\ \A p \in Processes : Pending(p)

\* A file that is moved aside keeps every write the directory had.
LEMMA AsideKeeps ==
  ASSUME NEW d, NEW e, NEW f, Replaced(d, e, f, Missing), <<f, d.at[f]>> \in e.aside,
         NEW g \in Files, NEW n, HasWrite(d, g, n)
  PROVE  HasWrite(e, g, n)
  <1>1. CASE IsLoaded(d.at[g]) /\ d.at[g].n >= n /\ g # f
    BY <1>1 DEF HasWrite, Replaced
  <1>2. CASE IsLoaded(d.at[g]) /\ d.at[g].n >= n /\ g = f
    <2>1. PICK entry : entry = <<f, d.at[f]>>
      OBVIOUS
    <2>2. entry \in e.aside /\ entry[1] = g /\ entry[2] = d.at[g]
      BY <1>2, <2>1
    <2> QED
      BY <1>2, <2>2 DEF HasWrite
  <1>3. CASE \E entry \in d.aside : entry[1] = g /\ IsLoaded(entry[2]) /\ entry[2].n >= n
    BY <1>3 DEF HasWrite, Replaced
  <1> QED
    BY <1>1, <1>2, <1>3 DEF HasWrite

\* So does a newer write in its place.
LEMMA NewerKeeps ==
  ASSUME NEW d, NEW e, NEW f, NEW k \in Nat, NEW data, Replaced(d, e, f, Written(k, data)),
         NEW g \in Files, NEW n, HasWrite(d, g, n), g = f => n <= k
  PROVE  HasWrite(e, g, n)
  <1>1. Written(k, data).n = k /\ IsLoaded(Written(k, data))
    BY DEF Written, IsLoaded
  <1>2. CASE g = f
    BY <1>1, <1>2 DEF HasWrite, Replaced
  <1>3. CASE g # f
    BY <1>3 DEF HasWrite, Replaced
  <1> QED
    BY <1>2, <1>3

\* A file that is spoiled takes away only its own writes.
LEMMA SpoiledKeeps ==
  ASSUME NEW d, NEW e, NEW f, NEW content, Replaced(d, e, f, content),
         NEW g \in Files, NEW n, HasWrite(d, g, n), g # f
  PROVE  HasWrite(e, g, n)
  BY DEF HasWrite, Replaced

\* Nobody starts after the others.
LEMMA GoesBefore ==
  ASSUME PlanInv, [Next]_vars, NEW p \in Processes, todo'[p] # <<>> PROVE Goes(p)
  <1>1. Rests(p) \/ Dies(p) \/ Acts(p) \/ Built(p)
    BY NextSteps DEF Seen
  <1> QED
    BY <1>1 DEF Rests, Dies, Acts, Built, Waited, Shape, Turned, Goes

\* A rename that succeeds leaves the write in the directory, and its number with the process.
LEMMA RenameWrites ==
  ASSUME PlanInv, NEW p \in Processes, RenameFile(p), todo'[p] # <<>>,
         Head(todo'[p]).do = "sync-directory"
  PROVE  mem'[p].wrote = writes[At(p).file] + 1 /\ Persist(At(p).file, mem[p].data, TRUE)
  <1>1. Doing(p, {"rename"})
    BY DEF RenameFile
  <1>2. DOMAIN mem[p] = Fields /\ At(p).do = "rename"
    BY <1>1, WaysAt
  <1>m. PICK m : m = [mem[p] EXCEPT !.wrote = writes[At(p).file] + 1]
    OBVIOUS
  <1>3. DOMAIN m = Fields /\ m.wrote = writes[At(p).file] + 1
    BY <1>2, <1>m DEF Fields
  <1>4. (Moves(p, m) /\ Persist(At(p).file, mem[p].data, TRUE)) \/ Fails(p)
    BY <1>m, Zenon DEF RenameFile, At
  <1>5. ~ Fails(p)
    <2>1. Fails(p) => FallsOut(p)
      BY <1>1, WaysAt DEF Drops
    <2> QED
      BY <2>1 DEF FallsOut
  <1> QED
    BY <1>1, <1>3, <1>4, <1>5, WaysAt DEF Passes

\* A write that is there, or whose file was spoiled since, stays so while anybody works.
LEMMA PendingStays ==
  ASSUME ContentInv, KeptInv, StorageSteps, \E p \in Processes : Goes(p),
         \E p \in Processes : todo'[p] # <<>>,
         NEW f \in Files, NEW n \in Nat, n <= writes[f], spoiled[f] >= n
             \/ HasWrite(directory, f, n)
  PROVE  n <= writes'[f] /\ (spoiled'[f] >= n \/ HasWrite(directory', f, n))
  <1>0. /\ Shaped(directory) /\ writes \in [Files -> Nat] /\ spoiled \in [Files -> Nat]
        /\ \A g \in Files : IsLoaded(directory.at[g]) => directory.at[g].n = writes[g]
    BY DEF ContentInv, KeptInv, CountsInv, Newest
  <1>1. CASE UNCHANGED storageVars
    BY <1>1 DEF storageVars
  <1>2. ASSUME NEW g, SetAside(g)
        PROVE  n <= writes'[f] /\ (spoiled'[f] >= n \/ HasWrite(directory', f, n))
    <2>1. /\ UNCHANGED <<writes, spoiled>> /\ Replaced(directory, directory', g, Missing)
          /\ <<g, directory.at[g]>> \in directory'.aside
      BY <1>0, <1>2, StorageEffects
    <2> QED
      BY <2>1, AsideKeeps
  <1>3. ASSUME NEW p \in Processes, Goes(p), At(p).do = "rename",
               Persist(At(p).file, mem[p].data, TRUE)
        PROVE  n <= writes'[f] /\ (spoiled'[f] >= n \/ HasWrite(directory', f, n))
    <2>g. PICK g \in Files : g = At(p).file
      BY <1>3 DEF ContentInv, Holding, Writes
    <2>1. /\ UNCHANGED spoiled
          /\ Replaced(directory, directory', g, Written(writes[g] + 1, mem[p].data))
          /\ writes' = [writes EXCEPT ![g] = writes[g] + 1]
      BY <1>0, <1>3, <2>g, StorageEffects
    <2>2. writes[g] + 1 \in Nat /\ (f = g => n <= writes[g] + 1) /\ n <= writes'[f]
      BY <1>0, <2>1
    <2> QED
      BY <2>1, <2>2, NewerKeeps
  <1>4. ASSUME NEW p \in Processes, Acknowledge(At(p).file, mem[p].wrote)
        PROVE  n <= writes'[f] /\ (spoiled'[f] >= n \/ HasWrite(directory', f, n))
    <2>1. UNCHANGED <<writes, spoiled>> /\ directory' = directory
      BY <1>0, <1>4, StorageEffects
    <2> QED
      BY <2>1
  <1>5. ASSUME NEW g \in Files, Spoil(g)
        PROVE  n <= writes'[f] /\ (spoiled'[f] >= n \/ HasWrite(directory', f, n))
    <2>1. /\ UNCHANGED writes /\ IsLoaded(directory.at[g])
          /\ Replaced(directory, directory', g, Damaged(directory.at[g].n))
          /\ spoiled' = [spoiled EXCEPT ![g] = directory.at[g].n]
      BY <1>0, <1>5, StorageEffects
    <2>2. CASE f = g
      BY <1>0, <2>1, <2>2
    <2>3. CASE f # g
      BY <1>0, <2>1, <2>3, SpoiledKeeps
    <2> QED
      BY <2>2, <2>3
  <1> QED
    BY <1>1, <1>2, <1>3, <1>4, <1>5 DEF StorageSteps

\* The counts are kept, and what is acknowledged is in every directory that a power loss
\* may leave.
LEMMA KeptStays ==
  ASSUME ContentInv, KeptInv, StorageSteps
  PROVE  CountsInv' /\ \A d \in possible' : \A f \in Files : Keeps(d, f)'
  <1>0. /\ Shaped(directory) /\ directory \in possible
        /\ writes \in [Files -> Nat] /\ safe \in [Files -> Nat] /\ spoiled \in [Files -> Nat]
        /\ \A f \in Files : safe[f] <= writes[f]
        /\ \A d \in possible : \A f \in Files : d.at[f].n \in Nat /\ d.at[f].n <= writes[f]
        /\ \A d \in possible : \A f \in Files : safe[f] = 0 \/ HasWrite(d, f, safe[f])
    BY DEF ContentInv, KeptInv, CountsInv, Keeps, HasWrite
  <1>k. ASSUME writes' \in [Files -> Nat], safe' \in [Files -> Nat], spoiled' \in [Files -> Nat],
               \A f \in Files : safe'[f] <= writes'[f],
               \A d \in possible' : \A f \in Files : d.at[f].n \in Nat /\ d.at[f].n <= writes'[f],
               \A d \in possible' : \A f \in Files : safe'[f] = 0 \/ HasWrite(d, f, safe'[f])
        PROVE  CountsInv' /\ \A d \in possible' : \A f \in Files : Keeps(d, f)'
    BY <1>k DEF CountsInv, Keeps, HasWrite
  <1>1. CASE UNCHANGED storageVars
    BY <1>0, <1>1, <1>k DEF storageVars
  <1>2. ASSUME NEW g, SetAside(g)
        PROVE  CountsInv' /\ \A d \in possible' : \A f \in Files : Keeps(d, f)'
    <2>1. /\ UNCHANGED <<writes, safe, spoiled>> /\ possible' = possible \cup {directory'}
          /\ Replaced(directory, directory', g, Missing)
          /\ <<g, directory.at[g]>> \in directory'.aside
      BY <1>0, <1>2, StorageEffects
    <2>2. \A f \in Files : safe[f] = 0 \/ HasWrite(directory', f, safe[f])
      BY <1>0, <2>1, AsideKeeps
    <2>3. \A f \in Files : directory'.at[f].n \in Nat /\ directory'.at[f].n <= writes[f]
      BY <1>0, <2>1 DEF Replaced, Missing
    <2> QED
      BY <1>0, <1>k, <2>1, <2>2, <2>3
  <1>3. ASSUME NEW p \in Processes, Goes(p), At(p).do = "rename",
               Persist(At(p).file, mem[p].data, TRUE)
        PROVE  CountsInv' /\ \A d \in possible' : \A f \in Files : Keeps(d, f)'
    <2>g. PICK g \in Files : g = At(p).file
      BY <1>3 DEF ContentInv, Holding, Writes
    <2>1. /\ UNCHANGED <<safe, spoiled>> /\ possible' = possible \cup {directory'}
          /\ Replaced(directory, directory', g, Written(writes[g] + 1, mem[p].data))
          /\ writes' = [writes EXCEPT ![g] = writes[g] + 1]
      BY <1>0, <1>3, <2>g, StorageEffects
    <2>2. writes' \in [Files -> Nat] /\ \A f \in Files : writes[f] <= writes'[f]
              /\ safe[f] <= writes[f]
      BY <1>0, <2>1
    <2>3. \A f \in Files : safe[f] = 0 \/ HasWrite(directory', f, safe[f])
      <3>1. writes[g] + 1 \in Nat /\ safe[g] <= writes[g] + 1
        BY <1>0
      <3> QED
        BY <1>0, <2>1, <3>1, NewerKeeps
    <2>4. \A f \in Files : directory'.at[f].n \in Nat /\ directory'.at[f].n <= writes'[f]
      BY <1>0, <2>1, <2>2 DEF Replaced, Written
    <2>5. /\ \A f \in Files : safe'[f] <= writes'[f]
          /\ \A d \in possible' : \A f \in Files : d.at[f].n \in Nat /\ d.at[f].n <= writes'[f]
      BY <1>0, <2>1, <2>2, <2>4
    <2> QED
      BY <1>0, <1>k, <2>1, <2>2, <2>3, <2>5
  <1>4. ASSUME NEW p \in Processes, Goes(p), At(p).do = "sync-directory",
               Acknowledge(At(p).file, mem[p].wrote)
        PROVE  CountsInv' /\ \A d \in possible' : \A f \in Files : Keeps(d, f)'
    <2>g. PICK g : g = At(p).file
      OBVIOUS
    <2>n. PICK n : n = mem[p].wrote
      OBVIOUS
    <2>1. /\ g \in Files /\ n \in Nat /\ n <= writes[g]
          /\ spoiled[g] >= n \/ HasWrite(directory, g, n)
      BY <1>4, <2>g, <2>n DEF KeptInv, Pending, Writes
    <2>2. /\ UNCHANGED <<writes, spoiled>> /\ directory' = directory /\ possible' = {directory}
          /\ safe' = [safe EXCEPT ![g] = IF safe[g] > n \/ spoiled[g] >= n THEN safe[g] ELSE n]
      BY <1>0, <1>4, <2>g, <2>n, StorageEffects
    <2>3. safe'[g] = safe[g] \/ (safe'[g] = n /\ HasWrite(directory, g, n))
      BY <1>0, <2>1, <2>2
    <2>4. safe' \in [Files -> Nat] /\ \A f \in Files : f # g => safe'[f] = safe[f]
      BY <1>0, <2>1, <2>2
    <2>5. /\ \A f \in Files : safe'[f] <= writes[f]
          /\ \A f \in Files : safe'[f] = 0 \/ HasWrite(directory, f, safe'[f])
      BY <1>0, <2>1, <2>3, <2>4
    <2> QED
      BY <1>0, <1>k, <2>2, <2>4, <2>5
  <1>5. ASSUME NEW g \in Files, Spoil(g)
        PROVE  CountsInv' /\ \A d \in possible' : \A f \in Files : Keeps(d, f)'
    <2>1. /\ UNCHANGED writes /\ possible' = {directory'} /\ IsLoaded(directory.at[g])
          /\ Replaced(directory, directory', g, Damaged(directory.at[g].n))
          /\ safe' = [safe EXCEPT ![g] = 0]
          /\ spoiled' = [spoiled EXCEPT ![g] = directory.at[g].n]
      BY <1>0, <1>5, StorageEffects
    <2>2. /\ safe' \in [Files -> Nat] /\ spoiled' \in [Files -> Nat]
          /\ \A f \in Files : f # g => safe'[f] = safe[f]
          /\ safe'[g] = 0
      BY <1>0, <2>1
    <2>3. \A f \in Files : safe'[f] = 0 \/ HasWrite(directory', f, safe'[f])
      BY <1>0, <2>1, <2>2, SpoiledKeeps
    <2>4. \A f \in Files : directory'.at[f].n \in Nat /\ directory'.at[f].n <= writes[f]
      BY <1>0, <2>1 DEF Replaced, Damaged
    <2>5. \A f \in Files : safe'[f] <= writes[f]
      BY <1>0, <2>2
    <2> QED
      BY <1>0, <1>k, <2>1, <2>2, <2>3, <2>4, <2>5
  <1>6. CASE PowerLoss
    <2>1. directory' \in possible /\ possible' = {directory'} /\ UNCHANGED <<writes, safe, spoiled>>
      BY <1>6 DEF PowerLoss
    <2> QED
      BY <1>0, <1>k, <2>1
  <1> QED
    BY <1>1, <1>2, <1>3, <1>4, <1>5, <1>6 DEF StorageSteps

\* A file that is whole stays the last that was written while anybody works.
LEMMA NewestStays ==
  ASSUME ContentInv, KeptInv, StorageSteps, \E p \in Processes : Goes(p),
         \E p \in Processes : todo'[p] # <<>>
  PROVE  \A f \in Files : IsLoaded(directory'.at[f]) => directory'.at[f].n = writes'[f]
  <1>0. /\ Shaped(directory) /\ writes \in [Files -> Nat]
        /\ \A g \in Files : IsLoaded(directory.at[g]) => directory.at[g].n = writes[g]
    BY DEF ContentInv, KeptInv, CountsInv, Newest
  <1>1. CASE UNCHANGED storageVars
    BY <1>0, <1>1 DEF storageVars
  <1>2. ASSUME NEW g, SetAside(g)
        PROVE  \A f \in Files : IsLoaded(directory'.at[f]) => directory'.at[f].n = writes'[f]
    <2>1. UNCHANGED writes /\ Replaced(directory, directory', g, Missing)
      BY <1>0, <1>2, StorageEffects
    <2> QED
      BY <1>0, <2>1 DEF Replaced, Missing, IsLoaded
  <1>3. ASSUME NEW p \in Processes, Persist(At(p).file, mem[p].data, TRUE)
        PROVE  \A f \in Files : IsLoaded(directory'.at[f]) => directory'.at[f].n = writes'[f]
    <2>g. PICK g : g = At(p).file
      OBVIOUS
    <2>1. /\ Replaced(directory, directory', g, Written(writes[g] + 1, mem[p].data))
          /\ writes' = [writes EXCEPT ![g] = writes[g] + 1]
      BY <1>0, <1>3, <2>g, StorageEffects
    <2> QED
      BY <1>0, <2>1 DEF Replaced, Written
  <1>4. ASSUME NEW p \in Processes, Acknowledge(At(p).file, mem[p].wrote)
        PROVE  \A f \in Files : IsLoaded(directory'.at[f]) => directory'.at[f].n = writes'[f]
    BY <1>0, <1>4, StorageEffects
  <1>5. ASSUME NEW g \in Files, Spoil(g)
        PROVE  \A f \in Files : IsLoaded(directory'.at[f]) => directory'.at[f].n = writes'[f]
    <2>1. UNCHANGED writes /\ Replaced(directory, directory', g, Damaged(directory.at[g].n))
      BY <1>0, <1>5, StorageEffects
    <2> QED
      BY <1>0, <2>1 DEF Replaced, Damaged, IsLoaded
  <1> QED
    BY <1>1, <1>2, <1>3, <1>4, <1>5 DEF StorageSteps

\* What a process has written stays until it acknowledges it.
LEMMA PendingKept ==
  ASSUME PlanInv, ContentInv, KeptInv, [Next]_vars, NEW q \in Processes PROVE Pending(q)'
  <1> SUFFICES ASSUME todo'[q] # <<>>, Head(todo'[q]).do = "sync-directory"
               PROVE  LET f == Head(todo'[q]).file IN
                        /\ mem'[q].wrote \in Nat /\ mem'[q].wrote <= writes'[f] /\ f \in Files
                        /\ spoiled'[f] >= mem'[q].wrote \/ HasWrite(directory', f, mem'[q].wrote)
    BY DEF Pending, Writes, Goes, At, HasWrite
  <1>1. StorageSteps /\ Goes(q) /\ writes \in [Files -> Nat]
    BY StorageMoves, GoesBefore DEF KeptInv, CountsInv
  <1>2. CASE Rests(q)
    <2>1. /\ At(q).do = "sync-directory" /\ Head(todo'[q]) = At(q) /\ mem'[q] = mem[q]
      BY <1>2 DEF Rests, At
    <2>2. /\ mem[q].wrote \in Nat /\ mem[q].wrote <= writes[At(q).file] /\ At(q).file \in Files
          /\ \/ spoiled[At(q).file] >= mem[q].wrote
             \/ HasWrite(directory, At(q).file, mem[q].wrote)
      BY <1>1, <2>1 DEF KeptInv, Pending, Writes
    <2> QED
      BY <1>1, <2>1, <2>2, PendingStays
  <1>3. CASE Acts(q)
    <2>1. At(q).do = "rename" /\ At(q).file = Head(todo'[q]).file
      BY <1>3, WritingArrivals DEF Acts
    <2>2. RenameFile(q)
      BY <1>3, <2>1, WritingSteps DEF Acts
    <2>f. PICK f \in Files : f = At(q).file
      BY <1>1, <2>1 DEF ContentInv, Holding, Writes
    <2>3. mem'[q].wrote = writes[f] + 1 /\ Persist(f, mem[q].data, TRUE)
      BY <2>2, <2>f, RenameWrites
    <2>4. /\ Replaced(directory, directory', f, Written(writes[f] + 1, mem[q].data))
          /\ writes' = [writes EXCEPT ![f] = writes[f] + 1]
      BY <2>3, StorageEffects DEF ContentInv
    <2>5. HasWrite(directory', f, writes[f] + 1)
      BY <1>1, <2>4 DEF HasWrite, Replaced, Written, IsLoaded
    <2> QED
      BY <1>1, <2>1, <2>3, <2>4, <2>5, <2>f
  <1>4. CASE Built(q)
    <2>1. At(q).do \in {"assemble", "clean", "test"} /\ Shape(q)
      BY <1>4 DEF Built, Waited, PlanInv, Building
    <2> QED
      BY <2>1, WritingArrivals
  <1> QED
    BY <1>2, <1>3, <1>4, NextSteps DEF Seen, Dies

\* When the commands begin, nothing has been acknowledged.
LEMMA KeptFirst == ASSUME Init PROVE KeptInv
  <1>1. PICK session \in Sessions : StorageInit(InitialFiles(session))
    BY Beginning
  <1>s. PICK initial : initial = InitialFiles(session)
    OBVIOUS
  <1>2. /\ directory = [at |-> initial, aside |-> {}] /\ possible = {directory}
        /\ writes = [f \in Files |-> 1] /\ safe = [f \in Files |-> 0]
        /\ spoiled = [f \in Files |-> 0]
    BY <1>1, <1>s DEF StorageInit
  <1>3. directory.at = initial
    BY <1>2
  <1>4. ASSUME NEW f \in Files
        PROVE  /\ initial[f].n \in Nat /\ initial[f].n <= 1
               /\ (IsLoaded(initial[f]) => initial[f].n = 1)
    <2>1. CASE initial[f] = Missing
      BY <2>1 DEF Missing, IsLoaded
    <2>2. ASSUME NEW data, initial[f] = Written(1, data) PROVE initial[f].n = 1
      BY <2>2 DEF Written
    <2> QED
      BY <1>s, <2>1, <2>2, StoredFirst
  <1>5. ASSUME NEW p \in Processes PROVE Pending(p)
    BY Beginning DEF Pending, Writes
  <1> QED
    BY <1>2, <1>3, <1>4, <1>5 DEF KeptInv, CountsInv, Newest, Keeps

\* Every directory that a power loss may bring back has what was acknowledged; what is
\* written and not acknowledged yet is in the present one.
THEOREM WritesAreKept == Spec => []KeptInv
  <1>1. PlanInv /\ ContentInv /\ KeptInv /\ [Next]_vars => KeptInv'
    <2> SUFFICES ASSUME PlanInv, ContentInv, KeptInv, [Next]_vars PROVE KeptInv'
      OBVIOUS
    <2>1. StorageSteps
      BY StorageMoves
    <2>2. CountsInv' /\ \A d \in possible' : \A f \in Files : Keeps(d, f)'
      BY <2>1, KeptStays
    <2>3. \A q \in Processes : Pending(q)'
      BY PendingKept
    <2>4. ASSUME NEW p \in Processes, todo'[p] # <<>>
          PROVE  \A f \in Files : IsLoaded(directory'.at[f]) => directory'.at[f].n = writes'[f]
      BY <2>1, <2>4, GoesBefore, NewestStays
    <2> QED
      BY <2>2, <2>3, <2>4 DEF KeptInv, Newest, Goes, Keeps
  <1> QED
    BY <1>1, KeptFirst, PlansAreKept, ContentsAreKept, PTL DEF Spec

\* A write whose command went on after it is kept through crashes, power losses, other
\* commands' writes and their handling of damaged files.
THEOREM AcknowledgedIsKept == Spec => []NothingAcknowledgedIsLost
  <1>1. ContentInv /\ KeptInv => NothingAcknowledgedIsLost
    BY DEF ContentInv, KeptInv, NothingAcknowledgedIsLost
  <1> QED
    BY <1>1, ContentsAreKept, WritesAreKept, PTL

-----------------------------------------------------------------------------
(***************************************************************************)
(* Trust in the project's commands.                                        *)
(***************************************************************************)
Permitted(p) == mem[p].asked \/ mem[p].readFor \in consents

Trusting(p) ==
  /\ mem[p].trusted => mem[p].readFor \in consents
  /\ mem[p].decision = "project" => mem[p].asked
  /\ mem[p].decision = "once" /\ request[p].interactive => Permitted(p)
  /\ mem[p].ran => mem[p].asked \/ mem[p].ranFor \in consents
  /\ \/ Writes(p, {"working-directory", "run"})
     \/ Writes(p, Writing) /\ At(p).file = "trust"
     => Permitted(p)

TrustInv == \A p \in Processes : Trusting(p)

\* Where a process comes from that is about to run a command, or to store its trust.
LEMMA TrustArrivals ==
  ASSUME NEW p \in Processes, Shape(p), NEW b, todo'[p] # <<>>, Head(todo'[p]) = b
  PROVE  /\ b.do = "run" => At(p).do = "working-directory"
         /\ b.do = "working-directory" =>
              \/ At(p).do = "decide" /\ GoesOn(p)
              \/ At(p).do = "sync-directory" /\ At(p).file = "trust"
  <1>1. CASE GoesOn(p) /\ (At(p).do = "set-aside" => At(p).exit = Unnoticed)
    BY <1>1 DEF GoesOn, Precedes
  <1>2. CASE FallsOut(p)
    BY <1>2 DEF FallsOut
  <1>3. CASE Stays(p) /\ At(p).do \in {"assemble", "clean", "test", "boot"}
    BY <1>3 DEF Stays, At
  <1>4. CASE \E a : TurnsTo(p, a) /\ TurnedAs(p, a)
    BY <1>4 DEF TurnsTo, TurnedAs
  <1> QED
    BY <1>1, <1>2, <1>3, <1>4 DEF Shape

\* Whoever is asked answers; whoever is not asked trusts the project or cannot be asked.
LEMMA AskAsks ==
  ASSUME PlanInv, NEW p \in Processes, Ask(p)
  PROVE  \/ mem'[p].asked
         \/ mem'[p].decision = "cancel" /\ (mem[p].asked => mem'[p].asked)
         \/ /\ mem'[p].decision = "once" /\ mem'[p].asked = mem[p].asked
            /\ mem[p].trusted \/ ~ request[p].interactive
  <1>1. Doing(p, {"ask"})
    BY DEF Ask
  <1>2. DOMAIN mem[p] = Fields
    BY <1>1, WaysAt
  <1>3. CASE ~ mem[p].trusted /\ request[p].interactive
    <2>1. PICK answer :
            Moves(p, [mem[p] EXCEPT !.decision = answer, !.asked = @ \/ answer # "cancel"])
      BY <1>3, Zenon DEF Ask
    <2>m. PICK m :
            m = [mem[p] EXCEPT !.decision = answer, !.asked = @ \/ answer # "cancel"]
      OBVIOUS
    <2>2. /\ DOMAIN m = Fields /\ m.decision = answer
          /\ m.asked = (mem[p].asked \/ answer # "cancel")
      BY <1>2, <2>m DEF Fields
    <2> QED
      <3>1. Moves(p, m)
        BY <2>1, <2>m, Zenon
      <3>2. Passes(p, m)
        BY <1>1, <2>2, <3>1, WaysAt
      <3> QED
        BY <2>2, <3>2 DEF Passes
  <1>4. CASE ~ (~ mem[p].trusted /\ request[p].interactive)
    <2>1. Moves(p, [mem[p] EXCEPT !.decision = "once"])
      BY <1>4, Zenon DEF Ask
    <2>m. PICK m : m = [mem[p] EXCEPT !.decision = "once"]
      OBVIOUS
    <2>2. DOMAIN m = Fields /\ m.decision = "once" /\ m.asked = mem[p].asked
      BY <1>2, <2>m DEF Fields
    <2> QED
      <3>1. Passes(p, m)
        BY <1>1, <2>1, <2>2, <2>m, WaysAt
      <3> QED
        BY <1>4, <2>2, <3>1 DEF Passes
  <1> QED
    BY <1>3, <1>4

\* The command goes on to run only for a project that is trusted, or once.
LEMMA DecideDecides ==
  ASSUME PlanInv, NEW p \in Processes, Decide(p), todo'[p] # <<>>,
         Head(todo'[p]).do = "working-directory"
  PROVE  mem[p].trusted \/ (request[p].interactive /\ mem[p].decision = "once")
  <1>1. Doing(p, {"decide"})
    BY DEF Decide
  <1>2. /\ DOMAIN mem[p] = Fields /\ At(p).do = "decide"
        /\ exit[p] = "running" /\ request' = request
    BY <1>1, WaysAt
  <1>d. PICK d : d = [mem[p] EXCEPT !.decision = "none", !.previewed = {}]
    OBVIOUS
  <1>m. PICK m : m = [d EXCEPT !.data = remote]
    OBVIOUS
  <1>3. DOMAIN m = Fields
    BY <1>2, <1>d, <1>m
  <1>4. \/ Inserts(p, Write("trust", "InvalidUsage"), m)
        \/ Moves(p, d) /\ (mem[p].trusted
               \/ (request[p].interactive /\ mem[p].decision = "once"))
        \/ Fails(p)
    BY <1>d, <1>m, Zenon DEF Decide, Checks
  <1>5. ~ Fails(p)
    <2>1. Fails(p) => FallsOut(p)
      BY <1>1, WaysAt DEF Drops
    <2> QED
      BY <2>1 DEF FallsOut
  <1>6. ~ Inserts(p, Write("trust", "InvalidUsage"), m)
    <2>1. Inserts(p, Write("trust", "InvalidUsage"), m) => Turns(p, m)
      BY <1>2, <1>3, TurningWays
    <2> QED
      BY <1>2, <2>1 DEF Turns, TurnsTo, TurnedAs
  <1> QED
    BY <1>4, <1>5, <1>6

\* The question asked before a release or a user's data is touched.
LEMMA ConfirmAsks ==
  ASSUME PlanInv, NEW p \in Processes, Confirm(p)
  PROVE  /\ mem[p].asked => mem'[p].asked
         /\ \/ FallsOut(p)
            \/ mem'[p].asked
            \/ ~ ((IsDestructive(request[p].command) \/ NeedsConfirmation(Choice(p), request[p]))
                    /\ ~ request[p].yes)
  <1>1. Doing(p, {"confirm"})
    BY DEF Confirm
  <1>2. DOMAIN mem[p] = Fields
    BY <1>1, WaysAt
  <1>m. PICK m : m = [mem[p] EXCEPT !.asked = TRUE]
    OBVIOUS
  <1>3. DOMAIN m = Fields /\ m.asked
    BY <1>2, <1>m DEF Fields
  <1>4. \/ Moves(p, m)
        \/ Fails(p)
        \/ /\ Moves(p, mem[p])
           /\ ~ ((IsDestructive(request[p].command) \/ NeedsConfirmation(Choice(p), request[p]))
                   /\ ~ request[p].yes)
    BY <1>m, Zenon DEF Confirm
  <1> QED
    BY <1>1, <1>3, <1>4, WaysAt DEF Passes, Drops

\* A command runs for the remote that was read last.
LEMMA RunCommandRuns ==
  ASSUME PlanInv, NEW p \in Processes, RunCommand(p)
  PROVE  \/ mem'[p].ran = mem[p].ran /\ mem'[p].ranFor = mem[p].ranFor
         \/ mem'[p].ranFor = mem[p].readFor
  <1>1. Doing(p, {"run"})
    BY DEF RunCommand
  <1>2. DOMAIN mem[p] = Fields
    BY <1>1, WaysAt
  <1>m. PICK m : m = [mem[p] EXCEPT !.ran = TRUE, !.ranFor = mem[p].readFor]
    OBVIOUS
  <1>3. Moves(p, m) \/ FailsWith(p, At(p).exit, m) \/ FailsWith(p, "InvalidUsage", mem[p])
    BY <1>m, Zenon DEF RunCommand, At
  <1>4. DOMAIN m = Fields /\ m.ranFor = mem[p].readFor
    BY <1>2, <1>m DEF Fields
  <1> QED
    BY <1>1, <1>2, <1>3, <1>4, WaysAt DEF Passes, Drops

\* What a step may change of these answers.
LEMMA TrustSteps ==
  ASSUME PlanInv, NEW p \in Processes, StepIs(p)
  PROVE  /\ At(p).do = "ask" => /\ Ask(p) /\ mem'[p].trusted = mem[p].trusted
                                /\ mem'[p].readFor = mem[p].readFor
         /\ At(p).do \notin {"ask", "decide"} => mem'[p].decision = mem[p].decision
         /\ At(p).do = "decide" => Decide(p)
         /\ At(p).do # "ask" => (mem[p].asked => mem'[p].asked)
         /\ At(p).do = "trust" => ReadTrust(p)
         /\ At(p).do # "trust" => /\ mem'[p].trusted = mem[p].trusted
                                  /\ mem'[p].readFor = mem[p].readFor
         /\ At(p).do = "run" => RunCommand(p)
         /\ At(p).do # "run" => mem'[p].ran = mem[p].ran /\ mem'[p].ranFor = mem[p].ranFor
         /\ At(p).do = "working-directory" => mem'[p] = mem[p]
  <1>1. \/ At(p).do = "ask" /\ Ask(p) /\ Changes(p, {"decision", "asked"})
        \/ At(p).do = "trust" /\ ReadTrust(p) /\ Changes(p, {"trusted", "readFor", "previewed"})
        \/ At(p).do = "confirm" /\ Confirm(p) /\ Changes(p, {"asked"})
        \/ At(p).do = "run" /\ RunCommand(p) /\ Changes(p, {"ran", "ranFor"})
        \/ At(p).do = "decide" /\ Decide(p) /\ Changes(p, {"data", "decision", "previewed"})
        \/ /\ At(p).do \notin {"ask", "trust", "confirm", "run", "decide"}
           /\ mem'[p].decision = mem[p].decision /\ mem'[p].asked = mem[p].asked
           /\ mem'[p].trusted = mem[p].trusted /\ mem'[p].readFor = mem[p].readFor
           /\ mem'[p].ran = mem[p].ran /\ mem'[p].ranFor = mem[p].ranFor
    BY DEF StepIs, Changes, Fields, Idle
  <1>2. At(p).do = "working-directory" => mem'[p] = mem[p]
    BY DEF StepIs
  <1>3. Confirm(p) => (mem[p].asked => mem'[p].asked)
    BY ConfirmAsks
  <1> QED
    BY <1>1, <1>2, <1>3 DEF Changes, Fields

\* A reading between the preview and the decision is for the remote of the preview; a trust
\* that is found is one the user has given.
LEMMA ReadingsAgree ==
  ASSUME PlanInv, PreviewInv, ContentInv, ~RemoteAnyTime, NEW p \in Processes, ReadTrust(p)
  PROVE  /\ mem[p].decision # "none" => mem'[p].readFor = mem[p].readFor
         /\ \/ mem'[p].trusted = mem[p].trusted /\ mem'[p].readFor = mem[p].readFor
            \/ mem'[p].trusted => mem'[p].readFor \in consents
         /\ mem'[p].asked = mem[p].asked
         /\ At(p).do = "trust" /\ (todo'[p] # <<>> =>
              Head(todo'[p]).do \notin {"working-directory", "run"} \cup Writing)
  <1>1. Doing(p, {"trust"}) /\ Shape(p) /\ Changes(p, {"trusted", "readFor", "previewed"})
    BY OtherSteps DEF ReadTrust
  <1>2. At(p).do = "trust" /\ exit[p] = "running"
    BY <1>1, WaysAt
  <1>3. mem[p].decision # "none" => mem[p].readFor = remote
    BY <1>2 DEF PreviewInv, Previewed
  <1>4. IsTrusted => remote \in consents
    BY InvocationsAssumption DEF IsTrusted, ContentInv, Fits
  <1>5. mem'[p].asked = mem[p].asked
    BY <1>1 DEF Changes, Fields
  <1>6. todo'[p] # <<>> => Head(todo'[p]).do \notin {"working-directory", "run"} \cup Writing
    BY <1>1, <1>2, TrustArrivals, WritingArrivals DEF Writing
  <1> QED
    BY <1>2, <1>3, <1>4, <1>5, <1>6, ReadTrustReads

\* Every step keeps what a process may run.
LEMMA TrustKept ==
  ASSUME PlanInv, PreviewInv, ContentInv, TrustInv, ~RemoteAnyTime, [Next]_vars,
         NEW q \in Processes
  PROVE  Trusting(q)'
  <1>1. Trusting(q) /\ consents \subseteq consents' /\ request' = request
    BY StorageMoves, NextSteps DEF TrustInv, Seen
  <1>2. CASE Rests(q)
    BY <1>1, <1>2 DEF Rests, Trusting, Permitted, Writes, Goes, At
  <1>3. CASE Dies(q)
    BY <1>1, <1>3 DEF Dies, Trusting, Permitted, Writes, Goes
  <1>4. CASE Built(q)
    <2>1. At(q).do \in {"assemble", "clean", "test"} /\ Shape(q) /\ Changes(q, {"passed"})
      BY <1>4 DEF Built, Waited, PlanInv, Building
    <2>2. /\ mem'[q].decision = mem[q].decision /\ mem'[q].asked = mem[q].asked
          /\ mem'[q].trusted = mem[q].trusted /\ mem'[q].readFor = mem[q].readFor
          /\ mem'[q].ran = mem[q].ran /\ mem'[q].ranFor = mem[q].ranFor
      BY <2>1 DEF Changes, Fields
    <2>3. ASSUME todo'[q] # <<>>
          PROVE  Head(todo'[q]).do \notin {"working-directory", "run"} \cup Writing
      BY <2>1, <2>3, TrustArrivals, WritingArrivals DEF Writing
    <2> QED
      BY <1>1, <2>2, <2>3 DEF Trusting, Permitted, Writes, Goes, At
  <1>5. CASE Acts(q)
    <2>1. Shape(q) /\ StepIs(q) /\ Goes(q)
      BY <1>5 DEF Acts, Shape, Turned, Goes
    <2>a. mem[q].asked => mem'[q].asked
      BY <2>1, AskAsks, TrustSteps
    <2>2. mem'[q].readFor = mem[q].readFor /\ Permitted(q) => Permitted(q)'
      BY <1>1, <2>a DEF Permitted
    <2>3. mem'[q].trusted => mem'[q].readFor \in consents'
      <3>1. CASE At(q).do = "trust"
        BY <1>1, <2>1, <3>1, ReadingsAgree, TrustSteps DEF Trusting
      <3>2. CASE At(q).do # "trust"
        BY <1>1, <2>1, <3>2, TrustSteps DEF Trusting
      <3> QED
        BY <3>1, <3>2
    <2>4. /\ mem'[q].decision = "project" => mem'[q].asked
          /\ mem'[q].decision = "once" /\ request[q].interactive => Permitted(q)'
      <3>1. CASE At(q).do = "ask"
        BY <1>1, <2>1, <3>1, AskAsks, TrustSteps DEF Permitted, Trusting
      <3>2. CASE At(q).do = "trust"
        <4>1. ReadTrust(q) /\ mem'[q].decision = mem[q].decision
          BY <2>1, <3>2, TrustSteps
        <4> QED
          BY <1>1, <2>a, <2>2, <4>1, ReadingsAgree DEF Trusting
      <3>3. CASE At(q).do = "decide"
        <4>1. mem'[q] = mem[q] \/ mem'[q].decision = "none"
          BY <2>1, <3>3, DecideUsesUp, TrustSteps
        <4> QED
          BY <1>1, <2>2, <4>1 DEF Trusting
      <3>4. CASE At(q).do \notin {"ask", "trust", "decide"}
        BY <1>1, <2>1, <2>a, <2>2, <3>4, TrustSteps DEF Trusting
      <3> QED
        BY <3>1, <3>2, <3>3, <3>4
    <2>5. mem'[q].ran => mem'[q].asked \/ mem'[q].ranFor \in consents'
      <3>1. CASE At(q).do = "run"
        BY <1>1, <2>1, <2>a, <3>1, RunCommandRuns, TrustSteps DEF Trusting, Permitted, Writes
      <3>2. CASE At(q).do # "run"
        BY <1>1, <2>1, <2>a, <3>2, TrustSteps DEF Trusting
      <3> QED
        BY <3>1, <3>2
    <2>6. ASSUME todo'[q] # <<>>,
                 \/ Head(todo'[q]).do \in {"working-directory", "run"}
                 \/ Head(todo'[q]).do \in Writing /\ Head(todo'[q]).file = "trust"
          PROVE  Permitted(q)'
      <3>b. PICK b : b = Head(todo'[q])
        OBVIOUS
      <3>1. CASE \/ At(q).do = "working-directory"
                 \/ At(q).do \in Writing /\ At(q).file = "trust"
        <4>1. mem'[q].readFor = mem[q].readFor
          BY <2>1, <3>1, TrustSteps DEF Writing
        <4> QED
          BY <1>1, <2>1, <2>2, <3>1, <4>1 DEF Trusting, Writes
      <3>2. CASE At(q).do = "decide" /\ b.do = "temporary"
        <4>1. mem[q].asked
          BY <1>1, <2>1, <2>6, <3>2, <3>b, DecideWrites, WritingSteps DEF Trusting
        <4> QED
          BY <2>a, <4>1 DEF Permitted
      <3>3. CASE At(q).do = "decide" /\ b.do = "working-directory"
        <4>1. mem[q].trusted \/ (request[q].interactive /\ mem[q].decision = "once")
          BY <2>1, <2>6, <3>3, <3>b, DecideDecides, WritingSteps
        <4>2. mem'[q].readFor = mem[q].readFor
          BY <2>1, <3>3, TrustSteps
        <4> QED
          BY <1>1, <2>2, <4>1, <4>2 DEF Permitted, Trusting
      <3> QED
        BY <2>1, <2>6, <3>1, <3>2, <3>3, <3>b, TrustArrivals, WritingArrivals DEF Writing
    <2> QED
      BY <1>1, <2>3, <2>4, <2>5, <2>6 DEF Trusting, Writes, Goes, At
  <1> QED
    BY <1>2, <1>3, <1>4, <1>5, NextSteps DEF Seen

\* A process that trusts, decides or runs was permitted to, where no remote is changed
\* between a preview and the decision.
THEOREM TrustIsKept == ASSUME ~RemoteAnyTime PROVE Spec => []TrustInv
  <1>1. Init => TrustInv
    <2> SUFFICES ASSUME Init, NEW p \in Processes PROVE Trusting(p)
      BY DEF TrustInv
    <2>1. /\ At(p).do = "validate" /\ mem[p].trusted = FALSE /\ mem[p].ran = FALSE
          /\ mem[p].decision = "none"
      BY Beginning DEF InitialMem
    <2> QED
      BY <2>1 DEF Trusting, Writes, Writing
  <1>2. PlanInv /\ PreviewInv /\ ContentInv /\ TrustInv /\ [Next]_vars => TrustInv'
    BY TrustKept DEF TrustInv
  <1> QED
    BY <1>1, <1>2, PlansAreKept, PreviewsAreKept, ContentsAreKept, PTL DEF Spec

\* Where no remote is changed between a command's preview and its decision, a custom command
\* runs when its user was asked and agreed, or had agreed to trust the project with the very
\* Git remote the command read last before it ran, however many commands run, store trust and
\* find the trust file damaged at once.
THEOREM CommandsAreTrusted == ASSUME ~RemoteAnyTime PROVE Spec => []TrustedOrAsked
  <1>1. TrustInv => TrustedOrAsked
    BY DEF TrustInv, Trusting, TrustedOrAsked
  <1> QED
    BY <1>1, TrustIsKept, PTL

-----------------------------------------------------------------------------
(***************************************************************************)
(* What is chosen, and what is touched.                                    *)
(***************************************************************************)
Confirmed(p) ==
  \/ IsDestructive(request[p].command)
  \/ mem[p].chosen # {} /\ NeedsConfirmation(Choice(p), request[p])
  => request[p].yes \/ mem[p].asked

Touched(p) ==
  /\ mem[p].destroyed => request[p].yes \/ mem[p].asked
  /\ Writes(p, Touching) => Confirmed(p)
  /\ Writes(p, {"spawn"}) => (request[p].wipe => request[p].yes)

TouchInv == \A p \in Processes : Touched(p)

\* Where a process comes from that touches a device or a release.
LEMMA TouchArrivals ==
  ASSUME NEW p \in Processes, Shape(p), NEW b, todo'[p] # <<>>, Head(todo'[p]) = b
  PROVE  /\ b.do \in Touching => At(p).do \in Touching \/ (At(p).do = "confirm" /\ ~ FallsOut(p))
         /\ b.do = "spawn" => At(p).do = "wipe" /\ ~ FallsOut(p)
  <1>0. b.do \in Touching \cup {"spawn"} => ~ FallsOut(p)
    BY DEF FallsOut, Touching
  <1>1. CASE GoesOn(p) /\ (At(p).do = "set-aside" => At(p).exit = Unnoticed)
    BY <1>0, <1>1 DEF GoesOn, Precedes
  <1>2. CASE FallsOut(p)
    BY <1>0, <1>2
  <1>3. CASE Stays(p) /\ At(p).do \in {"assemble", "clean", "test", "boot"}
    BY <1>3 DEF Stays, At, Touching
  <1>4. CASE \E a : TurnsTo(p, a) /\ TurnedAs(p, a)
    BY <1>4 DEF TurnsTo, TurnedAs, Touching
  <1> QED
    BY <1>1, <1>2, <1>3, <1>4 DEF Shape

\* An emulator is wiped on request, and on request only with --yes.
LEMMA WipeChecks ==
  ASSUME PlanInv, NEW p \in Processes, CheckEmulator(p), At(p).do = "wipe", ~ FallsOut(p)
  PROVE  request[p].wipe => request[p].yes
  <1>1. Doing(p, {"not-running", "running", "wipe"})
    BY DEF CheckEmulator
  <1>2. Fails(p) => FallsOut(p)
    BY <1>1, WaysAt DEF Drops
  <1>s. PICK s : s = At(p).do
    OBVIOUS
  <1>3. PICK n : \/ CASE s = "not-running" -> n = 0
                      [] s = "running"     -> n = 1
                      [] s = "wipe"        -> request[p].wipe => request[p].yes
                 \/ Fails(p)
    BY <1>s, Zenon DEF CheckEmulator, Checks, At
  <1> QED
    BY <1>2, <1>3, <1>s

\* An emulator is started with its data wiped if that was requested.
LEMMA RemoveDestroys ==
  ASSUME PlanInv, NEW p \in Processes, SpawnEmulator(p)
  PROVE  mem'[p].destroyed \in {mem[p].destroyed, request[p].wipe}
  <1>1. Doing(p, {"spawn"})
    BY DEF SpawnEmulator
  <1>2. DOMAIN mem[p] = Fields
    BY <1>1, WaysAt
  <1>m. PICK m : m = [mem[p] EXCEPT !.destroyed = request[p].wipe]
    OBVIOUS
  <1>3. DOMAIN m = Fields /\ m.destroyed = request[p].wipe
    BY <1>2, <1>m DEF Fields
  <1>4. Moves(p, m) \/ Fails(p)
    BY <1>m, Zenon DEF SpawnEmulator
  <1> QED
    BY <1>1, <1>3, <1>4, WaysAt DEF Passes, Drops

\* What a step may change of these answers.
LEMMA TouchSteps ==
  ASSUME PlanInv, NEW p \in Processes, Steps(p), StepIs(p)
  PROVE  /\ mem[p].asked => mem'[p].asked
         /\ At(p).do = "confirm" => Confirm(p) /\ mem'[p].chosen = mem[p].chosen
         /\ At(p).do \in Touching => mem'[p].chosen = mem[p].chosen
         /\ At(p).do = "wipe" => CheckEmulator(p)
         /\ \/ mem'[p].destroyed = mem[p].destroyed
            \/ At(p).do \in {"uninstall", "clear"}
            \/ At(p).do = "spawn" /\ SpawnEmulator(p)
  <1>1. \/ At(p).do = "ask" /\ Ask(p) /\ mem'[p].destroyed = mem[p].destroyed
        \/ At(p).do = "confirm" /\ Confirm(p) /\ mem'[p].destroyed = mem[p].destroyed
             /\ mem'[p].chosen = mem[p].chosen
        \/ /\ At(p).do \notin {"ask", "confirm"}
           /\ mem'[p].asked = mem[p].asked
           /\ At(p).do = "profile" \/ mem'[p].chosen = mem[p].chosen
           /\ \/ mem'[p].destroyed = mem[p].destroyed
              \/ At(p).do \in {"uninstall", "clear"}
              \/ At(p).do = "spawn" /\ SpawnEmulator(p)
    BY DEF StepIs, Changes, Fields, Idle
  <1>2. Confirm(p) => (mem[p].asked => mem'[p].asked)
    BY ConfirmAsks
  <1>3. Ask(p) => (mem[p].asked => mem'[p].asked)
    BY AskAsks
  <1>4. At(p).do = "wipe" => CheckEmulator(p)
    BY AroundSteps DEF Around
  <1> QED
    BY <1>1, <1>2, <1>3, <1>4 DEF Touching

\* A process that takes a step has a stage to do, one that is possible for its command.
LEMMA ShapeGoes ==
  ASSUME PlanInv, NEW p \in Processes, Shape(p) PROVE Goes(p) /\ Possible(request[p], At(p))
  <1>1. Plan(request[p], todo[p]) /\ Goes(p)
    BY DEF Shape, Turned, PlanInv, Planned, PlannedAs, Goes
  <1> QED
    BY <1>1, PlanTail DEF Goes, At

\* Every step keeps what was confirmed.
LEMMA TouchKept ==
  ASSUME PlanInv, TouchInv, [Next]_vars, NEW q \in Processes PROVE Touched(q)'
  <1>1. Touched(q) /\ request' = request
    BY NextSteps DEF TouchInv, Seen
  <1>c. mem'[q].chosen = mem[q].chosen => Choice(q)' = Choice(q)
    BY DEF Choice
  <1>2. CASE Rests(q)
    BY <1>1, <1>2, <1>c DEF Rests, Touched, Confirmed, Writes, Goes, At
  <1>3. CASE Dies(q)
    BY <1>1, <1>3 DEF Dies, Touched, Writes, Goes
  <1>4. ASSUME Shape(q),
               \/ Acts(q)
               \/ /\ At(q).do \in {"assemble", "clean", "test"} /\ mem'[q].chosen = mem[q].chosen
                  /\ mem'[q].asked = mem[q].asked /\ mem'[q].destroyed = mem[q].destroyed
        PROVE  Touched(q)'
    <2>b. PICK b : b = Head(todo'[q])
      OBVIOUS
    <2>1. Goes(q) /\ Possible(request[q], At(q))
      BY <1>4, ShapeGoes
    <2>2. Acts(q) => Steps(q) /\ StepIs(q)
      BY DEF Acts
    <2>3. /\ mem[q].asked => mem'[q].asked
          /\ At(q).do \in Touching => mem'[q].chosen = mem[q].chosen
      BY <1>4, <2>2, TouchSteps
    <2>4. mem'[q].destroyed => request[q].yes \/ mem'[q].asked
      <3>1. CASE At(q).do \in {"uninstall", "clear"}
        <4>1. At(q).do \in Touching /\ IsDestructive(request[q].command)
          BY <2>1, <3>1 DEF Possible, Touching
        <4> QED
          BY <1>1, <2>1, <2>3, <4>1 DEF Touched, Confirmed, Writes
      <3>2. CASE At(q).do = "spawn" /\ SpawnEmulator(q)
        BY <1>1, <2>1, <2>3, <3>2, RemoveDestroys DEF Touched, Writes
      <3>3. CASE mem'[q].destroyed = mem[q].destroyed
        BY <1>1, <2>3, <3>3 DEF Touched
      <3> QED
        BY <1>4, <2>2, <3>1, <3>2, <3>3, TouchSteps
    <2>5. ASSUME todo'[q] # <<>>, b.do \in Touching PROVE Confirmed(q)'
      <3>1. CASE At(q).do \in Touching
        BY <1>1, <1>c, <2>1, <2>3, <3>1 DEF Touched, Confirmed, Writes
      <3>2. CASE At(q).do = "confirm" /\ ~ FallsOut(q)
        <4>1. Confirm(q) /\ mem'[q].chosen = mem[q].chosen
          BY <1>4, <2>2, <3>2, TouchSteps
        <4> QED
          BY <1>1, <1>c, <3>2, <4>1, ConfirmAsks DEF Confirmed
      <3> QED
        BY <1>4, <2>5, <2>b, <3>1, <3>2, TouchArrivals
    <2>6. ASSUME todo'[q] # <<>>, b.do = "spawn" PROVE request[q].wipe => request[q].yes
      <3>1. At(q).do = "wipe" /\ ~ FallsOut(q)
        BY <1>4, <2>6, <2>b, TouchArrivals
      <3>2. CheckEmulator(q)
        BY <1>4, <2>2, <3>1, TouchSteps
      <3> QED
        BY <3>1, <3>2, WipeChecks
    <2> QED
      BY <1>1, <2>4, <2>5, <2>6, <2>b DEF Touched, Writes, Goes, At
  <1>5. CASE Acts(q)
    BY <1>4, <1>5 DEF Acts
  <1>6. CASE Built(q)
    <2>1. At(q).do \in {"assemble", "clean", "test"} /\ Shape(q) /\ Changes(q, {"passed"})
      BY <1>6 DEF Built, Waited, PlanInv, Building
    <2> QED
      BY <1>4, <2>1 DEF Changes, Fields
  <1> QED
    BY <1>2, <1>3, <1>5, <1>6, NextSteps DEF Seen

\* A process at a stage that touches a device, or after one, has been confirmed.
THEOREM TouchesAreConfirmed == Spec => []TouchInv
  <1>1. Init => TouchInv
    <2> SUFFICES ASSUME Init, NEW p \in Processes PROVE Touched(p)
      BY DEF TouchInv
    <2>1. At(p).do = "validate" /\ mem[p].destroyed = FALSE
      BY Beginning DEF InitialMem
    <2> QED
      BY <2>1 DEF Touched, Writes, Touching
  <1>2. PlanInv /\ TouchInv /\ [Next]_vars => TouchInv'
    BY TouchKept DEF TouchInv
  <1> QED
    BY <1>1, <1>2, PlansAreKept, PTL DEF Spec

\* Data on a device, and a release build on it, are only touched by a command that was
\* given --yes, was answered yes, or names a profile for the release.
THEOREM TouchesAreAsked == Spec => []NothingIsTouchedUnasked
  <1>1. PlanInv /\ TouchInv => NothingIsTouchedUnasked
    <2> SUFFICES ASSUME PlanInv, TouchInv, NEW p \in Processes
                 PROVE  /\ mem[p].destroyed => request[p].yes \/ mem[p].asked
                        /\ exit[p] = "running" /\ mem[p].chosen # {} /\ Choice(p).variant.release
                             /\ Head(todo[p]).do \in {"assemble", "install", "launch", "stop"}
                           => request[p].yes \/ mem[p].asked \/ request[p].profile # Unnamed
      BY DEF NothingIsTouchedUnasked
    <2>1. Touched(p) /\ (exit[p] = "running" => Goes(p))
      BY DEF TouchInv, PlanInv, Planned, PlannedAs, Goes
    <2> QED
      BY <2>1 DEF Touched, Writes, Touching, At, Confirmed, NeedsConfirmation
  <1> QED
    BY <1>1, PlansAreKept, TouchesAreConfirmed, PTL

-----------------------------------------------------------------------------
(***************************************************************************)
(* What is selected.                                                       *)
(***************************************************************************)
Selection(p) == Chosen(mem[p].model, mem[p].config, mem[p].devices, request[p])
IsSelected(p) == Resolves(mem[p].model, mem[p].config, mem[p].devices, request[p],
                          NeedsDevice(request[p]))

Selected(p) ==
  /\ mem[p].chosen # {} => /\ request[p].command \in Selecting
                           /\ ~ Writes(p, Early \cup {"profile"})
                           /\ IsSelected(p) /\ mem[p].chosen = {Selection(p)}
  /\ Writes(p, Touching \cup {"confirm"}) => mem[p].chosen # {}
  /\ \A d \in mem[p].devices : d.serial \in Serials

SelectInv == \A p \in Processes : Selected(p)

\* A command that selects is done with the project and the devices before it does; what
\* it touches and asks about comes after.
LEMMA SelectArrivals ==
  ASSUME NEW p \in Processes, Shape(p), Possible(request[p], At(p)),
         NEW b, todo'[p] # <<>>, Head(todo'[p]) = b
  PROVE  /\ request[p].command \in Selecting /\ b.do \in Early \cup {"profile"} =>
                At(p).do \in Early
         /\ b.do \in Touching \cup {"confirm"} =>
              \/ At(p).do \in Touching \cup {"confirm"}
              \/ At(p).do = "profile" /\ ~ FallsOut(p)
  <1>1. CASE GoesOn(p) /\ (At(p).do = "set-aside" => At(p).exit = Unnoticed)
    <2>1. ~ FallsOut(p) \/ At(p).do \in Early
      BY <1>1 DEF FallsOut, GoesOn
    <2>2. b.do \in Touching \cup {"confirm"} => b.do # "opened"
      BY DEF Touching
    <2>3. ~ FallsOut(p) \/ b.do = "opened"
      BY DEF FallsOut
    <2> QED
      BY <1>1, <2>2, <2>3 DEF GoesOn, Precedes
  <1>2. CASE FallsOut(p)
    BY <1>2 DEF FallsOut, Touching
  <1>3. CASE Stays(p) /\ At(p).do \in {"assemble", "clean", "test", "boot"}
    BY <1>3 DEF Stays, At, Early, Writing, Touching
  <1>4. CASE \E a : TurnsTo(p, a) /\ TurnedAs(p, a)
    <2>1. At(p).do \in Asking => request[p].command \notin Selecting
      BY DEF Possible
    <2> QED
      BY <1>4, <2>1 DEF TurnsTo, TurnedAs, Asking, Early, Writing, Touching
  <1> QED
    BY <1>1, <1>2, <1>3, <1>4 DEF Shape

\* The selection is what the files, the devices and the command line resolve to, or there
\* is none.
LEMMA ProfileSelects ==
  ASSUME PlanInv, NEW p \in Processes, ResolveProfile(p)
  PROVE  \/ FallsOut(p) /\ mem'[p] = mem[p]
         \/ IsSelected(p) /\ mem'[p].chosen = {Selection(p)}
  <1>1. Doing(p, {"profile"})
    BY DEF ResolveProfile
  <1>2. DOMAIN mem[p] = Fields
    BY <1>1, WaysAt
  <1>m. PICK m : m = [mem[p] EXCEPT !.chosen = {Selection(p)}]
    OBVIOUS
  <1>3. DOMAIN m = Fields /\ m.chosen = {Selection(p)}
    BY <1>2, <1>m DEF Fields
  <1>4. (IsSelected(p) /\ Moves(p, m)) \/ Fails(p)
    <2>1. CASE IsSelected(p)
      <3>1. \/ Checks(p, IsSelected(p),
                      [mem[p] EXCEPT !.chosen = IF IsSelected(p) THEN {Selection(p)} ELSE {}])
            \/ Fails(p)
        BY Zenon DEF ResolveProfile, IsSelected, Selection
      <3>2. [mem[p] EXCEPT !.chosen = IF IsSelected(p) THEN {Selection(p)} ELSE {}] = m
        BY <1>m, <2>1
      <3> QED
        BY <2>1, <3>1, <3>2, Zenon DEF Checks
    <2>2. CASE ~ IsSelected(p)
      BY <2>2, Zenon DEF ResolveProfile, Checks, IsSelected
    <2> QED
      BY <2>1, <2>2
  <1> QED
    BY <1>1, <1>3, <1>4, WaysAt DEF Passes, Drops

\* The devices listed have the serials of the configuration.
LEMMA DevicesHaveSerials ==
  ASSUME PlanInv, NEW p \in Processes, ListDevices(p)
  PROVE  mem'[p] = mem[p] \/ \A d \in mem'[p].devices : d.serial \in Serials
  <1>1. Doing(p, {"devices"})
    BY DEF ListDevices
  <1>2. DOMAIN mem[p] = Fields
    BY <1>1, WaysAt
  <1>3. Fails(p) => mem'[p] = mem[p]
    BY <1>1, WaysAt DEF Drops
  <1>4. ASSUME NEW list \in DeviceLists, NEW enriched \in BOOLEAN,
               Moves(p, [mem[p] EXCEPT !.devices = list \cup Listed(enriched)])
        PROVE  \A d \in mem'[p].devices : d.serial \in Serials
    <2>m. PICK m : m = [mem[p] EXCEPT !.devices = list \cup Listed(enriched)]
      OBVIOUS
    <2>1. DOMAIN m = Fields /\ m.devices = list \cup Listed(enriched)
      BY <1>2, <2>m DEF Fields
    <2>2. mem'[p].devices = list \cup Listed(enriched)
      BY <1>1, <1>4, <2>m, <2>1, WaysAt DEF Passes
    <2>3. \A d \in list : d.serial \in Serials
      BY DEF Serials
    <2>4. \A d \in Listed(enriched) : d.serial = Emulator.serial
      BY InvocationsAssumption DEF Listed
    <2> QED
      BY <2>2, <2>3, <2>4 DEF Serials
  <1> QED
    BY <1>3, <1>4 DEF ListDevices

\* What a step may change of a selection.
LEMMA SelectSteps ==
  ASSUME NEW p \in Processes, StepIs(p)
  PROVE  /\ At(p).do = "profile" => ResolveProfile(p) /\ mem'[p].devices = mem[p].devices
         /\ At(p).do # "profile" => mem'[p].chosen = mem[p].chosen
         /\ At(p).do \notin Early \cup {"profile"} =>
              /\ mem'[p].model = mem[p].model /\ mem'[p].config = mem[p].config
         /\ (At(p).do = "devices" /\ ListDevices(p)) \/ mem'[p].devices = mem[p].devices
  <1>1. /\ At(p).do = "profile" => ResolveProfile(p) /\ Changes(p, {"chosen"})
        /\ At(p).do # "profile" => mem'[p].chosen = mem[p].chosen
        /\ (At(p).do = "devices" /\ ListDevices(p)) \/ mem'[p].devices = mem[p].devices
    BY DEF StepIs, Changes, Fields, Idle
  <1>2. At(p).do \notin Early \cup {"profile"} =>
          mem'[p].model = mem[p].model /\ mem'[p].config = mem[p].config
    BY DEF StepIs, Changes, Fields, Early, Writing
  <1> QED
    BY <1>1, <1>2 DEF Changes, Fields

\* Every step keeps what was selected, and what it was selected from.
LEMMA SelectKept ==
  ASSUME PlanInv, SelectInv, [Next]_vars, NEW q \in Processes PROVE Selected(q)'
  <1>1. Selected(q) /\ request' = request
    BY NextSteps DEF SelectInv, Seen
  <1>s. ASSUME mem'[q].model = mem[q].model, mem'[q].config = mem[q].config,
               mem'[q].devices = mem[q].devices
        PROVE  Selection(q)' = Selection(q) /\ IsSelected(q)' = IsSelected(q)
    BY <1>1, <1>s DEF Selection, IsSelected
  <1>2. CASE Rests(q)
    <2>1. Selection(q)' = Selection(q) /\ IsSelected(q)' = IsSelected(q)
      BY <1>2, <1>s DEF Rests
    <2>2. At(q)' = At(q) /\ Goes(q)' = Goes(q) /\ mem'[q] = mem[q] /\ Serials' = Serials
      BY <1>2 DEF Rests, At, Goes, Serials
    <2> QED
      BY <1>1, <2>1, <2>2 DEF Selected, Writes
  <1>3. CASE Dies(q)
    <2>1. Selection(q)' = Selection(q) /\ IsSelected(q)' = IsSelected(q)
      BY <1>3, <1>s DEF Dies
    <2>2. ~ Goes(q)' /\ mem'[q] = mem[q] /\ Serials' = Serials
      BY <1>3 DEF Dies, Goes, Serials
    <2> QED
      BY <1>1, <2>1, <2>2 DEF Selected, Writes
  <1>4. ASSUME Shape(q),
               \/ Acts(q)
               \/ At(q).do \in {"assemble", "clean", "test"} /\ Changes(q, {"passed"})
        PROVE  Selected(q)'
    <2>b. PICK b : b = Head(todo'[q])
      OBVIOUS
    <2>1. Goes(q) /\ Possible(request[q], At(q))
      BY <1>4, ShapeGoes
    <2>2. Acts(q) => Steps(q) /\ StepIs(q)
      BY DEF Acts
    <2>3. Changes(q, {"passed"}) => /\ mem'[q].model = mem[q].model
              /\ mem'[q].config = mem[q].config
                                    /\ mem'[q].devices = mem[q].devices
                                    /\ mem'[q].chosen = mem[q].chosen
      BY DEF Changes, Fields
    <2>4. /\ At(q).do = "profile" => ResolveProfile(q) /\ mem'[q].devices = mem[q].devices
          /\ At(q).do # "profile" => mem'[q].chosen = mem[q].chosen
          /\ At(q).do \notin Early \cup {"profile"} =>
               mem'[q].model = mem[q].model /\ mem'[q].config = mem[q].config
          /\ (At(q).do = "devices" /\ ListDevices(q)) \/ mem'[q].devices = mem[q].devices
      BY <1>4, <2>2, <2>3, SelectSteps
    <2>5. /\ request[q].command \in Selecting /\ b.do \in Early \cup {"profile"} /\ todo'[q] # <<>>
               => At(q).do \in Early
          /\ b.do \in Touching \cup {"confirm"} /\ todo'[q] # <<>> =>
               \/ At(q).do \in Touching \cup {"confirm"}
               \/ At(q).do = "profile" /\ ~ FallsOut(q)
      BY <1>4, <2>1, <2>b, SelectArrivals
    <2>6. At(q)' = b /\ (Goes(q)' <=> todo'[q] # <<>>) /\ Serials' = Serials
      BY <2>b DEF At, Goes, Serials
    <2>7. \A d \in mem'[q].devices : d.serial \in Serials
      BY <1>1, <2>4, DevicesHaveSerials DEF Selected
    <2>8. CASE At(q).do # "profile"
      <3>1. mem'[q].chosen = mem[q].chosen
        BY <2>4, <2>8
      <3>2. ASSUME mem[q].chosen # {}
            PROVE  /\ request[q].command \in Selecting
                   /\ ~ (todo'[q] # <<>> /\ b.do \in Early \cup {"profile"})
                   /\ IsSelected(q)' /\ mem'[q].chosen = {Selection(q)'}
        <4>1. /\ request[q].command \in Selecting /\ At(q).do \notin Early \cup {"profile"}
              /\ IsSelected(q) /\ mem[q].chosen = {Selection(q)}
          BY <1>1, <2>1, <3>2 DEF Selected, Writes
        <4>2. mem'[q].devices = mem[q].devices
          BY <2>4, <4>1 DEF Early
        <4>3. Selection(q)' = Selection(q) /\ IsSelected(q)' = IsSelected(q)
          BY <1>s, <2>4, <4>1, <4>2
        <4> QED
          BY <2>5, <3>1, <4>1, <4>3
      <3>3. todo'[q] # <<>> /\ b.do \in Touching \cup {"confirm"} => mem'[q].chosen # {}
        BY <1>1, <2>1, <2>5, <2>8, <3>1 DEF Selected, Writes
      <3> QED
        BY <1>1, <2>6, <2>7, <3>1, <3>2, <3>3 DEF Selected, Writes
    <2>9. CASE At(q).do = "profile"
      <3>1. ResolveProfile(q) /\ mem'[q].devices = mem[q].devices
        BY <2>4, <2>9
      <3>2. mem[q].chosen = {} /\ request[q].command \in Selecting
        BY <1>1, <2>1, <2>9 DEF Selected, Writes, Possible
      <3>3. CASE FallsOut(q) /\ mem'[q] = mem[q]
        BY <1>1, <2>5, <2>6, <2>7, <2>9, <3>2, <3>3 DEF Selected, Writes, Touching
      <3>4. CASE IsSelected(q) /\ mem'[q].chosen = {Selection(q)}
        <4>1. Changes(q, {"chosen"})
          BY <1>4, <2>2, <2>9 DEF StepIs, Idle
        <4>2. mem'[q].model = mem[q].model /\ mem'[q].config = mem[q].config
          BY <4>1 DEF Changes, Fields
        <4>3. Selection(q)' = Selection(q) /\ IsSelected(q)' = IsSelected(q)
          BY <1>s, <3>1, <4>2
        <4>4. ~ (todo'[q] # <<>> /\ b.do \in Early \cup {"profile"})
          BY <2>5, <2>9, <3>2 DEF Early, Writing
        <4> QED
          BY <1>1, <2>6, <2>7, <3>2, <3>4, <4>3, <4>4 DEF Selected, Writes
      <3> QED
        BY <3>1, <3>3, <3>4, ProfileSelects
    <2> QED
      BY <2>8, <2>9
  <1>5. CASE Acts(q)
    BY <1>4, <1>5 DEF Acts
  <1>6. CASE Built(q)
    <2>1. At(q).do \in {"assemble", "clean", "test"} /\ Shape(q) /\ Changes(q, {"passed"})
      BY <1>6 DEF Built, Waited, PlanInv, Building
    <2> QED
      BY <1>4, <2>1
  <1> QED
    BY <1>2, <1>3, <1>5, <1>6, NextSteps DEF Seen

\* What is chosen is what the command line, the files and the devices resolve to.
THEOREM SelectionsAreResolved == Spec => []SelectInv
  <1>1. Init => SelectInv
    <2> SUFFICES ASSUME Init, NEW p \in Processes PROVE Selected(p)
      BY DEF SelectInv
    <2>1. At(p).do = "validate" /\ mem[p].chosen = {} /\ mem[p].devices = {}
      BY Beginning DEF InitialMem
    <2> QED
      BY <2>1 DEF Selected, Writes, Touching
  <1>2. PlanInv /\ SelectInv /\ [Next]_vars => SelectInv'
    BY SelectKept DEF SelectInv
  <1> QED
    BY <1>1, <1>2, PlansAreKept, PTL DEF Spec

\* A selection that resolves is of the module, the variant and the device that were named.
LEMMA ResolvedAsNamed ==
  ASSUME NEW model, NEW config, NEW devices, NEW r, NEW needed,
         Resolves(model, config, devices, r, needed),
         NEW c, c = Chosen(model, config, devices, r)
  PROVE  /\ r.module # Unnamed => c.module.path = r.module
         /\ r.variant # Unnamed => c.variant.name = r.variant
         /\ r.module = Unnamed /\ ProfileOf(config, r).module # Unnamed =>
              c.module.path = ProfileOf(config, r).module
         /\ needed => \E d \in devices :
              /\ c.device = {d} /\ d.online
              /\ r.device # Unnamed => \/ d.serial = r.device
                                       \/ \A e \in devices : r.device \in e.names => e = d
  <1>1. PICK m \in model : ModulesFor(model, config, r) = {m}
    BY DEF Resolves
  <1>2. c.module = CHOOSE x \in model : ModulesFor(model, config, r) = {x}
    BY DEF Chosen
  <1>3. c.module = m
    BY <1>1, <1>2
  <1>4. PICK v \in m.variants : VariantsFor(m, config, r) = {v}
    BY <1>1 DEF Resolves
  <1>5. c.variant = CHOOSE x \in m.variants : VariantsFor(m, config, r) = {x}
    BY <1>2, <1>3 DEF Chosen
  <1>6. c.variant = v
    BY <1>4, <1>5
  <1>7. c.device = DevicesFor(devices, config, r)
    BY DEF Chosen
  <1>8. m \in ModulesFor(model, config, r) /\ v \in VariantsFor(m, config, r)
    BY <1>1, <1>4
  <1>9. r.module # Unnamed => m.path = r.module
    BY <1>8 DEF ModulesFor, FirstChoice
  <1>10. r.variant # Unnamed => v.name = r.variant
    BY <1>8 DEF VariantsFor, FirstChoice
  <1>11. r.module = Unnamed /\ ProfileOf(config, r).module # Unnamed =>
           m.path = ProfileOf(config, r).module
    BY <1>8 DEF ModulesFor, FirstChoice
  <1>12. ASSUME needed
         PROVE  \E d \in devices :
                  /\ c.device = {d} /\ d.online
                  /\ r.device # Unnamed => \/ d.serial = r.device
                                           \/ \A e \in devices : r.device \in e.names => e = d
    <2>1. PICK d \in devices : DevicesFor(devices, config, r) = {d} /\ d.online
      BY <1>12 DEF Resolves
    <2>2. ASSUME r.device # Unnamed
          PROVE  d.serial = r.device \/ \A e \in devices : r.device \in e.names => e = d
      <3>1. Selects(devices, r.device) = {d}
        BY <2>1, <2>2 DEF DevicesFor, FirstChoice
      <3>2. CASE {e \in devices : e.serial = r.device} # {}
        BY <3>1, <3>2 DEF Selects
      <3>3. CASE {e \in devices : e.serial = r.device} = {}
        BY <3>1, <3>3 DEF Selects
      <3> QED
        BY <3>2, <3>3
    <2> QED
      BY <1>7, <2>1, <2>2
  <1> QED
    BY <1>3, <1>6, <1>9, <1>10, <1>11, <1>12

\* What the user names is what is chosen: whatever the profile, the configuration and
\* the other devices say, and never one of several.
THEOREM SelectionsAreExact == Spec => []SelectionIsExact
  <1>1. SelectInv => SelectionIsExact
    <2> SUFFICES ASSUME SelectInv, NEW p \in Processes, NEW c \in mem[p].chosen
                 PROVE  /\ request[p].module # Unnamed => c.module.path = request[p].module
                        /\ request[p].variant # Unnamed => c.variant.name = request[p].variant
                        /\ request[p].module = Unnamed
                               /\ ProfileOf(mem[p].config, request[p]).module # Unnamed =>
                             c.module.path = ProfileOf(mem[p].config, request[p]).module
                        /\ NeedsDevice(request[p]) => \E d \in mem[p].devices :
                             /\ c.device = {d} /\ d.online
                             /\ request[p].device # Unnamed =>
                                  \/ d.serial = request[p].device
                                  \/ \A e \in mem[p].devices : request[p].device \in e.names =>
                                         e = d
      BY DEF SelectionIsExact
    <2>1. IsSelected(p) /\ c = Selection(p)
      BY DEF SelectInv, Selected
    <2> QED
      BY <2>1, ResolvedAsNamed DEF IsSelected, Selection
  <1> QED
    BY <1>1, SelectionsAreResolved, PTL

-----------------------------------------------------------------------------
(***************************************************************************)
(* What a success says.                                                    *)
(***************************************************************************)
\* Built of the sources as they were when the commands began, or later; or nothing.
Fresh(n) == n = 0 \/ n >= 2

Succeeded(p) == exit[p] = "Success"

Done(p) ==
  /\ mem[p].began = 2
  /\ request[p].command \in Runs =>
       /\ Writes(p, {"uninstall", "find", "install", "launch"}) => Fresh(tree.artifact)
       /\ Writes(p, {"launch"}) => Fresh(installed[Device(p)])
       /\ Writes(p, {"report"}) \/ Succeeded(p) => mem[p].launched >= 2
  /\ request[p].command = "test" /\ Succeeded(p) => mem[p].passed

TreeOK == /\ DOMAIN tree = {"sources", "inputs", "artifact", "failing"}
          /\ tree.sources \in Nat /\ tree.sources >= 2
          /\ tree.artifact \in Nat /\ tree.artifact <= tree.sources
          /\ \A build \in builder : /\ build.sources \in Nat /\ build.sources >= 2
                                    /\ build.sources <= tree.sources

InstalledOK == /\ DOMAIN installed = Serials
               /\ \A s \in Serials : installed[s] \in Nat /\ installed[s] <= tree.sources

BuildInv == TreeOK /\ InstalledOK
DoneInv == BuildInv /\ \A p \in Processes : Done(p)

\* Where a process comes from that has something to launch, or has launched it.
LEMMA DoneArrivals ==
  ASSUME NEW p \in Processes, Shape(p), request[p].command \in Runs
  PROVE  /\ todo'[p] # <<>> =>
              LET b == Head(todo'[p]) IN
              /\ b.do \in {"uninstall", "find", "install", "launch"} =>
                   \/ At(p).do = "assemble" /\ GoesOn(p)
                   \/ At(p).do \in {"uninstall", "find", "install"} /\ ~ FallsOut(p)
              /\ b.do = "launch" => At(p).do = "install" /\ ~ FallsOut(p)
              /\ b.do = "report" => At(p).do = "launch" /\ ~ FallsOut(p)
         /\ Succeeded(p)' => At(p).do = "report"
  <1>b. PICK b : b = Head(todo'[p])
    OBVIOUS
  <1>0. ASSUME todo'[p] # <<>>, b.do \in {"uninstall", "find", "install", "launch", "report"}
        PROVE  ~ FallsOut(p)
    BY <1>0, <1>b DEF FallsOut
  <1>1. CASE GoesOn(p) /\ (At(p).do = "set-aside" => At(p).exit = Unnoticed)
    BY <1>0, <1>1, <1>b DEF GoesOn, Precedes, Closes, Succeeded
  <1>2. CASE FallsOut(p)
    BY <1>0, <1>2, <1>b DEF FallsOut, Succeeded
  <1>3. CASE Stays(p) /\ At(p).do \in {"assemble", "clean", "test", "boot"}
    <2>1. todo[p] # <<>> /\ exit[p] = "running"
      BY DEF Shape, Turned
    <2> QED
      BY <1>3, <2>1 DEF Stays, At, Succeeded
  <1>4. CASE \E a : TurnsTo(p, a) /\ TurnedAs(p, a)
    BY <1>4 DEF TurnsTo, TurnedAs, Succeeded
  <1> QED
    BY <1>1, <1>2, <1>3, <1>4 DEF Shape

\* A device that is chosen is one there is.
LEMMA DeviceIsThere ==
  ASSUME SelectInv, NEW p \in Processes, request[p].command \in Runs,
         Writes(p, Touching)
  PROVE  Device(p) \in Serials
  <1>1. /\ IsSelected(p) /\ mem[p].chosen = {Selection(p)}
        /\ \A d \in mem[p].devices : d.serial \in Serials
    BY DEF SelectInv, Selected, Writes
  <1>2. NeedsDevice(request[p])
    BY DEF NeedsDevice, Runs
  <1>3. Choice(p) = Selection(p)
    BY <1>1 DEF Choice
  <1>d. PICK d \in mem[p].devices : DevicesFor(mem[p].devices, mem[p].config, request[p]) = {d}
    BY <1>1, <1>2 DEF IsSelected, Resolves
  <1>4. Choice(p).device = {d}
    BY <1>3, <1>d DEF Selection, Chosen
  <1>5. Device(p) = d.serial
    BY <1>4 DEF Device
  <1> QED
    BY <1>1, <1>5

\* What becomes of the sources and of what is built of them.
LEMMA TreeSteps ==
  ASSUME PlanInv, TreeOK, [Next]_vars
  PROVE  /\ TreeOK' /\ tree'.sources >= tree.sources
         /\ Fresh(tree.artifact) => Fresh(tree'.artifact)
  <1>1. CASE \E p \in Processes : Steps(p) /\ Around(p)
    <2>1. PICK p \in Processes : Steps(p) /\ Around(p)
      BY <1>1
    <2>2. tree' = tree /\ (builder' = builder \/ StartGradle(p))
      BY <2>1 DEF Around
    <2>3. StartGradle(p) => builder' = {[by |-> p, does |-> At(p).do, sources |-> tree.sources]}
      BY DEF StartGradle, At
    <2>4. TreeOK'
      BY <2>2, <2>3 DEF TreeOK
    <2> QED
      BY <2>2, <2>4 DEF TreeOK, Fresh
  <1>2. CASE GradleEnds
    <2>1. /\ builder' = {}
          /\ \E build \in builder : \/ tree' = [tree EXCEPT !.artifact = build.sources]
                                    \/ tree' = [tree EXCEPT !.artifact = 0]
                                    \/ tree' = tree
                                    \/ \E failing : tree' = [tree EXCEPT !.failing = failing]
      BY <1>2, Zenon DEF GradleEnds, NoBuild
    <2> QED
      BY <2>1 DEF TreeOK, Fresh
  <1>3. CASE tree' = tree /\ builder' \in {builder, {}}
    BY <1>3 DEF TreeOK, Fresh
  <1>4. CASE Edit
    <2>1. /\ builder' = builder
          /\ \E input \in {0, 1} : tree' = [tree EXCEPT !.sources = @ + 1, !.inputs = @ + input]
      BY <1>4 DEF Edit
    <2> QED
      BY <2>1 DEF TreeOK, Fresh
  <1>5. LosePower \/ SpoilFile => tree' = tree /\ builder' \in {builder, {}}
    BY DEF LosePower, SpoilFile, NoBuild
  <1> QED
    BY <1>1, <1>2, <1>3, <1>4, <1>5, NextSteps

\* A build that has ended well has left what it was built of.
LEMMA AssembleBuilds ==
  ASSUME PlanInv, TreeOK, NEW q \in Processes, Built(q), At(q).do = "assemble", GoesOn(q)
  PROVE  Fresh(tree'.artifact)
  <1>1. PICK build \in builder : Waited(q, build)
    BY DEF Built
  <1>2. tree' = [tree EXCEPT !.artifact = build.sources]
    BY <1>1 DEF Waited
  <1> QED
    BY <1>2 DEF TreeOK, Fresh

\* What becomes of what is installed.
LEMMA InstalledSteps ==
  ASSUME PlanInv, BuildInv, [Next]_vars
  PROVE  /\ InstalledOK'
         /\ Fresh(tree.artifact) => \A s \in Serials : Fresh(installed[s]) => Fresh(installed'[s])
  <1>1. /\ TreeOK /\ InstalledOK /\ tree'.sources >= tree.sources /\ tree'.sources \in Nat
        /\ Serials' = Serials
    BY TreeSteps DEF BuildInv, TreeOK, Serials
  <1>2. CASE installed' = installed
    BY <1>1, <1>2 DEF InstalledOK, TreeOK
  <1>3. ASSUME NEW s, NEW n \in {0, tree.artifact}, installed' = [installed EXCEPT ![s] = n]
        PROVE  /\ InstalledOK'
               /\ Fresh(tree.artifact) => \A t \in Serials : Fresh(installed[t]) =>
                      Fresh(installed'[t])
    <2>1. \A t \in Serials : installed'[t] \in {installed[t], n}
      BY <1>1, <1>3 DEF InstalledOK
    <2>2. DOMAIN installed' = Serials
      BY <1>1, <1>3 DEF InstalledOK
    <2>3. n \in Nat /\ n <= tree.sources /\ (Fresh(tree.artifact) => Fresh(n))
      BY <1>1 DEF TreeOK, Fresh
    <2> QED
      BY <1>1, <2>1, <2>2, <2>3 DEF InstalledOK, TreeOK
  <1>4. CASE \E p \in Processes : Steps(p) /\ Around(p)
    <2>1. PICK p \in Processes : Steps(p) /\ Around(p)
      BY <1>4
    <2>2. \/ installed' = installed
          \/ AdbInstall(p) \/ AdbRemove(p)
      BY <2>1 DEF Around
    <2>3. AdbInstall(p) \/ AdbRemove(p) =>
            \/ installed' = installed
            \/ installed' = [installed EXCEPT ![Device(p)] = tree.artifact]
            \/ installed' = [installed EXCEPT ![Device(p)] = 0]
      BY DEF AdbInstall, AdbRemove, Adbs
    <2> QED
      BY <1>2, <1>3, <2>2, <2>3
  <1>5. GradleEnds \/ LosePower \/ SpoilFile \/ Edit => installed' = installed
    BY DEF GradleEnds, LosePower, SpoilFile, Edit
  <1> QED
    BY <1>2, <1>4, <1>5, NextSteps

\* What is installed is what is built.
LEMMA InstallInstalls ==
  ASSUME PlanInv, BuildInv, NEW p \in Processes, AdbInstall(p), ~ FallsOut(p),
         Device(p) \in Serials, Fresh(tree.artifact)
  PROVE  Fresh(installed'[Device(p)])
  <1>1. Doing(p, {"install"})
    BY DEF AdbInstall
  <1>2. Fails(p) => FallsOut(p)
    BY <1>1, WaysAt DEF Drops
  <1>3. installed' = [installed EXCEPT ![Device(p)] = tree.artifact]
    <2>1. \/ tree.artifact # 0 /\ installed' = [installed EXCEPT ![Device(p)] = tree.artifact]
          \/ Fails(p)
      BY DEF AdbInstall, Adbs
    <2> QED
      BY <1>2, <2>1
  <1> QED
    BY <1>3 DEF BuildInv, InstalledOK

\* What is launched is what is installed, if anything is.
LEMMA LaunchLaunches ==
  ASSUME PlanInv, NEW p \in Processes, AdbLaunch(p), ~ FallsOut(p)
  PROVE  installed[Device(p)] # 0 /\ mem'[p].launched = installed[Device(p)]
  <1>1. Doing(p, {"launch"})
    BY DEF AdbLaunch
  <1>2. DOMAIN mem[p] = Fields
    BY <1>1, WaysAt
  <1>m. PICK m : m = [mem[p] EXCEPT !.launched = installed[Device(p)]]
    OBVIOUS
  <1>3. DOMAIN m = Fields /\ m.launched = installed[Device(p)]
    BY <1>2, <1>m DEF Fields
  <1>4. \/ installed[Device(p)] # 0 /\ (Moves(p, m) \/ FailsWith(p, At(p).exit, m))
        \/ Fails(p)
    BY <1>m, Zenon DEF AdbLaunch, Adbs, At
  <1>5. /\ Moves(p, m) => mem'[p] = m
        /\ FailsWith(p, At(p).exit, m) => FallsOut(p)
        /\ Fails(p) => FallsOut(p)
    BY <1>1, <1>3, WaysAt DEF Passes, Drops
  <1> QED
    BY <1>3, <1>4, <1>5

\* A test command has succeeded with a verdict, and the verdict is that its runs have passed.
LEMMA VerdictPasses ==
  ASSUME PlanInv, NEW p \in Processes, Shape(p), request[p].command = "test", Succeeded(p)',
         At(p).do = "verdict" => Verdict(p)
  PROVE  mem[p].passed /\ mem'[p] = mem[p]
  <1>1. GoesOn(p) /\ todo'[p] = <<>> /\ ~ FallsOut(p)
    BY DEF Shape, Turned, GoesOn, FallsOut, Stays, TurnsTo, Succeeded
  <1>2. Verdict(p)
    BY <1>1 DEF GoesOn, Closes
  <1>3. Doing(p, {"verdict"})
    BY <1>2 DEF Verdict
  <1>4. (mem[p].passed /\ Moves(p, mem[p])) \/ Fails(p)
    BY <1>2, Zenon DEF Verdict, Checks
  <1> QED
    BY <1>1, <1>3, <1>4, WaysAt DEF Passes, Drops

\* What a step may change of this.
LEMMA DoneSteps ==
  ASSUME PlanInv, NEW p \in Processes, Steps(p), StepIs(p), Around(p)
  PROVE  /\ mem'[p].began = mem[p].began
         /\ At(p).do = "launch" => AdbLaunch(p)
         /\ At(p).do # "launch" => mem'[p].launched = mem[p].launched
         /\ At(p).do = "install" => AdbInstall(p)
         /\ At(p).do = "verdict" => Verdict(p)
         /\ At(p).do \in Touching => mem'[p].chosen = mem[p].chosen
         /\ At(p).do = "assemble" => FallsOut(p) \/ Stays(p)
  <1>1. /\ mem'[p].began = mem[p].began
        /\ At(p).do = "launch" => AdbLaunch(p)
        /\ At(p).do # "launch" => mem'[p].launched = mem[p].launched
    BY DEF StepIs, Changes, Fields, Idle
  <1>2. At(p).do = "assemble" => FallsOut(p) \/ Stays(p)
    <2>1. ASSUME GradleFails(p) PROVE FallsOut(p)
      <3>1. Doing(p, {"assemble", "clean", "test"}) /\ Fails(p)
        BY <2>1 DEF GradleFails
      <3> QED
        BY <3>1, WaysAt DEF Drops
    <2>2. StartGradle(p) => Stays(p)
      BY DEF StartGradle, Stays
    <2> QED
      BY <2>1, <2>2 DEF Around
  <1> QED
    BY <1>1, <1>2, TouchSteps DEF Around

\* Every step keeps what a process has of the build it will launch.
LEMMA DoneKept ==
  ASSUME PlanInv, SelectInv, DoneInv, [Next]_vars, NEW q \in Processes PROVE Done(q)'
  <1>1. Done(q) /\ BuildInv /\ request' = request /\ TreeOK
    BY NextSteps DEF DoneInv, Seen, BuildInv
  <1>2. /\ Fresh(tree.artifact) => Fresh(tree'.artifact)
        /\ Fresh(tree.artifact) => \A s \in Serials : Fresh(installed[s]) => Fresh(installed'[s])
    BY <1>1, TreeSteps, InstalledSteps
  <1>d. mem'[q].chosen = mem[q].chosen => Device(q)' = Device(q)
    BY DEF Choice, Device
  <1>3. CASE Rests(q)
    <2>1. /\ At(q)' = At(q) /\ (Goes(q)' <=> Goes(q)) /\ mem'[q] = mem[q] /\ Device(q)' = Device(q)
          /\ Succeeded(q)' <=> Succeeded(q)
      BY <1>3, <1>d DEF Rests, At, Goes, Succeeded
    <2>2. ASSUME request[q].command \in Runs, Writes(q, {"launch"}) PROVE Device(q) \in Serials
      BY <2>2, DeviceIsThere DEF Writes, Touching
    <2> QED
      BY <1>1, <1>2, <2>1, <2>2 DEF Done, Writes
  <1>4. CASE Dies(q)
    <2>1. ~ Goes(q)' /\ mem'[q] = mem[q] /\ (Succeeded(q)' => Succeeded(q))
      BY <1>4 DEF Dies, Goes, Succeeded
    <2> QED
      BY <1>1, <2>1 DEF Done, Writes
  <1>5. ASSUME Shape(q),
               mem'[q].began = mem[q].began,
               At(q).do = "launch" => AdbLaunch(q),
               At(q).do # "launch" => mem'[q].launched = mem[q].launched,
               At(q).do = "install" => AdbInstall(q),
               At(q).do = "verdict" => Verdict(q),
               At(q).do \in Touching => mem'[q].chosen = mem[q].chosen,
               At(q).do = "assemble" => FallsOut(q) \/ Stays(q) \/ Built(q)
        PROVE  Done(q)'
    <2>b. PICK b : b = Head(todo'[q])
      OBVIOUS
    <2>1. Goes(q) /\ Possible(request[q], At(q))
      BY <1>5, ShapeGoes
    <2>2. At(q)' = b /\ (Goes(q)' <=> todo'[q] # <<>>)
      BY <2>b DEF At, Goes
    <2>3. ASSUME request[q].command = "test", Succeeded(q)' PROVE mem'[q].passed
      BY <1>5, <2>3, VerdictPasses
    <2>4. ASSUME request[q].command \in Runs
          PROVE  /\ Writes(q, {"uninstall", "find", "install", "launch"})' => Fresh(tree'.artifact)
                 /\ Writes(q, {"launch"})' => Fresh(installed'[Device(q)'])
                 /\ Writes(q, {"report"})' \/ Succeeded(q)' => mem'[q].launched >= 2
      <3>0. /\ todo'[q] # <<>> /\ b.do \in {"uninstall", "find", "install", "launch"} =>
                 \/ At(q).do = "assemble" /\ GoesOn(q)
                 \/ At(q).do \in {"uninstall", "find", "install"} /\ ~ FallsOut(q)
            /\ todo'[q] # <<>> /\ b.do = "launch" => At(q).do = "install" /\ ~ FallsOut(q)
            /\ todo'[q] # <<>> /\ b.do = "report" => At(q).do = "launch" /\ ~ FallsOut(q)
            /\ Succeeded(q)' => At(q).do = "report"
        BY <1>5, <2>4, <2>b, DoneArrivals
      <3>d. At(q).do \in Touching => Device(q) \in Serials /\ Device(q)' = Device(q)
        BY <1>5, <1>d, <2>1, <2>4, DeviceIsThere DEF Writes
      <3>1. ASSUME todo'[q] # <<>>, b.do \in {"uninstall", "find", "install", "launch"}
            PROVE  Fresh(tree'.artifact)
        <4>1. CASE At(q).do = "assemble" /\ GoesOn(q)
          <5>1. ~ FallsOut(q)
            BY <4>1 DEF FallsOut, GoesOn, Early, Writing
          <5>2. ~ Stays(q)
            <6>1. Stays(q) => b = At(q)
              BY <2>b DEF Stays, At
            <6> QED
              BY <3>1, <4>1, <6>1
          <5> QED
            BY <1>1, <1>5, <4>1, <5>1, <5>2, AssembleBuilds
        <4>2. CASE At(q).do \in {"uninstall", "find", "install"}
          BY <1>1, <1>2, <2>1, <2>4, <4>2 DEF Done, Writes
        <4> QED
          BY <3>0, <3>1, <4>1, <4>2
      <3>2. ASSUME todo'[q] # <<>>, b.do = "launch" PROVE Fresh(installed'[Device(q)'])
        <4>1. At(q).do = "install" /\ ~ FallsOut(q)
          BY <3>0, <3>2
        <4>2. Fresh(tree.artifact)
          BY <1>1, <2>1, <2>4, <4>1 DEF Done, Writes
        <4>3. Device(q) \in Serials /\ Device(q)' = Device(q)
          BY <3>d, <4>1 DEF Touching
        <4> QED
          BY <1>1, <1>5, <4>1, <4>2, <4>3, InstallInstalls
      <3>3. ASSUME todo'[q] # <<>>, b.do = "report" PROVE mem'[q].launched >= 2
        <4>1. At(q).do = "launch" /\ ~ FallsOut(q)
          BY <3>0, <3>3
        <4>2. Fresh(installed[Device(q)])
          BY <1>1, <2>1, <2>4, <4>1 DEF Done, Writes
        <4> QED
          BY <1>5, <4>1, <4>2, LaunchLaunches DEF Fresh
      <3>4. ASSUME Succeeded(q)' PROVE mem'[q].launched >= 2
        <4>1. At(q).do = "report"
          BY <3>0, <3>4
        <4> QED
          BY <1>1, <1>5, <2>1, <2>4, <4>1 DEF Done, Writes
      <3> QED
        BY <2>2, <3>1, <3>2, <3>3, <3>4 DEF Writes
    <2>5. mem'[q].began = 2
      BY <1>1, <1>5 DEF Done
    <2> QED
      BY <1>1, <2>3, <2>4, <2>5 DEF Done
  <1>6. CASE Acts(q)
    BY <1>5, <1>6, DoneSteps DEF Acts
  <1>7. CASE Built(q)
    <2>1. At(q).do \in {"assemble", "clean", "test"} /\ Shape(q) /\ Changes(q, {"passed"})
      BY <1>7 DEF Built, Waited, PlanInv, Building
    <2>2. /\ mem'[q].began = mem[q].began /\ mem'[q].launched = mem[q].launched
          /\ mem'[q].chosen = mem[q].chosen
      BY <2>1 DEF Changes, Fields
    <2> QED
      BY <1>5, <1>7, <2>1, <2>2
  <1> QED
    BY <1>3, <1>4, <1>6, <1>7, NextSteps DEF Seen

\* What is built, installed and launched, and what the commands know of it.
THEOREM BuildsAreFresh == Spec => []DoneInv
  <1>1. Init => DoneInv
    <2> SUFFICES ASSUME Init PROVE DoneInv
      OBVIOUS
    <2>1. PICK session \in Sessions :
            /\ exit = [p \in Processes |-> "running"]
            /\ tree = [sources |-> 2, inputs |-> 1, artifact |-> session.artifact,
                       failing |-> session.failing]
            /\ mem = [p \in Processes |-> InitialMem]
            /\ builder = {}
            /\ installed = [s \in Serials |-> session.artifact]
      BY DEF Init, NoBuild
    <2>2. session.artifact \in 0 .. 2
      BY InvocationsAssumption
    <2>3. BuildInv
      BY <2>1, <2>2 DEF BuildInv, TreeOK, InstalledOK
    <2>4. ASSUME NEW p \in Processes PROVE Done(p)
      <3>1. At(p).do = "validate"
        BY Beginning
      <3>2. mem[p].began = 2 /\ ~ Succeeded(p)
        BY <2>1 DEF InitialMem, Succeeded
      <3> QED
        BY <3>1, <3>2 DEF Done, Writes
    <2> QED
      BY <2>3, <2>4 DEF DoneInv
  <1>2. PlanInv /\ SelectInv /\ DoneInv /\ [Next]_vars => DoneInv'
    BY DoneKept, TreeSteps, InstalledSteps DEF DoneInv, BuildInv
  <1> QED
    BY <1>1, <1>2, PlansAreKept, SelectionsAreResolved, PTL DEF Spec

\* What a success says: run and its kin have launched what was built of the sources
\* as they were when the command began or later, and no test run of a successful
\* test command failed, whichever other commands build, install or test meanwhile.
THEOREM SuccessesAreTrue == Spec => []SuccessIsTrue
  <1>1. DoneInv => SuccessIsTrue
    BY DEF DoneInv, Done, SuccessIsTrue, Succeeded, Runs
  <1> QED
    BY <1>1, BuildsAreFresh, PTL

-----------------------------------------------------------------------------
(***************************************************************************)
(* What the rest of the world can be.                                      *)
(***************************************************************************)
BridgeOK == /\ DOMAIN bridge = {"temp", "final", "inodes"}
            /\ bridge.inodes \in Seq({"torn", "whole"})
            /\ bridge.final \in 0 .. Len(bridge.inodes) /\ bridge.temp \in 0 .. Len(bridge.inodes)

WorldInv == /\ BridgeOK
            /\ remote \in Nat /\ avd \in {"off", "starting", "online", "booted"}

\* One element of a sequence is replaced, if it has it.
LEMMA ReplaceOne ==
  ASSUME NEW A, NEW s \in Seq(A), NEW i, NEW e \in A
  PROVE  [s EXCEPT ![i] = e] \in Seq(A) /\ Len([s EXCEPT ![i] = e]) = Len(s)
  <1>1. CASE i \in 1 .. Len(s)
    BY <1>1, ExceptSeq
  <1>2. CASE i \notin 1 .. Len(s)
    <2>1. [s EXCEPT ![i] = e] = s
      BY <1>2
    <2> QED
      BY <2>1
  <1> QED
    BY <1>1, <1>2

\* The files of the bridge stay files there are.
LEMMA BridgeStays ==
  ASSUME BridgeOK, NEW p \in Processes, OpenTemporary(p) \/ FillTemporary(p) \/ InstallBridge(p)
  PROVE  BridgeOK'
  <1>s. PICK s : s = bridge.inodes
    OBVIOUS
  <1>0. /\ DOMAIN bridge = {"temp", "final", "inodes"}
        /\ s \in Seq({"torn", "whole"}) /\ Len(s) \in Nat
        /\ bridge.final \in 0 .. Len(s) /\ bridge.temp \in 0 .. Len(s)
    BY <1>s DEF BridgeOK
  <1>1. CASE OpenTemporary(p)
    <2>1. CASE bridge.temp # 0
      <3>t. PICK t : t = [s EXCEPT ![bridge.temp] = "torn"]
        OBVIOUS
      <3>1. bridge' = [bridge EXCEPT !.temp = bridge.temp, !.inodes = t]
        BY <1>1, <1>s, <2>1, <3>t DEF OpenTemporary
      <3>2. t \in Seq({"torn", "whole"}) /\ Len(t) = Len(s)
        BY <1>0, <3>t, ReplaceOne
      <3> QED
        BY <1>0, <3>1, <3>2 DEF BridgeOK
    <2>2. CASE bridge.temp = 0
      <3>t. PICK t : t = Append(s, "torn")
        OBVIOUS
      <3>n. PICK n : n = Len(s) + 1
        OBVIOUS
      <3>1. bridge' = [bridge EXCEPT !.temp = n, !.inodes = t]
        BY <1>1, <1>s, <2>2, <3>n, <3>t DEF OpenTemporary
      <3>2. t \in Seq({"torn", "whole"}) /\ Len(t) = n
        BY <1>0, <3>n, <3>t, OneMore
      <3> QED
        BY <1>0, <3>1, <3>2, <3>n DEF BridgeOK
    <2> QED
      BY <2>1, <2>2
  <1>2. CASE FillTemporary(p) /\ bridge' # bridge
    <2>i. PICK i : i = mem[p].inode
      OBVIOUS
    <2>t. PICK t : t = [s EXCEPT ![i] = "whole"]
      OBVIOUS
    <2>1. bridge' = [bridge EXCEPT !.inodes = t]
      BY <1>2, <1>s, <2>i, <2>t DEF FillTemporary
    <2>2. t \in Seq({"torn", "whole"}) /\ Len(t) = Len(s)
      BY <1>0, <2>t, ReplaceOne
    <2>3. /\ DOMAIN bridge' = {"temp", "final", "inodes"} /\ bridge'.inodes = t
          /\ bridge'.temp = bridge.temp /\ bridge'.final = bridge.final
      BY <1>0, <2>1
    <2> QED
      BY <1>0, <2>2, <2>3 DEF BridgeOK
  <1>3. CASE InstallBridge(p)
    <2>1. bridge' \in {bridge, [bridge EXCEPT !.final = bridge.temp, !.temp = 0]}
      BY <1>3 DEF InstallBridge
    <2>2. /\ DOMAIN bridge' = {"temp", "final", "inodes"} /\ bridge'.inodes = s
          /\ bridge'.temp \in {0, bridge.temp} /\ bridge'.final \in {bridge.final, bridge.temp}
      BY <1>0, <1>s, <2>1
    <2> QED
      BY <1>0, <2>2 DEF BridgeOK
  <1>4. CASE bridge' = bridge
    BY <1>4 DEF BridgeOK
  <1> QED
    BY <1>1, <1>2, <1>3, <1>4

\* Every step leaves the bridge, the remote and the emulator what they can be.
LEMMA WorldStays == ASSUME WorldInv, [Next]_vars PROVE WorldInv'
  <1>1. CASE \E p \in Processes : Steps(p)
    <2>1. PICK p \in Processes : Steps(p) /\ Around(p)
      BY <1>1, AroundSteps
    <2>2. BridgeOK'
      <3>1. CASE bridge' = bridge
        BY <3>1 DEF WorldInv, BridgeOK
      <3> QED
        BY <2>1, <3>1, BridgeStays DEF Around, WorldInv
    <2>3. avd' \in {"off", "starting", "online", "booted"}
      BY <2>1 DEF Around, WorldInv, SpawnEmulator, KillEmulator
    <2> QED
      BY <2>1, <2>2, <2>3 DEF Around, WorldInv
  <1>2. CASE /\ bridge' = bridge /\ remote' \in {remote, remote + 1}
             /\ avd' \in {avd, "online", "booted"}
    BY <1>2 DEF WorldInv, BridgeOK
  <1>3. GradleEnds => bridge' = bridge /\ remote' = remote /\ avd' = avd
    BY DEF GradleEnds
  <1>4. \A p \in Processes : Kill(p) => bridge' = bridge /\ remote' = remote /\ avd' = avd
    BY DEF Kill
  <1>5. LosePower \/ Edit \/ SpoilFile => bridge' = bridge /\ remote' = remote /\ avd' = avd
    BY DEF LosePower, Edit, SpoilFile
  <1>6. RemoteChanges \/ EmulatorBoots \/ UNCHANGED vars =>
          /\ bridge' = bridge /\ remote' \in {remote, remote + 1}
          /\ avd' \in {avd, "online", "booted"}
    BY DEF RemoteChanges, EmulatorBoots, vars, worldVars
  <1> QED
    BY <1>1, <1>2, <1>3, <1>4, <1>5, <1>6 DEF Next

\* The files of the bridge, the remote and the emulator are what they can be.
THEOREM WorldIsKept == Spec => []WorldInv
  <1>1. Init => WorldInv
    <2> SUFFICES ASSUME Init PROVE WorldInv
      OBVIOUS
    <2>1. PICK session \in Sessions :
            /\ avd = session.avd /\ remote = 1
            /\ bridge = IF session.extracted THEN [temp |-> 0, final |-> 1, inodes |-> <<"whole">>]
                        ELSE [temp |-> 0, final |-> 0, inodes |-> <<>>]
      BY DEF Init
    <2>2. /\ <<"whole">> \in Seq({"torn", "whole"}) /\ Len(<<"whole">>) = 1
          /\ <<>> \in Seq({"torn", "whole"}) /\ Len(<<>>) = 0
      OBVIOUS
    <2>3. BridgeOK
      <3>1. CASE session.extracted
        BY <2>1, <2>2, <3>1 DEF BridgeOK
      <3>2. CASE ~ session.extracted
        BY <2>1, <2>2, <3>2 DEF BridgeOK
      <3> QED
        BY <3>1, <3>2
    <2> QED
      BY <2>1, <2>3, InvocationsAssumption DEF WorldInv
  <1>2. WorldInv /\ [Next]_vars => WorldInv'
    BY WorldStays
  <1> QED
    BY <1>1, <1>2, PTL DEF Spec

\* The stages to come are those of the command; a command has ended or has some left;
\* the stored files, the builder and the bridge are what they can be.
THEOREM InvocationsTypes == Spec => []TypeOK
  <1>1. PlanInv /\ ContentInv /\ KeptInv /\ DoneInv /\ WorldInv => TypeOK
    <2> SUFFICES ASSUME PlanInv, ContentInv, KeptInv, DoneInv, WorldInv PROVE TypeOK
      OBVIOUS
    <2>1. StorageTypeOK
      BY DEF ContentInv, KeptInv, CountsInv, StorageTypeOK
    <2>2. \A p \in Processes : exit[p] = "running" <=> todo[p] # <<>>
      BY DEF PlanInv, Planned, PlannedAs
    <2>3. Cardinality(builder) <= 1
      <3>1. CASE builder = {}
        BY <3>1, FS_EmptySet
      <3>2. CASE builder # {}
        <4>1. PICK build : builder = {build}
          BY <3>2 DEF PlanInv
        <4>2. Cardinality({build}) = 1
          BY FS_Singleton, Zenon
        <4> QED
          BY <4>1, <4>2
      <3> QED
        BY <3>1, <3>2
    <2> QED
      BY <2>1, <2>2, <2>3 DEF TypeOK, DoneInv, BuildInv, TreeOK, InstalledOK, WorldInv, BridgeOK
  <1> QED
    BY <1>1, PlansAreKept, ContentsAreKept, WritesAreKept, BuildsAreFresh, WorldIsKept, PTL
=============================================================================
