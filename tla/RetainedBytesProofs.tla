------------------------ MODULE RetainedBytesProofs ------------------------
(***************************************************************************)
(* What the retained-report store charges for its files, for any number of *)
(* runs and reports and any limits: never less than they take, and never a *)
(* counter below zero.  The layer rests on those of RetainedStoreProofs.   *)
(***************************************************************************)
EXTENDS RetainedStoreProofs

-----------------------------------------------------------------------------
(* The seventh layer: every byte in a live run's directory is charged.      *)

\* An entry has a size, and one whose file is unlinked is there to be dropped.
Sized(id) ==
  /\ job[id].own # Nothing => job[id].bytes # 0
  /\ Swept(id, "Unlinked") => job[id].own # Nothing

\* An own file that no entry of its own pays for: an attempt linked it while
\* the sweep was between the unlink of an earlier one and the drop of its
\* entry.  The entry it replaced was never taken off, and pays.
Lost(id) ==
  /\ Up(job[id].run) /\ job[id].pc # "Linked" /\ OwnName(id) \in files[job[id].run]
  /\ job[id].own = Nothing \/ Swept(id, "Unlinked")

Entered(r) == {id \in Reports : job[id].run = r /\ job[id].own # Nothing}
Roomy(r) == {id \in Entered(r) : job[id].bytes = Room}
Losts(r) == {id \in Reports : job[id].run = r /\ Lost(id)}

Owed(r) ==
  Size * Cardinality(Entered(r)) + (Room - Size) * Cardinality(Roomy(r)) + Size * Cardinality(Losts(r))

Adopteds(r) == {name \in files[r] : name.kind = "adopted"}

\* A temporary name is a stray, or that of an attempt under way.
TempKnown(r, name) ==
  \/ \E s \in st[r].stray : s.name = name
  \/ /\ job[name.id].pc \in {"Temp", "Linked"} /\ name = TempName(name.id)

Bytes ==
  /\ \A id \in Reports : Sized(id)
  /\ \A r \in Runs : Owed(r) <= st[r].own_bytes
  /\ \A r \in Runs :
       st[r].adopted_bytes =
         IF phase[r] \in {"Opening", "Up"} THEN Size * Cardinality(Adopteds(r)) ELSE 0
  /\ \A r \in Runs : phase[r] = "Up" =>
       \A name \in files[r] : name.kind = "temp" => TempKnown(r, name)

\* What id's job owes in its run.
OweOf(id) ==
  (IF job[id].own # Nothing THEN job[id].bytes ELSE 0) + (IF Lost(id) THEN Size ELSE 0)

LEMMA ChargeSets ==
  ASSUME NEW r
  PROVE  /\ IsFiniteSet(Entered(r)) /\ IsFiniteSet(Roomy(r)) /\ IsFiniteSet(Losts(r))
         /\ Cardinality(Entered(r)) \in Nat /\ Cardinality(Roomy(r)) \in Nat
         /\ Cardinality(Losts(r)) \in Nat
<1>1. Entered(r) \subseteq Reports /\ Roomy(r) \subseteq Reports /\ Losts(r) \subseteq Reports
  BY DEF Entered, Roomy, Losts
<1>2. QED
  BY <1>1, StoreAssumption, CountPart

\* Room - Size is not negative.
LEMMA Sizes ==
  /\ Size \in Nat /\ Room \in Nat /\ Size # 0 /\ Size <= Room
  /\ Room - Size \in Nat /\ Size + (Room - Size) = Room
  BY StoreAssumption

\* Three multiples, each of a count that moves by one at most.
LEMMA OwedSum ==
  ASSUME NEW s \in Nat, NEW d \in Nat, NEW a \in Nat, NEW b \in Nat, NEW c \in Nat,
         NEW x \in Int, NEW y \in Int, NEW z \in Int
  PROVE  s * (a + x) + d * (b + y) + s * (c + z) =
           (s * a + d * b + s * c) + (s * x + d * y + s * z)
  OBVIOUS

\* The job of id moves: what its run owes moves by what id owes.
LEMMA OwedMove ==
  ASSUME Types, Types', NEW id \in Reports, NEW r \in Runs, Sized(id), Sized(id)',
         job[id].run = r \/ (job[id].run \notin Runs /\ job[id].own = Nothing),
         job'[id].run = r,
         \A o \in Reports : o # id => job'[o] = job[o] /\ (Lost(o)' <=> Lost(o))
  PROVE  /\ Owed(r)' = Owed(r) + OweOf(id)' - OweOf(id)
         /\ \A q \in Runs : q # r => Owed(q)' = Owed(q)
         /\ Owed(r) \in Int /\ OweOf(id) \in Int /\ OweOf(id)' \in Int
<1> USE DEF Types
<1>1. job[id].run # r => ~Lost(id)
  BY DEF Lost, Up
<1>2. /\ \A x : x # id => (x \in Entered(r) <=> x \in Entered(r)')
      /\ \A x : x # id => (x \in Roomy(r) <=> x \in Roomy(r)')
      /\ \A x : x # id => (x \in Losts(r) <=> x \in Losts(r)')
  BY DEF Entered, Roomy, Losts
<1> DEFINE a == Cardinality(Entered(r))
           b == Cardinality(Roomy(r))
           c == Cardinality(Losts(r))
           x == Gain(id \in Entered(r), id \in Entered(r)')
           y == Gain(id \in Roomy(r), id \in Roomy(r)')
           z == Gain(id \in Losts(r), id \in Losts(r)')
<1>3. /\ Cardinality(Entered(r)') = a + x /\ Cardinality(Roomy(r)') = b + y
      /\ Cardinality(Losts(r)') = c + z
      /\ a \in Nat /\ b \in Nat /\ c \in Nat
  BY <1>2, ChargeSets, CountMove
<1>4. x \in {-1, 0, 1} /\ y \in {-1, 0, 1} /\ z \in {-1, 0, 1}
  BY DEF Gain
<1>5. /\ job[id].own # Nothing => job[id].bytes \in {Size, Room}
      /\ job'[id].own # Nothing => job'[id].bytes \in {Size, Room}
  <2>1. job'[id].bytes \in {0, Size, Room}
    BY DEF Typed, Jobs
  <2>2. QED
    BY <2>1, JobTypes DEF Sized
<1>6. OweOf(id) = (IF id \in Entered(r) THEN Size ELSE 0) + (IF id \in Roomy(r) THEN Room - Size ELSE 0)
                    + (IF id \in Losts(r) THEN Size ELSE 0)
  BY <1>1, <1>5, Sizes DEF OweOf, Entered, Roomy, Losts
<1>7. OweOf(id)' = (IF id \in Entered(r)' THEN Size ELSE 0) + (IF id \in Roomy(r)' THEN Room - Size ELSE 0)
                     + (IF id \in Losts(r)' THEN Size ELSE 0)
  BY <1>5, Sizes DEF OweOf, Entered, Roomy, Losts
<1>8. OweOf(id)' - OweOf(id) = Size * x + (Room - Size) * y + Size * z
      /\ OweOf(id) \in Int /\ OweOf(id)' \in Int
  <2>0. Size \in Nat
    BY Sizes
  <2>1. Size * x = (IF id \in Entered(r)' THEN Size ELSE 0) - (IF id \in Entered(r) THEN Size ELSE 0)
    BY <2>0 DEF Gain
  <2>2. (Room - Size) * y = (IF id \in Roomy(r)' THEN Room - Size ELSE 0)
                              - (IF id \in Roomy(r) THEN Room - Size ELSE 0)
    <3> DEFINE d == Room - Size
    <3>1. d \in Nat
      BY Sizes
    <3> HIDE DEF d
    <3>2. d * y = (IF id \in Roomy(r)' THEN d ELSE 0) - (IF id \in Roomy(r) THEN d ELSE 0)
      BY <3>1 DEF Gain
    <3>3. QED
      BY <3>2 DEF d
  <2>3. Size * z = (IF id \in Losts(r)' THEN Size ELSE 0) - (IF id \in Losts(r) THEN Size ELSE 0)
    BY <2>0 DEF Gain
  <2>4. QED
    BY <1>6, <1>7, <2>1, <2>2, <2>3, Sizes
<1>9. /\ Owed(r) = Size * a + (Room - Size) * b + Size * c
      /\ Owed(r)' = Size * (a + x) + (Room - Size) * (b + y) + Size * (c + z)
  BY <1>3 DEF Owed
<1> HIDE DEF a, b, c, x, y, z
<1>10. Owed(r)' = Owed(r) + (Size * x + (Room - Size) * y + Size * z)
  <2> DEFINE d == Room - Size
  <2>1. d \in Nat /\ Size \in Nat /\ x \in Int /\ y \in Int /\ z \in Int
    BY <1>4, Sizes
  <2> HIDE DEF d
  <2>2. Size * (a + x) + d * (b + y) + Size * (c + z) =
          (Size * a + d * b + Size * c) + (Size * x + d * y + Size * z)
    BY <1>3, <2>1, OwedSum
  <2>3. QED
    BY <1>9, <2>2 DEF d
<1>11. Owed(r) \in Int /\ Size * x + (Room - Size) * y + Size * z \in Int
  BY <1>3, <1>4, <1>9, Sizes
<1>12. ASSUME NEW q \in Runs, q # r PROVE Owed(q)' = Owed(q)
  <2>1. Entered(q)' = Entered(q) /\ Roomy(q)' = Roomy(q) /\ Losts(q)' = Losts(q)
    BY <1>12 DEF Entered, Roomy, Losts
  <2>2. QED
    BY <2>1 DEF Owed
<1>13. QED
  BY <1>8, <1>10, <1>11, <1>12

\* What a step of id's job does to the charges of its run.
Paid(id, r) ==
  /\ Sized(id)'
  /\ OweOf(id)' - OweOf(id) <= st'[r].own_bytes - st[r].own_bytes
  /\ st'[r].adopted_bytes = st[r].adopted_bytes
  /\ st[r].stray \subseteq st'[r].stray
  /\ \A name \in files'[r] : name.kind = "temp" /\ name.id = id => TempKnown(r, name)'

LEMMA OweTypes ==
  ASSUME Types, NEW id \in Reports
  PROVE  /\ OweOf(id) \in Nat
         /\ job[id].own # Nothing => job[id].bytes <= OweOf(id)
<1>1. job[id].bytes \in Nat
  BY JobTypes, Sizes DEF Types
<1>2. QED
  BY <1>1, Sizes DEF OweOf

\* The entry, the file and the link as they were.
LEMMA SameOwed ==
  ASSUME Types, NEW id \in Reports, Sized(id), NEW r \in Runs, Frame(id, r), job[id].run = r,
         job'[id].own # Nothing <=> job[id].own # Nothing, job'[id].bytes = job[id].bytes,
         job'[id].pc = "Linked" <=> job[id].pc = "Linked",
         OwnName(id) \in files'[r] <=> OwnName(id) \in files[r]
  PROVE  Sized(id)' /\ OweOf(id)' = OweOf(id)
<1>1. sweeping' = sweeping /\ phase' = phase /\ job'[id].run = r
  BY FrameStays
<1>2. Swept(id, "Unlinked")' <=> Swept(id, "Unlinked")
  BY <1>1 DEF Swept
<1>3. Lost(id)' <=> Lost(id)
  BY <1>1, <1>2 DEF Lost, Up, OwnName
<1>4. QED
  BY <1>2, <1>3 DEF Sized, OweOf

\* No temporary name of id that is new, and its attempt as it was or none.
LEMMA SameTemps ==
  ASSUME Types, Bytes, NEW id \in Reports, NEW r \in Runs, Frame(id, r),
         st[r].stray \subseteq st'[r].stray,
         \A name \in files'[r] : name.kind = "temp" /\ name.id = id => name \in files[r],
         \/ job[id].pc \notin {"Temp", "Linked"}
         \/ job'[id].pc \in {"Temp", "Linked"} /\ job'[id].try = job[id].try
  PROVE  \A name \in files'[r] : name.kind = "temp" /\ name.id = id => TempKnown(r, name)'
<1> SUFFICES ASSUME NEW name \in files'[r], name.kind = "temp", name.id = id
             PROVE  TempKnown(r, name)'
  OBVIOUS
<1>1. phase[r] = "Up"
  BY FrameStays
<1>2. TempKnown(r, name)
  BY <1>1 DEF Bytes
<1>3. CASE \E s \in st[r].stray : s.name = name
  BY <1>3 DEF TempKnown
<1>4. CASE job[id].pc \in {"Temp", "Linked"} /\ name = TempName(id)
  BY <1>4 DEF TempKnown, TempName
<1>5. QED
  BY <1>2, <1>3, <1>4 DEF TempKnown

\* Both, for the steps at which nothing is charged or linked.
LEMMA SamePaid ==
  ASSUME Types, Bytes, NEW id \in Reports, NEW r \in Runs, Frame(id, r), job[id].run = r,
         job'[id].own # Nothing <=> job[id].own # Nothing, job'[id].bytes = job[id].bytes,
         job'[id].pc = "Linked" <=> job[id].pc = "Linked",
         files'[r] = files[r], st'[r].own_bytes = st[r].own_bytes,
         st'[r].adopted_bytes = st[r].adopted_bytes, st'[r].stray = st[r].stray,
         \/ job[id].pc \notin {"Temp", "Linked"}
         \/ job'[id].pc \in {"Temp", "Linked"} /\ job'[id].try = job[id].try
  PROVE  Paid(id, r)
<1>1. Sized(id)' /\ OweOf(id)' = OweOf(id)
  BY SameOwed DEF Bytes
<1>2. OweOf(id) \in Nat /\ st[r].own_bytes \in Int
  BY OweTypes, RunTypes DEF Types
<1>3. \A name \in files'[r] : name.kind = "temp" /\ name.id = id => TempKnown(r, name)'
  BY SameTemps
<1>4. QED
  BY <1>1, <1>2, <1>3 DEF Paid

LEMMA PaidSaved ==
  ASSUME Types, Types', Directories, Entries, Bytes, NEW id \in Reports, NEW r \in Runs,
         r = job[id].run, write_saved(id)
  PROVE  Paid(id, r)
<1> USE DEF Types
<1>1. r = job[id].run /\ Frame(id, r)
  BY DoesWriteSaved, FrameStays
<1>2. /\ job[id].pc = "Linked" /\ job'[id].pc \in {"Saved", "Resaved", "Kept"}
      /\ job'[id].own = Pinned /\ job'[id].bytes = Size
      /\ st'[r].own_bytes = st[r].own_bytes + Size /\ st'[r].adopted_bytes = st[r].adopted_bytes
      /\ st'[r].stray = st[r].stray \cup (IF TempName(id) \in files[r] THEN {StrayOf(id, TRUE)} ELSE {})
      /\ files'[r] = files[r]
  <2> DEFINE flown == IF job[id].kind = "Dispatch" /\ ~job[id].again THEN -1 ELSE 0
             settled == IF job[id].again THEN -1 ELSE 0
  <2>1. Moves(r, Size, -1, flown, settled)
    BY <1>1, DoesWriteSaved
  <2> HIDE DEF flown, settled
  <2>2. st'[r].own_bytes = st[r].own_bytes + Size /\ st'[r].adopted_bytes = st[r].adopted_bytes
    BY <2>1 DEF Moves
  <2>3. QED
    BY <1>1, <2>2, DoesWriteSaved
<1>3. sweeping' = sweeping /\ phase' = phase /\ job'[id].run = r
  BY <1>1, FrameStays
<1>4. Swept(id, "Unlinked")' <=> Swept(id, "Unlinked")
  BY <1>1, <1>3 DEF Swept
<1>5. Sized(id)'
  BY <1>2, SpanFacts, Sizes DEF Sized
<1>6. OweOf(id)' - OweOf(id) <= Size
  <2>1. ~Lost(id)
    BY <1>2 DEF Lost
  <2>2. OweOf(id)' = Size + (IF Lost(id)' THEN Size ELSE 0)
    BY <1>2, SpanFacts DEF OweOf
  <2>3. CASE Lost(id)'
    <3>1. Swept(id, "Unlinked")
      BY <1>2, <1>4, <2>3, SpanFacts DEF Lost
    <3>2. job[id].own # Nothing /\ job[id].bytes # 0
      BY <3>1 DEF Bytes, Sized
    <3>3. job[id].bytes \in Nat /\ Size <= job[id].bytes
      BY <3>2, JobTypes, Sizes
    <3>4. QED
      BY <2>2, <2>3, <3>2, <3>3, OweTypes, Sizes
  <2>4. CASE ~Lost(id)'
    BY <2>2, <2>4, OweTypes, Sizes
  <2>5. QED
    BY <2>3, <2>4
<1>7. \A name \in files'[r] : name.kind = "temp" /\ name.id = id => TempKnown(r, name)'
  <2> SUFFICES ASSUME NEW name \in files[r], name.kind = "temp", name.id = id
               PROVE  \E s \in st'[r].stray : s.name = name
    BY <1>2 DEF TempKnown
  <2>1. TempKnown(r, name)
    BY <1>1, FrameStays DEF Bytes
  <2>2. CASE \E s \in st[r].stray : s.name = name
    BY <1>2, <2>2
  <2>3. CASE name = TempName(id)
    <3>1. StrayOf(id, TRUE) \in st'[r].stray
      BY <1>2, <2>3
    <3>2. StrayOf(id, TRUE).name = TempName(id)
      BY DEF StrayOf
    <3>3. QED
      BY <2>3, <3>1, <3>2
  <2>4. QED
    BY <2>1, <2>2, <2>3 DEF TempKnown
<1>8. st[r].own_bytes \in Int
  BY RunTypes
<1>9. OweOf(id)' - OweOf(id) <= st'[r].own_bytes - st[r].own_bytes
  BY <1>2, <1>6, <1>8, Sizes
<1>10. QED
  BY <1>2, <1>5, <1>7, <1>9 DEF Paid

LEMMA PaidFailed ==
  ASSUME Types, Types', Directories, Entries, Bytes, NEW id \in Reports, NEW r \in Runs,
         r = job[id].run, write_failed(id)
  PROVE  Paid(id, r)
<1> USE DEF Types
<1>1. r = job[id].run /\ Frame(id, r)
  BY DoesWriteFailed, FrameStays
<1>2. job[id].pc \in {"Reserved", "Temp", "Linked"} /\ job'[id].pc \in {"Gone", "Failed"}
  BY DoesWriteFailed DEF IsOver
<1>3. PICK tempStays, ownStays \in BOOLEAN :
        /\ tempStays => TempName(id) \in files[r]
        /\ ownStays => job[id].pc = "Linked"
        /\ files'[r] = files[r] \ ((IF tempStays THEN {} ELSE {TempName(id)})
                          \cup (IF job[id].pc = "Linked" /\ ~ownStays THEN {OwnName(id)} ELSE {}))
        /\ st'[r].stray = IF tempStays THEN st[r].stray \cup {StrayOf(id, FALSE)} ELSE st[r].stray
        /\ Moves(r, IF ownStays THEN Room ELSE 0, -1, 0, 0)
        /\ job'[id].own = (IF ownStays THEN Orphan ELSE job[id].own)
        /\ job'[id].bytes = (IF ownStays THEN Room ELSE job[id].bytes)
  <2>1. PICK tempStays, ownStays \in BOOLEAN :
          /\ tempStays => TempName(id) \in files[job[id].run]
          /\ TempName(id) \in files[job[id].run] /\ job[id].pc = "Linked" => tempStays
          /\ ownStays => job[id].pc = "Linked"
          /\ files'[job[id].run] =
               files[job[id].run]
                 \ ((IF tempStays THEN {} ELSE {TempName(id)})
                      \cup (IF job[id].pc = "Linked" /\ ~ownStays THEN {OwnName(id)} ELSE {}))
          /\ st'[job[id].run].stray =
               IF tempStays THEN st[job[id].run].stray \cup {StrayOf(id, FALSE)}
                            ELSE st[job[id].run].stray
          /\ Moves(job[id].run, IF ownStays THEN Room ELSE 0, -1, 0, 0)
          /\ job'[id].own = (IF ownStays THEN Orphan ELSE job[id].own)
          /\ job'[id].bytes = (IF ownStays THEN Room ELSE job[id].bytes)
    BY DoesWriteFailed
  <2> WITNESS tempStays \in BOOLEAN, ownStays \in BOOLEAN
  <2>2. QED
    BY <1>1, <2>1
<1>4. sweeping' = sweeping /\ phase' = phase /\ job'[id].run = r
  BY <1>1, FrameStays
<1>5. Swept(id, "Unlinked")' <=> Swept(id, "Unlinked")
  BY <1>1, <1>4 DEF Swept
<1>6. Sized(id)
  BY DEF Bytes
<1>7. Sized(id)'
  BY <1>3, <1>5, <1>6, SpanFacts, Sizes DEF Sized
<1>8. OwnName(id) # TempName(id)
  BY NameFields
<1>9. OweOf(id)' - OweOf(id) <= (IF ownStays THEN Room ELSE 0)
  <2>1. CASE ownStays
    <3>1. ~Lost(id)
      BY <1>3, <2>1 DEF Lost
    <3>2. OweOf(id)' = Room + (IF Lost(id)' THEN Size ELSE 0)
      BY <1>3, <2>1, SpanFacts DEF OweOf
    <3>3. CASE Lost(id)'
      <4>1. Swept(id, "Unlinked")
        BY <1>3, <1>5, <2>1, <3>3, SpanFacts DEF Lost
      <4>2. job[id].own # Nothing /\ job[id].bytes # 0
        BY <1>6, <4>1 DEF Sized
      <4>3. job[id].bytes \in Nat /\ Size <= job[id].bytes
        BY <4>2, JobTypes, Sizes
      <4>4. QED
        BY <2>1, <3>2, <3>3, <4>2, <4>3, OweTypes, Sizes
    <3>4. CASE ~Lost(id)'
      BY <2>1, <3>2, <3>4, OweTypes, Sizes
    <3>5. QED
      BY <3>3, <3>4
  <2>2. CASE ~ownStays /\ job[id].pc = "Linked"
    <3>1. ~Lost(id) /\ ~Lost(id)'
      BY <1>3, <1>4, <2>2 DEF Lost, OwnName
    <3>2. OweOf(id)' = OweOf(id)
      BY <1>3, <2>2, <3>1 DEF OweOf
    <3>3. QED
      BY <2>2, <3>2, OweTypes
  <2>3. CASE ~ownStays /\ job[id].pc # "Linked"
    <3>1. OwnName(id) \in files'[r] <=> OwnName(id) \in files[r]
      BY <1>3, <1>8, <2>3
    <3>2. OweOf(id)' = OweOf(id)
      BY <1>1, <1>2, <1>3, <1>6, <2>3, <3>1, SameOwed
    <3>3. QED
      BY <2>3, <3>2, OweTypes
  <2>4. QED
    BY <2>1, <2>2, <2>3
<1>10. \A name \in files'[r] : name.kind = "temp" /\ name.id = id => TempKnown(r, name)'
  <2> SUFFICES ASSUME NEW name \in files'[r], name.kind = "temp", name.id = id
               PROVE  \E s \in st'[r].stray : s.name = name
    BY DEF TempKnown
  <2>1. TempKnown(r, name) /\ name \in files[r]
    BY <1>1, <1>3, FrameStays DEF Bytes
  <2>2. CASE \E s \in st[r].stray : s.name = name
    BY <1>3, <2>2
  <2>3. CASE name = TempName(id)
    <3>1. tempStays
      BY <1>3, <2>3
    <3>2. StrayOf(id, FALSE) \in st'[r].stray
      BY <1>3, <3>1
    <3>3. StrayOf(id, FALSE).name = TempName(id)
      BY DEF StrayOf
    <3>4. QED
      BY <2>3, <3>2, <3>3
  <2>4. QED
    BY <2>1, <2>2, <2>3 DEF TempKnown
<1>11. /\ st[r].own_bytes \in Int /\ st[r].stray \subseteq st'[r].stray
       /\ st'[r].own_bytes = st[r].own_bytes + (IF ownStays THEN Room ELSE 0)
       /\ st'[r].adopted_bytes = st[r].adopted_bytes
  BY <1>3, RunTypes DEF Moves
<1>12. OweOf(id)' \in Int /\ OweOf(id) \in Nat
  <2>1. job'[id].bytes \in {0, Size, Room}
    BY DEF Typed, Jobs
  <2>2. QED
    BY <2>1, OweTypes, Sizes DEF OweOf
<1>13. QED
  BY <1>1, <1>7, <1>9, <1>10, <1>11, <1>12, Sizes DEF Paid

\* Every other step of a job.
LEMMA PaidStep ==
  ASSUME Types, Types', Directories, Directories', Entries, Bytes, NEW id \in Reports,
         NEW r \in Runs, Frame(id, r), Tidy(id, r), Write(id) \/ Lifetime(id)
  PROVE  Paid(id, r)
<1> USE DEF Types
<1>1. /\ sweeping' = sweeping /\ phase' = phase /\ job'[id].run = r /\ phase[r] = "Up"
      /\ st[r].own_bytes \in Int
  BY FrameStays, RunTypes
<1>2. Kinds(id) /\ Owns(id) /\ Files(id) /\ Sized(id)
  BY DEF Entries, Bytes
<1>3. ASSUME NEW q \in Runs, NEW kind \in {"Report", "Dispatch"}, reserve(q, id, kind)
      PROVE  Paid(id, r)
  <2>1. /\ Frame(id, q) /\ SameLife(id) /\ job[id].pc = "New" /\ job'[id].pc = "Reserved"
        /\ Moves(q, 0, 1, IF kind = "Dispatch" THEN 1 ELSE 0, 0)
        /\ st'[q].stray = st[q].stray /\ files'[q] = files[q]
    BY <1>3, DoesReserve
  <2>2. q = r
    BY <1>1, <2>1, FrameStays
  <2>3. job[id].run \notin Runs /\ job[id].own = Nothing /\ job'[id].own = Nothing
    BY <1>2, <2>1, StoreAssumption DEF Kinds, NoJob, SameLife
  <2>4. \A name \in files[r] : name.id # id
    BY <2>3 DEF Directories, NamesHome
  <2>5. ~Swept(id, "Unlinked")'
    <3>1. sweeping[r].step # "Idle" => sweeping[r].id # id
      BY <2>3 DEF Directories, SweepsHome
    <3>2. QED
      BY <1>1, <3>1 DEF Swept
  <2>6. ~Lost(id) /\ ~Lost(id)'
    BY <1>1, <2>1, <2>2, <2>3, <2>4, NameFields DEF Lost, Up
  <2>7. OweOf(id) = 0 /\ OweOf(id)' = 0
    BY <2>3, <2>6 DEF OweOf
  <2>8. Sized(id)'
    BY <2>3, <2>5 DEF Sized
  <2>9. st'[r].own_bytes = st[r].own_bytes /\ st'[r].adopted_bytes = st[r].adopted_bytes
    BY <1>1, <2>1, <2>2 DEF Moves
  <2>10. QED
    BY <1>1, <2>1, <2>2, <2>4, <2>7, <2>8, <2>9 DEF Paid
<1>4. ASSUME job[id].pc # "New" PROVE job[id].run = r
  BY <1>4 DEF Tidy
<1>5. CASE release(id) \/ save_held(id) \/ retry_held(id) \/ end_held(id)
  <2>1. job[id].run = r
    BY <1>4, <1>5, DoesRelease, DoesSaveHeld, DoesRetryHeld, DoesEndHeld
  <2>2. /\ job'[id].own = job[id].own /\ job'[id].bytes = job[id].bytes
        /\ job[id].pc \notin {"Temp", "Linked"} /\ job'[id].pc # "Linked"
        /\ st'[r].stray = st[r].stray /\ files'[r] = files[r]
    <3>1. CASE release(id)
      BY <2>1, <3>1, DoesRelease DEF IsOver
    <3>2. CASE save_held(id)
      BY <2>1, <3>2, DoesSaveHeld
    <3>3. CASE retry_held(id)
      BY <2>1, <3>3, DoesRetryHeld DEF SameLife
    <3>4. CASE end_held(id)
      BY <2>1, <3>4, DoesEndHeld DEF IsOver
    <3>5. QED
      BY <1>5, <3>1, <3>2, <3>3, <3>4
  <2>3. /\ st'[r].own_bytes = st[r].own_bytes + 0 /\ st'[r].adopted_bytes = st[r].adopted_bytes
    BY <1>5, <2>1, DoesRelease, DoesSaveHeld, DoesRetryHeld, DoesEndHeld DEF Moves
  <2>4. QED
    BY <1>1, <2>1, <2>2, <2>3, SamePaid
<1>6. CASE write_temp(id)
  <2>1. /\ job[id].run = r /\ job[id].pc = "Reserved" /\ job'[id].pc = "Temp" /\ SameLife(id)
        /\ SameTry(id)
    BY <1>4, <1>6, DoesWriteTemp
  <2>2. /\ Moves(r, 0, 0, 0, 0) /\ st'[r].stray = st[r].stray
        /\ files'[r] = files[r] \cup {TempName(id)}
    BY <1>6, <2>1, DoesWriteTemp
  <2>3. /\ st'[r].own_bytes = st[r].own_bytes + 0 /\ st'[r].adopted_bytes = st[r].adopted_bytes
    BY <2>2 DEF Moves
  <2>4. OwnName(id) \in files'[r] <=> OwnName(id) \in files[r]
    BY <2>2, NameFields
  <2>5. Sized(id)' /\ OweOf(id)' = OweOf(id)
    BY <1>2, <2>1, <2>4, SameOwed DEF SameLife
  <2>6. \A name \in files'[r] : name.kind = "temp" /\ name.id = id => TempKnown(r, name)'
    <3> SUFFICES ASSUME NEW name \in files'[r], name.kind = "temp", name.id = id
                 PROVE  TempKnown(r, name)'
      OBVIOUS
    <3>1. CASE name \in files[r]
      <4>1. TempKnown(r, name)
        BY <1>1, <3>1 DEF Bytes
      <4>2. QED
        BY <2>1, <2>2, <4>1 DEF TempKnown
    <3>2. CASE name = TempName(id)
      BY <2>1, <3>2 DEF TempKnown, TempName, SameTry
    <3>3. QED
      BY <2>2, <3>1, <3>2
  <2>7. QED
    BY <1>1, <2>2, <2>3, <2>5, <2>6, OweTypes DEF Paid
<1>7. CASE write_link(id)
  <2>1. /\ job[id].run = r /\ job[id].pc = "Temp" /\ job'[id].pc = "Linked" /\ SameLife(id)
        /\ SameTry(id)
    BY <1>4, <1>7, DoesWriteLink
  <2>2. /\ Moves(r, 0, 0, 0, 0) /\ st'[r].stray = st[r].stray
        /\ OwnName(id) \notin files[r]
        /\ \/ files'[r] = files[r] \cup {OwnName(id)}
           \/ files'[r] = (files[r] \ {TempName(id)}) \cup {OwnName(id)}
    BY <1>7, <2>1, DoesWriteLink
  <2>3. /\ st'[r].own_bytes = st[r].own_bytes + 0 /\ st'[r].adopted_bytes = st[r].adopted_bytes
    BY <2>2 DEF Moves
  <2>4. ~Lost(id) /\ ~Lost(id)'
    BY <2>1, <2>2 DEF Lost
  <2>5. OweOf(id)' = OweOf(id)
    BY <2>1, <2>4 DEF OweOf, SameLife
  <2>6. Sized(id)'
    BY <1>1, <1>2, <2>1 DEF Sized, Swept, SameLife
  <2>7. \A name \in files'[r] : name.kind = "temp" /\ name.id = id => name \in files[r]
    BY <2>2, NameFields
  <2>8. \A name \in files'[r] : name.kind = "temp" /\ name.id = id => TempKnown(r, name)'
    BY <2>1, <2>2, <2>7, SameTemps DEF SameTry
  <2>9. QED
    BY <1>1, <2>2, <2>3, <2>5, <2>6, <2>8, OweTypes DEF Paid
<1>8. CASE write_saved(id)
  BY <1>4, <1>8, PaidSaved, DoesWriteSaved
<1>9. CASE write_failed(id)
  <2>1. job[id].pc # "New"
    BY <1>9, DoesWriteFailed
  <2>2. QED
    BY <1>4, <1>9, <2>1, PaidFailed
<1>10. CASE continue_lifetime(id)
  <2>1. /\ job[id].run = r /\ job[id].pc = "Resaved" /\ job'[id].pc = "Kept"
        /\ job'[id].bytes = job[id].bytes
        /\ job'[id].own = IF job[id].body.state # "Pinned" /\ Tracked(job[id].own)
                            THEN job[id].body ELSE job[id].own
    BY <1>4, <1>10, DoesContinueLifetime
  <2>2. st'[r] = st[r] /\ files'[r] = files[r]
    BY <1>10, <2>1, DoesContinueLifetime
  <2>3. job[id].body # Nothing /\ (Tracked(job[id].own) => job[id].own # Nothing)
    BY <2>1, SpanFacts DEF Bodied
  <2>4. QED
    BY <1>1, <2>1, <2>2, <2>3, SamePaid
<1>11. CASE accept(id)
  <2>1. /\ job[id].run = r /\ job[id].pc = "Saved" /\ job'[id].pc = "Kept" /\ SameLife(id)
    BY <1>4, <1>11, DoesAccept
  <2>2. st'[r] = st[r] /\ files'[r] = files[r]
    BY <1>11, <2>1, DoesAccept
  <2>3. QED
    BY <1>1, <2>1, <2>2, SamePaid DEF SameLife
<1>12. CASE discard(id)
  <2>1. /\ job[id].run = r /\ job[id].pc = "Saved" /\ job'[id].pc = "Gone"
    BY <1>4, <1>12, DoesDiscard DEF IsOver
  <2>2. /\ st'[r].stray = st[r].stray
        /\ \/ /\ job'[id].own = Nothing
              /\ Moves(r, IF job[id].own = Nothing THEN 0 ELSE -job[id].bytes, 0, 0, 0)
              /\ files'[r] = files[r] \ {OwnName(id)}
           \/ /\ job'[id].own = Orphan /\ job'[id].bytes = job[id].bytes
              /\ Moves(r, 0, 0, 0, 0)
              /\ files'[r] = files[r]
    BY <1>12, <2>1, DoesDiscard
  <2>3. CASE /\ job'[id].own = Nothing
             /\ Moves(r, IF job[id].own = Nothing THEN 0 ELSE -job[id].bytes, 0, 0, 0)
             /\ files'[r] = files[r] \ {OwnName(id)}
    <3>1. job[id].own = Pinned /\ job[id].own # Nothing /\ job[id].bytes \in Nat
      BY <1>2, <2>1, SpanFacts, JobTypes, Sizes DEF Owns
    <3>2. /\ st'[r].own_bytes = st[r].own_bytes - job[id].bytes
          /\ st'[r].adopted_bytes = st[r].adopted_bytes
      BY <1>1, <2>3, <3>1 DEF Moves
    <3>3. ~Swept(id, "Unlinked")
      BY <1>2, <2>1 DEF Owns, Kinds
    <3>4. Sized(id)'
      BY <1>1, <2>1, <2>3, <3>3 DEF Sized, Swept
    <3>5. ~Lost(id)'
      BY <1>1, <2>3 DEF Lost, OwnName
    <3>6. OweOf(id)' = 0 /\ job[id].bytes <= OweOf(id) /\ OweOf(id) \in Nat
      BY <2>3, <3>1, <3>5, OweTypes DEF OweOf
    <3>7. OweOf(id)' - OweOf(id) <= st'[r].own_bytes - st[r].own_bytes
      BY <1>1, <3>1, <3>2, <3>6
    <3>8. \A name \in files'[r] : name.kind = "temp" /\ name.id = id => TempKnown(r, name)'
      BY <2>1, <2>2, <2>3, SameTemps
    <3>9. QED
      BY <2>2, <3>2, <3>4, <3>7, <3>8 DEF Paid
  <2>4. CASE /\ job'[id].own = Orphan /\ job'[id].bytes = job[id].bytes
             /\ Moves(r, 0, 0, 0, 0)
             /\ files'[r] = files[r]
    <3>1. job[id].own # Nothing /\ Orphan # Nothing
      BY <1>2, <2>1, SpanFacts DEF Owns
    <3>2. st'[r].own_bytes = st[r].own_bytes + 0 /\ st'[r].adopted_bytes = st[r].adopted_bytes
      BY <2>4 DEF Moves
    <3>3. QED
      BY <1>1, <2>1, <2>2, <2>4, <3>1, <3>2, SamePaid
  <2>5. QED
    BY <2>2, <2>3, <2>4
<1>13. CASE acknowledged(id) \/ recovered(id)
  <2>1. PICK life \in Spans, message \in {"Aside", "Acked"}, fromPinned \in BOOLEAN :
          Dated(life) /\ Posted(id) /\ Settles(id, life, message, fromPinned)
    BY <1>13, SettlingLife
  <2>2. /\ job[id].run = r /\ job'[id].pc = job[id].pc /\ SameTry(id)
        /\ job'[id].bytes = job[id].bytes
        /\ \/ job'[id].own = job[id].own
           \/ job'[id].own = life /\ (job[id].own.state = "Pinned" \/ Tracked(job[id].own))
    BY <1>4, <2>1, DoesSettle
  <2>3. st'[r] = st[r] /\ files'[r] = files[r]
    BY <2>1, <2>2, DoesSettle
  <2>4. life # Nothing /\ (job'[id].own # Nothing <=> job[id].own # Nothing)
    BY <2>1, <2>2, SpanFacts DEF Tracked, Nothing
  <2>5. QED
    BY <1>1, <2>2, <2>3, <2>4, SamePaid DEF SameTry
<1>14. QED
  BY <1>3, <1>5, <1>6, <1>7, <1>8, <1>9, <1>10, <1>11, <1>12, <1>13 DEF Write, Lifetime

\* The jobs a step leaves alone have their files too.
LEMMA OthersLost ==
  ASSUME Types, NEW id \in Reports, NEW r \in Runs, Frame(id, r), Tidy(id, r),
         NEW o \in Reports, o # id
  PROVE  job'[o] = job[o] /\ (Swept(o, "Unlinked")' <=> Swept(o, "Unlinked")) /\ (Lost(o)' <=> Lost(o))
<1>1. /\ sweeping' = sweeping /\ phase' = phase /\ job'[o] = job[o]
      /\ \A q \in Runs : q # r => files'[q] = files[q]
  BY FrameStays
<1>2. Swept(o, "Unlinked")' <=> Swept(o, "Unlinked")
  BY <1>1 DEF Swept
<1>3. OwnName(o) \in files'[r] <=> OwnName(o) \in files[r]
  <2>1. OwnName(o).id = o /\ OwnName(o) # OwnName(id)
    BY NameFields
  <2>2. QED
    BY <2>1 DEF Tidy
<1>4. job[o].run \in Runs => (OwnName(o) \in files'[job[o].run] <=> OwnName(o) \in files[job[o].run])
  BY <1>1, <1>3
<1>5. Lost(o)' <=> Lost(o)
  BY <1>1, <1>2, <1>4 DEF Lost, Up, OwnName
<1>6. QED
  BY <1>1, <1>2, <1>5

LEMMA BytesJob ==
  ASSUME Types, Types', Directories, Directories', Entries, Bytes, NEW id \in Reports,
         Write(id) \/ Lifetime(id)
  PROVE  Bytes'
<1> USE DEF Types
<1>1. PICK r \in Runs : Frame(id, r) /\ Tidy(id, r)
  BY JobTidy
<1>2. Paid(id, r)
  BY <1>1, PaidStep
<1>3. /\ phase' = phase /\ phase[r] = "Up" /\ job'[id].run = r
      /\ \A q \in Runs : q # r => st'[q] = st[q] /\ files'[q] = files[q]
  BY <1>1, FrameStays
<1>4. job[id].run = r \/ (job[id].run \notin Runs /\ job[id].own = Nothing)
  BY <1>1, StoreAssumption DEF Tidy, Entries, Kinds, NoJob
<1>5. ASSUME NEW o \in Reports, o # id
      PROVE  /\ job'[o] = job[o] /\ (Swept(o, "Unlinked")' <=> Swept(o, "Unlinked"))
             /\ (Lost(o)' <=> Lost(o))
  BY <1>1, <1>5, OthersLost
<1>6. \A o \in Reports : Sized(o)'
  <2> SUFFICES ASSUME NEW o \in Reports, o # id PROVE Sized(o)'
    BY <1>2 DEF Paid
  <2>1. Sized(o)
    BY DEF Bytes
  <2>2. QED
    BY <1>5, <2>1 DEF Sized
<1>7. /\ Owed(r)' = Owed(r) + OweOf(id)' - OweOf(id)
      /\ \A q \in Runs : q # r => Owed(q)' = Owed(q)
      /\ Owed(r) \in Int /\ OweOf(id) \in Int /\ OweOf(id)' \in Int
  <2>1. Sized(id)
    BY DEF Bytes
  <2>2. QED
    BY <1>3, <1>4, <1>5, <1>6, <2>1, OwedMove
<1>8. ASSUME NEW q \in Runs PROVE Owed(q)' <= st'[q].own_bytes
  <2>1. CASE q # r
    BY <1>3, <1>7, <2>1 DEF Bytes
  <2>2. st[r].own_bytes \in Int /\ st'[r].own_bytes \in Int
    <3>1. st' \in [Runs -> Counters]
      BY DEF Typed
    <3>2. QED
      BY <3>1, RunTypes DEF Counters
  <2>3. CASE q = r
    BY <1>2, <1>7, <2>2, <2>3 DEF Bytes, Paid
  <2>4. QED
    BY <2>1, <2>3
<1>9. ASSUME NEW q \in Runs PROVE Adopteds(q)' = Adopteds(q)
  <2>1. CASE q # r
    BY <1>3, <2>1 DEF Adopteds
  <2>2. \A name \in files[r] : name.kind = "adopted" => name.id # id
    BY <1>3, <1>4 DEF Directories, NamesHome
  <2>3. Adopteds(r)' = Adopteds(r)
    BY <1>1, <2>2, NameFields DEF Adopteds, Tidy
  <2>4. QED
    BY <2>1, <2>3
<1>10. ASSUME NEW q \in Runs, phase[q] = "Up", NEW name \in files'[q], name.kind = "temp"
       PROVE  TempKnown(q, name)'
  <2>1. CASE q # r
    <3>1. name \in files[q] /\ st'[q] = st[q]
      BY <1>3, <1>10, <2>1
    <3>2. job[name.id].run = q /\ name.id \in Reports
      BY <1>10, <3>1, NameTypes, RunTypes DEF Directories, NamesHome
    <3>3. name.id # id /\ job'[name.id] = job[name.id]
      BY <1>4, <1>5, <2>1, <3>2
    <3>4. TempKnown(q, name)
      BY <1>10, <3>1 DEF Bytes
    <3>5. QED
      BY <3>1, <3>3, <3>4 DEF TempKnown, TempName
  <2>2. CASE q = r /\ name.id # id
    <3>1. name \in files[r]
      BY <1>1, <1>10, <2>2, NameFields DEF Tidy
    <3>2. TempKnown(r, name)
      BY <1>3, <1>10, <3>1 DEF Bytes
    <3>3. name.id \in Reports /\ job'[name.id] = job[name.id]
      BY <1>5, <2>2, <3>1, NameTypes, RunTypes
    <3>4. st[r].stray \subseteq st'[r].stray
      BY <1>2 DEF Paid
    <3>5. QED
      BY <2>2, <3>2, <3>3, <3>4 DEF TempKnown, TempName
  <2>3. CASE q = r /\ name.id = id
    BY <1>2, <1>10, <2>3 DEF Paid
  <2>4. QED
    BY <2>1, <2>2, <2>3
<1>11. ASSUME NEW q \in Runs PROVE st'[q].adopted_bytes = st[q].adopted_bytes
  BY <1>2, <1>3 DEF Paid
<1>12. QED
  BY <1>3, <1>6, <1>8, <1>9, <1>10, <1>11 DEF Bytes

\* A run whose jobs owe what they did.
LEMMA OwedStays ==
  ASSUME NEW q \in Runs,
         \A id \in Reports : job'[id].run = q <=> job[id].run = q,
         \A id \in Reports : job[id].run = q =>
           /\ job'[id].own # Nothing <=> job[id].own # Nothing
           /\ job'[id].bytes = job[id].bytes
           /\ Lost(id)' <=> Lost(id)
  PROVE  Owed(q)' = Owed(q)
<1>1. Entered(q)' = Entered(q)
  BY DEF Entered
<1>2. Roomy(q)' = Roomy(q)
  BY <1>1 DEF Roomy, Entered
<1>3. Losts(q)' = Losts(q)
  BY DEF Losts
<1>4. QED
  BY <1>1, <1>2, <1>3 DEF Owed

\* A step that is no unlink and no drop, and moves no file.
LEMMA BytesStay ==
  ASSUME Types, Types', Bytes, phase' = phase, st' = st, files' = files,
         \A id \in Reports :
           /\ job'[id].run = job[id].run /\ job'[id].pc = job[id].pc /\ job'[id].try = job[id].try
           /\ job'[id].bytes = job[id].bytes
           /\ job'[id].own # Nothing <=> job[id].own # Nothing,
         \A r \in Runs : \/ sweeping'[r] = sweeping[r]
                         \/ sweeping[r].step # "Unlinked" /\ sweeping'[r].step # "Unlinked"
  PROVE  Bytes'
<1> USE DEF Types
<1>1. ASSUME NEW id \in Reports
      PROVE  (Swept(id, "Unlinked")' <=> Swept(id, "Unlinked")) /\ (Lost(id)' <=> Lost(id))
  <2>1. Swept(id, "Unlinked")' <=> Swept(id, "Unlinked")
    BY DEF Swept
  <2>2. QED
    BY <2>1 DEF Lost, Up, OwnName
<1>2. \A id \in Reports : Sized(id)'
  BY <1>1 DEF Bytes, Sized
<1>3. \A q \in Runs : Owed(q)' = Owed(q)
  BY <1>1, OwedStays
<1>4. \A q \in Runs : Adopteds(q)' = Adopteds(q)
  BY DEF Adopteds
<1>5. ASSUME NEW q \in Runs, phase[q] = "Up", NEW name \in files[q], name.kind = "temp"
      PROVE  TempKnown(q, name)'
  <2>1. TempKnown(q, name) /\ name.id \in Reports
    BY <1>5, NameTypes, RunTypes DEF Bytes
  <2>2. QED
    BY <2>1 DEF TempKnown, TempName
<1>6. QED
  BY <1>2, <1>3, <1>4, <1>5 DEF Bytes

\* A file other than an own one comes or goes, and no job moves.
LEMMA LostStays ==
  ASSUME Types, NEW id \in Reports, job' = job, sweeping' = sweeping,
         Up(job[id].run)' <=> Up(job[id].run),
         Up(job[id].run) => (OwnName(id) \in files'[job[id].run] <=> OwnName(id) \in files[job[id].run])
  PROVE  (Sized(id)' <=> Sized(id)) /\ (Lost(id)' <=> Lost(id))
<1>1. Swept(id, "Unlinked")' <=> Swept(id, "Unlinked")
  BY DEF Swept
<1>2. QED
  BY <1>1 DEF Lost, Sized, OwnName

\* There are finitely many names.
LEMMA NamesFinite == IsFiniteSet(Names)
<1> DEFINE top == MaxTries + MaxTime + RecoveryRetention
           kinds == {"own", "temp", "adopted"}
           T == kinds \X (Reports \X (0..top))
           f == [name \in Names |-> <<name.kind, <<name.id, name.n>>>>]
<1>1. \A name \in Names : name.kind \in kinds /\ name.id \in Reports /\ name.n \in 0..top
  BY StoreAssumption DEF Names, Deadlines
<1>2. IsFiniteSet(kinds)
  <2>1. IsFiniteSet({"own"}) /\ IsFiniteSet({"temp"}) /\ IsFiniteSet({"adopted"})
    BY FS_Singleton
  <2>2. IsFiniteSet({"own"} \cup {"temp"})
    BY <2>1, FS_Union
  <2>3. IsFiniteSet(({"own"} \cup {"temp"}) \cup {"adopted"})
    BY <2>1, <2>2, FS_Union
  <2>4. kinds = ({"own"} \cup {"temp"}) \cup {"adopted"}
    OBVIOUS
  <2>5. QED
    BY <2>3, <2>4
<1>3. IsFiniteSet(0..top)
  BY StoreAssumption, FS_Interval
<1> HIDE DEF top
<1>4. IsFiniteSet(Reports \X (0..top))
  BY <1>3, StoreAssumption, FS_Product
<1>5. IsFiniteSet(T)
  BY <1>2, <1>4, FS_Product
<1>6. f \in [Names -> T]
  BY <1>1
<1>7. \A x, y \in Names : x.kind = y.kind /\ x.id = y.id /\ x.n = y.n => x = y
  BY DEF Names
<1>8. \A x, y \in Names : f[x] = f[y] => x = y
  BY <1>7
<1> HIDE DEF T, f
<1>9. QED
  BY <1>5, <1>6, <1>8, CountKeys

LEMMA AdoptedsFinite ==
  ASSUME Typed, NEW r \in Runs
  PROVE  IsFiniteSet(files[r]) /\ IsFiniteSet(Adopteds(r)) /\ Cardinality(Adopteds(r)) \in Nat
<1>1. files[r] \subseteq Names /\ Adopteds(r) \subseteq Names
  BY RunTypes DEF Adopteds
<1>2. QED
  BY <1>1, NamesFinite, CountPart

LEMMA BytesUnlink ==
  ASSUME Types, Types', Directories, Entries, Bytes, NEW r \in Runs, sweep_unlink(r)
  PROVE  Bytes'
<1> USE DEF Types
<1>1. PICK id \in Reports : id = sweeping[r].id
  BY DoesSweepUnlink
<1>2. /\ sweeping[r].step = "Claimed"
      /\ \A o \in Runs : o # r => sweeping'[o] = sweeping[o] /\ files'[o] = files[o]
      /\ job' = job /\ st' = st /\ phase' = phase
  BY DoesSweepUnlink
<1>3. CASE files'[r] = files[r] /\ sweeping'[r] = Idle
  <2>1. files' = files
    BY <1>2, <1>3 DEF Typed
  <2>2. sweeping'[r].step # "Unlinked"
    BY <1>3 DEF Idle
  <2>3. QED
    BY <1>2, <2>1, <2>2, BytesStay
<1>4. CASE /\ files'[r] = files[r] \ {OwnName(id)}
           /\ sweeping'[r] = [id |-> id, step |-> "Unlinked"]
  <2>1. job[id].run = r /\ phase[r] = "Up" /\ job[id].own = Orphan
    <3>1. job[id].run = r /\ phase[r] = "Up"
      BY <1>1, <1>2 DEF Directories, SweepsHome
    <3>2. Swept(id, "Claimed") /\ Owns(id)
      BY <1>1, <1>2, <3>1 DEF Swept, Entries
    <3>3. QED
      BY <3>1, <3>2 DEF Owns
  <2>2. ASSUME NEW o \in Reports
        PROVE  Sized(o)' /\ (Lost(o)' <=> Lost(o))
    <3>1. Sized(o)
      BY DEF Bytes
    <3>2. CASE o = id
      <4>1. ~Swept(id, "Unlinked")
        BY <1>2, <2>1 DEF Swept
      <4>2. ~Lost(id) /\ ~Lost(id)'
        BY <1>2, <1>4, <2>1, <4>1, SpanFacts DEF Lost, OwnName
      <4>3. Sized(id)'
        BY <1>2, <2>1, <3>1, <3>2, SpanFacts DEF Sized
      <4>4. QED
        BY <3>2, <4>2, <4>3
    <3>3. CASE o # id
      <4>1. Swept(o, "Unlinked")' <=> Swept(o, "Unlinked")
        BY <1>1, <1>2, <1>4, <3>3 DEF Swept
      <4>2. OwnName(o) # OwnName(id)
        BY <3>3, NameFields
      <4>3. job[o].run \in Runs =>
              (OwnName(o) \in files'[job[o].run] <=> OwnName(o) \in files[job[o].run])
        BY <1>2, <1>4, <4>2
      <4>4. Lost(o)' <=> Lost(o)
        BY <1>2, <4>1, <4>3 DEF Lost, Up, OwnName
      <4>5. QED
        BY <1>2, <3>1, <4>1, <4>4 DEF Sized
    <3>4. QED
      BY <3>2, <3>3
  <2>3. \A q \in Runs : Owed(q)' = Owed(q)
    BY <1>2, <2>2, OwedStays
  <2>4. \A q \in Runs : Adopteds(q)' = Adopteds(q)
    BY <1>2, <1>4, NameFields DEF Adopteds
  <2>5. ASSUME NEW q \in Runs, phase[q] = "Up", NEW name \in files'[q], name.kind = "temp"
        PROVE  TempKnown(q, name)'
    <3>1. TempKnown(q, name)
      BY <1>2, <1>4, <2>5 DEF Bytes
    <3>2. QED
      BY <1>2, <3>1 DEF TempKnown, TempName
  <2>6. QED
    BY <1>2, <2>2, <2>3, <2>4, <2>5 DEF Bytes
<1>5. QED
  BY <1>1, <1>3, <1>4, DoesSweepUnlink

LEMMA BytesDrop ==
  ASSUME Types, Types', Directories, Bytes, NEW r \in Runs, sweep_drop(r)
  PROVE  Bytes'
<1> USE DEF Types
<1>1. PICK id \in Reports : id = sweeping[r].id
  BY DoesSweepDrop
<1>2. /\ sweeping[r].step = "Unlinked" /\ SameBut(id) /\ job'[id].own = Nothing
      /\ sweeping'[r] = Idle /\ st'[r].stray = st[r].stray
      /\ \A o \in Runs : o # r => sweeping'[o] = sweeping[o] /\ st'[o] = st[o]
      /\ Moves(r, IF job[id].own = Nothing THEN 0 ELSE -job[id].bytes, 0, 0, 0)
      /\ files' = files /\ phase' = phase
  BY <1>1, DoesSweepDrop
<1>3. job[id].run = r /\ job'[id].run = r /\ phase[r] = "Up"
  BY <1>1, <1>2 DEF Directories, SweepsHome, SameBut
<1>4. /\ \A o \in Reports : o # id => job'[o] = job[o]
      /\ job'[id].pc = job[id].pc /\ job'[id].try = job[id].try
  BY <1>2 DEF SameBut, SameTry
<1>5. Swept(id, "Unlinked") /\ ~Swept(id, "Unlinked")'
  BY <1>1, <1>2, <1>3 DEF Swept, Idle
<1>6. Sized(id) /\ job[id].own # Nothing /\ job[id].bytes \in Nat
  BY <1>5, JobTypes, Sizes DEF Bytes, Sized
<1>7. Sized(id)'
  BY <1>2, <1>5 DEF Sized
<1>8. Lost(id)' <=> Lost(id)
  BY <1>2, <1>3, <1>4, <1>5 DEF Lost, Up, OwnName
<1>9. ASSUME NEW o \in Reports, o # id
      PROVE  job'[o] = job[o] /\ Sized(o)' /\ (Lost(o)' <=> Lost(o))
  <2>1. Swept(o, "Unlinked")' <=> Swept(o, "Unlinked")
    BY <1>1, <1>2, <1>4, <1>9 DEF Swept, Idle
  <2>2. Sized(o)
    BY DEF Bytes
  <2>3. QED
    BY <1>2, <1>4, <1>9, <2>1, <2>2 DEF Lost, Sized, Up, OwnName
<1>10. /\ Owed(r)' = Owed(r) + OweOf(id)' - OweOf(id)
       /\ \A q \in Runs : q # r => Owed(q)' = Owed(q)
       /\ Owed(r) \in Int
  BY <1>3, <1>6, <1>7, <1>9, OwedMove
<1>11. OweOf(id)' = OweOf(id) - job[id].bytes /\ OweOf(id) \in Nat
  <2>1. OweOf(id) = job[id].bytes + (IF Lost(id) THEN Size ELSE 0)
    BY <1>6 DEF OweOf
  <2>2. OweOf(id)' = 0 + (IF Lost(id) THEN Size ELSE 0)
    BY <1>2, <1>8 DEF OweOf
  <2>3. QED
    BY <1>6, <2>1, <2>2, Sizes
<1>12. /\ st'[r].own_bytes = st[r].own_bytes - job[id].bytes /\ st[r].own_bytes \in Int
       /\ st'[r].adopted_bytes = st[r].adopted_bytes
  BY <1>2, <1>6, RunTypes DEF Moves
<1>13. ASSUME NEW q \in Runs PROVE Owed(q)' <= st'[q].own_bytes
  <2>1. CASE q # r
    BY <1>2, <1>10, <2>1 DEF Bytes
  <2>2. CASE q = r
    BY <1>6, <1>10, <1>11, <1>12, <2>2 DEF Bytes
  <2>3. QED
    BY <2>1, <2>2
<1>14. \A q \in Runs : Adopteds(q)' = Adopteds(q) /\ st'[q].adopted_bytes = st[q].adopted_bytes
  BY <1>2, <1>12 DEF Adopteds
<1>15. ASSUME NEW q \in Runs, phase[q] = "Up", NEW name \in files[q], name.kind = "temp"
       PROVE  TempKnown(q, name)'
  <2>1. TempKnown(q, name) /\ name.id \in Reports
    BY <1>15, NameTypes, RunTypes DEF Bytes
  <2>2. st'[q].stray = st[q].stray
    BY <1>2
  <2>3. job'[name.id].pc = job[name.id].pc /\ job'[name.id].try = job[name.id].try
    BY <1>4, <2>1
  <2>4. QED
    BY <2>1, <2>2, <2>3 DEF TempKnown, TempName
<1>16. QED
  BY <1>2, <1>7, <1>9, <1>13, <1>14, <1>15 DEF Bytes

\* A stray or an adopted file goes.
LEMMA BytesClean ==
  ASSUME Types, Types', Directories, Bytes, NEW r \in Runs, sweep_stray(r) \/ sweep_adopted(r)
  PROVE  Bytes'
<1> USE DEF Types
<1>1. /\ \A o \in Runs : o # r => st'[o] = st[o] /\ files'[o] = files[o]
      /\ job' = job /\ phase' = phase /\ sweeping' = sweeping /\ phase[r] = "Up"
      /\ st'[r].own_bytes = st[r].own_bytes + 0
  BY DoesSweepStray, DoesSweepAdopted, RunTypes DEF Moves, Adopts
<1>2. PICK gone \in Names : files'[r] = files[r] \ {gone} /\ gone.kind # "own"
                           /\ \/ /\ gone.kind = "temp"
                                 /\ \E s \in st[r].stray : s.name = gone /\ st'[r].stray = st[r].stray \ {s}
                                 /\ st'[r].adopted_bytes = st[r].adopted_bytes
                              \/ /\ gone.kind = "adopted" /\ gone \in files[r] /\ Adopts(r, -Size)
  <2>1. CASE sweep_stray(r)
    <3>1. PICK s \in st[r].stray : files'[r] = files[r] \ {s.name} /\ st'[r].stray = st[r].stray \ {s}
      BY <2>1, DoesSweepStray
    <3>2. s.name \in Names /\ s.name.kind = "temp"
      BY RunTypes DEF Directories, StraysTemp, Strays
    <3>3. st'[r].adopted_bytes = st[r].adopted_bytes
      BY <2>1, DoesSweepStray DEF Moves
    <3>4. QED
      BY <3>1, <3>2, <3>3
  <2>2. CASE sweep_adopted(r)
    BY <2>2, DoesSweepAdopted, RunTypes
  <2>3. QED
    BY <2>1, <2>2
<1>3. ASSUME NEW o \in Reports PROVE Sized(o)' /\ (Lost(o)' <=> Lost(o))
  <2>1. job[o].run \in Runs =>
          (OwnName(o) \in files'[job[o].run] <=> OwnName(o) \in files[job[o].run])
    BY <1>1, <1>2, NameFields
  <2>2. Sized(o)
    BY DEF Bytes
  <2>3. Up(job[o].run)' <=> Up(job[o].run)
    BY <1>1 DEF Up
  <2>4. QED
    BY <1>1, <2>1, <2>2, <2>3, LostStays DEF Up
<1>4. \A q \in Runs : Owed(q)' = Owed(q)
  BY <1>1, <1>3, OwedStays
<1>5. \A q \in Runs : Owed(q)' <= st'[q].own_bytes
  BY <1>1, <1>4, RunTypes DEF Bytes
<1>6. \A q \in Runs : q # r => Adopteds(q)' = Adopteds(q)
  BY <1>1 DEF Adopteds
<1>7. st[r].adopted_bytes = Size * Cardinality(Adopteds(r))
  BY <1>1 DEF Bytes
<1>8. st'[r].adopted_bytes = Size * Cardinality(Adopteds(r)')
  <2>1. CASE gone.kind = "temp" /\ st'[r].adopted_bytes = st[r].adopted_bytes
    <3>1. Adopteds(r)' = Adopteds(r)
      BY <1>2, <2>1 DEF Adopteds
    <3>2. QED
      BY <1>7, <2>1, <3>1
  <2>2. CASE gone.kind = "adopted" /\ gone \in files[r] /\ Adopts(r, -Size)
    <3>1. Adopteds(r)' = Adopteds(r) \ {gone} /\ gone \in Adopteds(r)
      BY <1>2, <2>2 DEF Adopteds
    <3> DEFINE n == Cardinality(Adopteds(r))
               m == Cardinality(Adopteds(r)')
    <3>2. m = n - 1 /\ n \in Nat /\ m \in Nat
      BY <3>1, AdoptedsFinite, CountRemove
    <3>3. st'[r].adopted_bytes = Size * n - Size
      BY <1>7, <2>2, <3>2, Sizes DEF Adopts
    <3> HIDE DEF n, m
    <3>4. n = m + 1
      BY <3>2
    <3>5. Size * n = Size * m + Size * 1
      BY <3>2, <3>4, Sizes, Multiples
    <3>6. Size * m \in Nat /\ Size * 1 = Size /\ Size \in Nat
      BY <3>2, Sizes, Multiples
    <3>7. st'[r].adopted_bytes = Size * m
      BY <3>3, <3>5, <3>6
    <3>8. QED
      BY <3>7 DEF m
  <2>3. QED
    BY <1>2, <2>1, <2>2
<1>9. ASSUME NEW q \in Runs, phase[q] = "Up", NEW name \in files'[q], name.kind = "temp"
      PROVE  TempKnown(q, name)'
  <2>1. name \in files[q] /\ TempKnown(q, name)
    BY <1>1, <1>2, <1>9 DEF Bytes
  <2>2. CASE q # r
    BY <1>1, <2>1, <2>2 DEF TempKnown, TempName
  <2>3. CASE q = r
    <3>1. CASE \E s \in st[r].stray : s.name = name
      <4>1. name # gone
        BY <1>2, <1>9, <2>3
      <4>2. \E s \in st'[r].stray : s.name = name
        BY <1>2, <3>1, <4>1 DEF Adopts
      <4>3. QED
        BY <2>3, <4>2 DEF TempKnown
    <3>2. CASE job[name.id].pc \in {"Temp", "Linked"} /\ name = TempName(name.id)
      BY <1>1, <3>2 DEF TempKnown, TempName
    <3>3. QED
      BY <2>1, <2>3, <3>1, <3>2 DEF TempKnown
  <2>4. QED
    BY <2>2, <2>3
<1>10. QED
  <2>1. \A q \in Runs :
          st'[q].adopted_bytes =
            IF phase'[q] \in {"Opening", "Up"} THEN Size * Cardinality(Adopteds(q)') ELSE 0
    <3> SUFFICES ASSUME NEW q \in Runs, q # r
                 PROVE  st'[q].adopted_bytes =
                          IF phase'[q] \in {"Opening", "Up"} THEN Size * Cardinality(Adopteds(q)') ELSE 0
      BY <1>1, <1>8
    <3>1. QED
      BY <1>1, <1>6 DEF Bytes
  <2>2. QED
    BY <1>1, <1>3, <1>5, <1>9, <2>1 DEF Bytes

\* A run begins, or hands its store over: it has no job yet, and before its
\* directory is listed no file.
LEMMA BytesOpen ==
  ASSUME Types, Types', Directories, Bytes, NEW r \in Runs, open_lock(r) \/ open_dir(r) \/ opened(r)
  PROVE  Bytes'
<1> USE DEF Types
<1>1. /\ files' = files /\ st' = st /\ job' = job /\ sweeping' = sweeping
      /\ \A q \in Runs : q # r => phase'[q] = phase[q]
      /\ \/ phase[r] = "Off" /\ phase'[r] = "Locked"
         \/ phase[r] = "Locked" /\ phase'[r] = "Opening"
         \/ phase[r] = "Opening" /\ phase'[r] = "Up"
  BY DoesOpenLock, DoesOpenDir, DoesOpened
<1>2. \A id \in Reports : job[id].run # r
  BY <1>1 DEF Directories, JobsHome
<1>3. ASSUME NEW id \in Reports PROVE Sized(id)' /\ (Lost(id)' <=> Lost(id))
  <2>1. Up(job[id].run)' <=> Up(job[id].run)
    BY <1>1, <1>2 DEF Up
  <2>2. Sized(id)
    BY DEF Bytes
  <2>3. QED
    BY <1>1, <2>1, <2>2, LostStays
<1>4. \A q \in Runs : Owed(q)' = Owed(q)
  BY <1>1, <1>3, OwedStays
<1>5. \A q \in Runs : Adopteds(q)' = Adopteds(q)
  BY <1>1 DEF Adopteds
<1>6. ASSUME NEW q \in Runs
      PROVE  st'[q].adopted_bytes =
               IF phase'[q] \in {"Opening", "Up"} THEN Size * Cardinality(Adopteds(q)') ELSE 0
  <2>1. st[q].adopted_bytes =
          IF phase[q] \in {"Opening", "Up"} THEN Size * Cardinality(Adopteds(q)) ELSE 0
    BY DEF Bytes
  <2>2. CASE q = r /\ phase[r] = "Locked"
    <3>1. Adopteds(r) = {}
      BY <2>2 DEF Directories, Empties, Adopteds
    <3>2. Cardinality({}) = 0 /\ Size * 0 = 0
      BY FS_EmptySet, Sizes
    <3>3. QED
      BY <1>1, <1>5, <2>1, <2>2, <3>1, <3>2
  <2>3. CASE q # r \/ phase[r] # "Locked"
    BY <1>1, <1>5, <2>1, <2>3
  <2>4. QED
    BY <2>2, <2>3
<1>7. ASSUME NEW q \in Runs, phase'[q] = "Up", NEW name \in files[q], name.kind = "temp"
      PROVE  TempKnown(q, name)'
  <2>1. q # r
    <3>1. job[name.id].run = q /\ name.id \in Reports
      BY <1>7, NameTypes, RunTypes DEF Directories, NamesHome
    <3>2. QED
      BY <1>2, <3>1
  <2>2. TempKnown(q, name)
    BY <1>1, <1>7, <2>1 DEF Bytes
  <2>3. QED
    BY <1>1, <2>2 DEF TempKnown, TempName
<1>8. QED
  BY <1>1, <1>3, <1>4, <1>6, <1>7 DEF Bytes

\* A dead run's file goes, or is adopted by a run that has no job.
LEMMA BytesTransfer ==
  ASSUME Types, Types', Locks, Directories, Bytes, NEW r \in Runs, NEW name \in taking[r].todo,
         transfer_file(r, name)
  PROVE  Bytes'
<1> USE DEF Types
<1>1. PICK v \in Runs : /\ v = taking[r].of /\ v # r /\ phase[v] = "Ended" /\ phase[r] = "Opening"
  BY DEF transfer_file, Locks, TakersHold, Pointers
<1>2. /\ phase' = phase /\ job' = job /\ sweeping' = sweeping
      /\ \A o \in Runs \ {r, v} : files'[o] = files[o]
      /\ \A o \in Runs : o # r => st'[o] = st[o]
      /\ \/ files'[r] = files[r] /\ st' = st
         \/ /\ AdoptedName(name.id, Deadline(r, name)) \notin files[r]
            /\ files'[r] = files[r] \cup {AdoptedName(name.id, Deadline(r, name))}
            /\ Adopts(r, Size)
  BY <1>1, DoesTransferFile
<1>3. \A id \in Reports : job[id].run # r
  BY <1>1 DEF Directories, JobsHome
<1>4. ASSUME NEW id \in Reports PROVE Sized(id)' /\ (Lost(id)' <=> Lost(id))
  <2>1. Up(job[id].run)' <=> Up(job[id].run)
    BY <1>2 DEF Up
  <2>2. Up(job[id].run) =>
          (OwnName(id) \in files'[job[id].run] <=> OwnName(id) \in files[job[id].run])
    BY <1>1, <1>2, <1>3 DEF Up
  <2>3. Sized(id)
    BY DEF Bytes
  <2>4. QED
    BY <1>2, <2>1, <2>2, <2>3, LostStays
<1>5. \A q \in Runs : Owed(q)' = Owed(q)
  BY <1>2, <1>4, OwedStays
<1>6. \A q \in Runs : st'[q].own_bytes = st[q].own_bytes
  BY <1>2 DEF Adopts
<1>7. ASSUME NEW q \in Runs
      PROVE  st'[q].adopted_bytes =
               IF phase'[q] \in {"Opening", "Up"} THEN Size * Cardinality(Adopteds(q)') ELSE 0
  <2>1. st[q].adopted_bytes =
          IF phase[q] \in {"Opening", "Up"} THEN Size * Cardinality(Adopteds(q)) ELSE 0
    BY DEF Bytes
  <2>2. CASE q \notin {r, v}
    <3>1. Adopteds(q)' = Adopteds(q)
      BY <1>2, <2>2 DEF Adopteds
    <3>2. QED
      BY <1>2, <2>1, <2>2, <3>1
  <2>3. CASE q = v
    BY <1>1, <1>2, <2>1, <2>3
  <2>4. CASE q = r /\ files'[r] = files[r] /\ st' = st
    <3>1. Adopteds(q)' = Adopteds(q)
      BY <2>4 DEF Adopteds
    <3>2. QED
      BY <1>2, <2>1, <2>4, <3>1
  <2>5. CASE /\ q = r /\ AdoptedName(name.id, Deadline(r, name)) \notin files[r]
             /\ files'[r] = files[r] \cup {AdoptedName(name.id, Deadline(r, name))}
             /\ Adopts(r, Size)
    <3> DEFINE new == AdoptedName(name.id, Deadline(r, name))
               n == Cardinality(Adopteds(r))
               m == Cardinality(Adopteds(r)')
    <3>1. Adopteds(r)' = Adopteds(r) \cup {new} /\ new \notin Adopteds(r)
      <4>1. new.kind = "adopted"
        BY NameFields
      <4> HIDE DEF new
      <4>2. files'[r] = files[r] \cup {new} /\ new \notin files[r]
        BY <2>5 DEF new
      <4>3. QED
        BY <4>1, <4>2 DEF Adopteds
    <3>2. m = n + 1 /\ n \in Nat
      BY <3>1, AdoptedsFinite, CountAdd
    <3>3. st'[r].adopted_bytes = Size * n + Size
      BY <1>1, <2>1, <2>5, <3>2, Sizes DEF Adopts
    <3> HIDE DEF n, m
    <3>4. Size * m = Size * n + Size * 1 /\ Size * 1 = Size
      BY <3>2, Sizes, Multiples
    <3>5. st'[r].adopted_bytes = Size * m
      BY <3>3, <3>4
    <3>6. QED
      BY <1>1, <1>2, <2>5, <3>5 DEF m
  <2>6. QED
    BY <1>2, <2>2, <2>3, <2>4, <2>5
<1>8. ASSUME NEW q \in Runs, phase[q] = "Up", NEW n \in files'[q], n.kind = "temp"
      PROVE  TempKnown(q, n)'
  <2>1. files'[q] = files[q] /\ st'[q] = st[q]
    BY <1>1, <1>2, <1>8
  <2>2. TempKnown(q, n)
    BY <1>8, <2>1 DEF Bytes
  <2>3. QED
    BY <1>2, <2>1, <2>2 DEF TempKnown, TempName
<1>9. QED
  BY <1>2, <1>4, <1>5, <1>6, <1>7, <1>8 DEF Bytes

\* A dead run counts nothing and has nothing to pay.
LEMMA BytesCrash ==
  ASSUME Types, Types', Directories, Bytes, NEW r \in Runs, Crash(r)
  PROVE  Bytes'
<1> USE DEF Types
<1>1. /\ phase'[r] = "Ended" /\ st'[r] = NoCounts /\ files' = files /\ sweeping'[r] = Idle
      /\ \A o \in Runs : o # r => phase'[o] = phase[o] /\ st'[o] = st[o] /\ sweeping'[o] = sweeping[o]
      /\ \A id \in Reports : IF job[id].run = r THEN Dead(id, r) ELSE job'[id] = job[id]
  BY DoesCrash
<1>2. ASSUME NEW id \in Reports, job[id].run = r
      PROVE  job'[id].run = r /\ job'[id].own = Nothing /\ Sized(id)' /\ ~Lost(id)'
  <2>1. job'[id].run = r /\ job'[id].own = Nothing
    BY <1>1, <1>2 DEF Dead
  <2>2. ~Swept(id, "Unlinked")' /\ ~Lost(id)'
    BY <1>1, <2>1 DEF Swept, Idle, Lost, Up
  <2>3. QED
    BY <2>1, <2>2 DEF Sized
<1>3. ASSUME NEW id \in Reports, job[id].run # r
      PROVE  job'[id] = job[id] /\ Sized(id)' /\ (Lost(id)' <=> Lost(id))
  <2>1. job'[id] = job[id]
    BY <1>1, <1>3
  <2>2. Swept(id, "Unlinked")' <=> Swept(id, "Unlinked")
    BY <1>1, <1>3, <2>1 DEF Swept
  <2>3. Sized(id)
    BY DEF Bytes
  <2>4. QED
    BY <1>1, <1>3, <2>1, <2>2, <2>3 DEF Sized, Lost, Up, OwnName
<1>4. ASSUME NEW q \in Runs, q # r PROVE Owed(q)' = Owed(q)
  BY <1>2, <1>3, <1>4, OwedStays
<1>5. Owed(r)' = 0
  <2>1. Entered(r)' = {} /\ Roomy(r)' = {} /\ Losts(r)' = {}
    BY <1>2, <1>3 DEF Entered, Roomy, Losts
  <2>2. Cardinality({}) = 0 /\ Size * 0 = 0 /\ (Room - Size) * 0 = 0
    BY FS_EmptySet, Sizes
  <2>3. QED
    BY <2>1, <2>2 DEF Owed
<1>6. NoCounts.own_bytes = 0 /\ NoCounts.adopted_bytes = 0
  BY DEF NoCounts
<1>7. \A q \in Runs : Owed(q)' <= st'[q].own_bytes
  BY <1>1, <1>4, <1>5, <1>6 DEF Bytes
<1>8. \A q \in Runs : Adopteds(q)' = Adopteds(q)
  BY <1>1 DEF Adopteds
<1>9. \A q \in Runs :
        st'[q].adopted_bytes =
          IF phase'[q] \in {"Opening", "Up"} THEN Size * Cardinality(Adopteds(q)') ELSE 0
  BY <1>1, <1>6, <1>8 DEF Bytes
<1>10. ASSUME NEW q \in Runs, phase'[q] = "Up", NEW name \in files[q], name.kind = "temp"
       PROVE  TempKnown(q, name)'
  <2>1. q # r
    BY <1>1, <1>10
  <2>2. TempKnown(q, name) /\ job[name.id].run = q /\ name.id \in Reports
    BY <1>1, <1>10, <2>1, NameTypes, RunTypes DEF Bytes, Directories, NamesHome
  <2>3. job'[name.id] = job[name.id] /\ st'[q] = st[q]
    BY <1>1, <1>3, <2>1, <2>2
  <2>4. QED
    BY <2>2, <2>3 DEF TempKnown, TempName
<1>11. QED
  BY <1>1, <1>2, <1>3, <1>7, <1>9, <1>10 DEF Bytes

LEMMA BytesStep ==
  ASSUME Types, Types', Locks, Directories, Directories', Entries, Bytes, [Next]_vars
  PROVE  Bytes'
<1> USE DEF Types
<1>1. ASSUME NEW id \in Reports, Write(id) \/ Lifetime(id) PROVE Bytes'
  BY <1>1, BytesJob
<1>2. ASSUME NEW r \in Runs, flush_inventory(r) PROVE Bytes'
  BY <1>2, DoesFlushInventory, BytesStay
<1>3. ASSUME NEW r \in Runs, NEW id \in Reports, sweep_nominate(r, id) PROVE Bytes'
  <2>1. /\ job' = job /\ files' = files /\ st' = st /\ phase' = phase
        /\ \A o \in Runs : o # r => sweeping'[o] = sweeping[o]
        /\ sweeping[r] = Idle /\ sweeping'[r] = [id |-> id, step |-> "Nominated"]
    BY <1>3, DoesSweepNominate
  <2>2. sweeping[r].step = "Idle" /\ sweeping'[r].step = "Nominated"
    BY <2>1 DEF Idle
  <2>3. QED
    BY <2>1, <2>2, BytesStay
<1>4. ASSUME NEW r \in Runs, sweep_claim(r) PROVE Bytes'
  <2>1. PICK id \in Reports : id = sweeping[r].id
    BY <1>4, DoesSweepClaim
  <2>2. /\ files' = files /\ st' = st /\ phase' = phase
        /\ \A o \in Runs : o # r => sweeping'[o] = sweeping[o]
        /\ sweeping[r].step = "Nominated"
        /\ sweeping'[r] = [id |-> sweeping[r].id, step |-> "Claimed"] \/ sweeping'[r] = Idle
    BY <1>4, DoesSweepClaim
  <2>3. \/ job' = job
        \/ /\ due(job[id].own) /\ SameBut(id) /\ job'[id].own = Orphan
           /\ job'[id].bytes = job[id].bytes
    BY <1>4, <2>1, DoesSweepClaim
  <2>4. due(job[id].own) => job[id].own # Nothing
    BY DEF due, Nothing
  <2>5. \A o \in Reports :
          /\ job'[o].run = job[o].run /\ job'[o].pc = job[o].pc /\ job'[o].try = job[o].try
          /\ job'[o].bytes = job[o].bytes
          /\ job'[o].own # Nothing <=> job[o].own # Nothing
    BY <2>3, <2>4, SpanFacts DEF SameBut, SameTry
  <2>6. sweeping[r].step # "Unlinked" /\ sweeping'[r].step # "Unlinked"
    BY <2>2 DEF Idle
  <2>7. QED
    BY <2>2, <2>5, <2>6, BytesStay
<1>5. ASSUME NEW r \in Runs,
             sweep_unlink(r) \/ sweep_drop(r) \/ sweep_stray(r) \/ sweep_adopted(r)
      PROVE  Bytes'
  BY <1>5, BytesUnlink, BytesDrop, BytesClean
<1>6. ASSUME NEW r \in Runs, open_lock(r) \/ open_dir(r) \/ opened(r) PROVE Bytes'
  BY <1>6, BytesOpen
<1>7. ASSUME NEW r \in Runs, NEW v \in Runs, take_over(r, v) PROVE Bytes'
  BY <1>7, DoesTakeOver, BytesStay
<1>8. ASSUME NEW r \in Runs, NEW name \in taking[r].todo, transfer_file(r, name) PROVE Bytes'
  BY <1>8, BytesTransfer
<1>9. ASSUME NEW r \in Runs, retire_begin(r) \/ retire_inventory(r) \/ retire_dir(r) \/ retire_lock(r)
      PROVE  Bytes'
  BY <1>9, DoesRetireBegin, DoesRetireInventory, DoesRetireDir, DoesRetireLock, BytesStay
<1>10. ASSUME NEW r \in Runs, Crash(r) PROVE Bytes'
  BY <1>10, BytesCrash
<1>11. CASE Tick \/ UNCHANGED vars
  BY <1>11, DoesTick, BytesStay DEF vars, disk
<1>12. QED
  BY <1>1, <1>2, <1>3, <1>4, <1>5, <1>6, <1>7, <1>8, <1>9, <1>10, <1>11
     DEF Next, Maintain, Open

\* The strays are charged.
LEMMA StrayPaid ==
  ASSUME Typed, NEW r \in Runs
  PROVE  /\ IsFiniteSet(st[r].stray) /\ Cardinality(st[r].stray) \in Nat
         /\ stray_bytes(st[r]) \in Nat
         /\ Size * Cardinality(st[r].stray) <= stray_bytes(st[r])
<1> DEFINE S == st[r].stray
           T == Names \X BOOLEAN
           f == [s \in S |-> <<s.name, s.alias>>]
           A == {s \in S : ~s.alias}
           B == {s \in S : s.alias}
<1>1. S \in SUBSET [name : Names, alias : BOOLEAN]
  BY RunTypes DEF Strays
<1>2. IsFiniteSet(BOOLEAN)
  <2>1. IsFiniteSet({TRUE}) /\ IsFiniteSet({FALSE})
    BY FS_Singleton
  <2>2. IsFiniteSet({TRUE} \cup {FALSE})
    BY <2>1, FS_Union
  <2>3. BOOLEAN = {TRUE} \cup {FALSE}
    OBVIOUS
  <2>4. QED
    BY <2>2, <2>3
<1>3. IsFiniteSet(T)
  BY <1>2, NamesFinite, FS_Product
<1> HIDE DEF S
<1>4. f \in [S -> T] /\ \A x, y \in S : f[x] = f[y] => x = y
  <2>1. \A s \in S : s.name \in Names /\ s.alias \in BOOLEAN
    BY <1>1
  <2>2. \A x, y \in S : x.name = y.name /\ x.alias = y.alias => x = y
    BY <1>1
  <2>3. QED
    BY <2>1, <2>2
<1> HIDE DEF T, f
<1>5. IsFiniteSet(S)
  BY <1>3, <1>4, CountKeys
<1>6. A \subseteq S /\ B \subseteq S /\ S = A \cup B
  OBVIOUS
<1>7. stray_bytes(st[r]) = Room * Cardinality(A) + Size * Cardinality(B)
  BY DEF stray_bytes, S
<1> HIDE DEF A, B
<1>8. IsFiniteSet(A) /\ IsFiniteSet(B)
  BY <1>5, <1>6, CountPart
<1> DEFINE s == Cardinality(S)
           a == Cardinality(A)
           b == Cardinality(B)
<1>9. s <= a + b /\ s \in Nat /\ a \in Nat /\ b \in Nat
  BY <1>6, <1>8, CountUnion
<1> HIDE DEF s, a, b
<1>10. Size * s <= Size * (a + b)
  BY <1>9, Sizes, Multiples
<1>11. Size * (a + b) = Size * a + Size * b /\ Size * a \in Nat /\ Size * b \in Nat
  BY <1>9, Sizes, Multiples
<1>12. Size * a <= Room * a /\ Room * a \in Nat
  <2>1. a * Size <= a * Room
    BY <1>9, Sizes, Multiples
  <2>2. a * Size = Size * a /\ a * Room = Room * a
    BY <1>9, Sizes
  <2>3. QED
    BY <1>9, <2>1, <2>2, Sizes, Multiples
<1>13. Size * s \in Nat
  BY <1>9, Sizes, Multiples
<1>14. Size * s <= Room * a + Size * b /\ Room * a + Size * b \in Nat
  BY <1>10, <1>11, <1>12, <1>13
<1>15. QED
  BY <1>5, <1>7, <1>9, <1>14 DEF s, a, b, S

\* Which counter pays for a name: the entries, the reservations and the strays
\* each have one for every name of their kind.
OwnNames(r) == {name \in files[r] : name.kind = "own" /\ job[name.id].pc # "Linked"}

WrittenNames(r) ==
  {name \in files[r] : \/ name.kind = "own" /\ job[name.id].pc = "Linked"
                       \/ /\ name.kind = "temp" /\ job[name.id].pc = "Temp"
                          /\ name = TempName(name.id)}

StrayNames(r) == {name \in files[r] : name.kind = "temp" /\ \E s \in st[r].stray : s.name = name}

LEMMA NamesPaid ==
  ASSUME Types, Directories, Bytes, NEW r \in Runs, phase[r] \in {"Opening", "Up"}
  PROVE  {name \in files[r] : ~Alias(r, name)}
           \subseteq Adopteds(r) \cup (OwnNames(r) \cup (WrittenNames(r) \cup StrayNames(r)))
<1> USE DEF Types
<1> SUFFICES ASSUME NEW name \in files[r], ~Alias(r, name)
             PROVE  name \in Adopteds(r) \cup (OwnNames(r) \cup (WrittenNames(r) \cup StrayNames(r)))
  OBVIOUS
<1>1. name.kind \in {"own", "temp", "adopted"} /\ name.id \in Reports
  BY NameTypes, RunTypes
<1>2. CASE name.kind = "adopted"
  BY <1>2 DEF Adopteds
<1>3. CASE name.kind = "own"
  BY <1>3 DEF OwnNames, WrittenNames
<1>4. CASE name.kind = "temp"
  <2>1. job[name.id].run = r /\ phase[r] = "Up"
    BY <1>1, <1>4 DEF Directories, NamesHome, JobsHome
  <2>2. TempKnown(r, name)
    BY <1>4, <2>1 DEF Bytes
  <2>3. CASE \E s \in st[r].stray : s.name = name
    BY <1>4, <2>3 DEF StrayNames
  <2>4. CASE job[name.id].pc = "Temp" /\ name = TempName(name.id)
    BY <1>4, <2>4 DEF WrittenNames
  <2>5. CASE job[name.id].pc = "Linked" /\ name = TempName(name.id)
    BY <1>4, <2>1, <2>5 DEF Alias, At, Up
  <2>6. QED
    BY <2>2, <2>3, <2>4, <2>5 DEF TempKnown
<1>5. QED
  BY <1>1, <1>2, <1>3, <1>4

LEMMA OwnNamesPaid ==
  ASSUME Types, Directories, NEW r \in Runs, phase[r] \in {"Opening", "Up"}
  PROVE  /\ IsFiniteSet(OwnNames(r))
         /\ Cardinality(OwnNames(r)) <= Cardinality(Entered(r)) + Cardinality(Losts(r))
         /\ Cardinality(OwnNames(r)) \in Nat
<1> USE DEF Types
<1> DEFINE S == OwnNames(r)
           T == Entered(r) \cup Losts(r)
           f == [name \in S |-> name.id]
<1>1. ASSUME NEW name \in S PROVE name.id \in T /\ name = OwnName(name.id)
  <2>1. name.id \in Reports /\ name = OwnName(name.id) /\ name \in files[r]
        /\ job[name.id].pc # "Linked"
    BY <1>1, NameTypes, RunTypes DEF OwnNames
  <2>2. job[name.id].run = r /\ phase[r] = "Up"
    BY <1>1, <2>1 DEF OwnNames, Directories, NamesHome, JobsHome
  <2>3. QED
    BY <2>1, <2>2 DEF Entered, Losts, Lost, Up
<1>2. IsFiniteSet(T) /\ Cardinality(T) <= Cardinality(Entered(r)) + Cardinality(Losts(r))
      /\ Cardinality(T) \in Nat
  BY ChargeSets, CountUnion
<1> HIDE DEF S, T
<1>3. f \in [S -> T] /\ \A x, y \in S : f[x] = f[y] => x = y
  BY <1>1
<1> HIDE DEF f
<1>4. IsFiniteSet(S) /\ Cardinality(S) <= Cardinality(T)
  BY <1>2, <1>3, CountKeys
<1>5. Cardinality(S) \in Nat
  BY <1>4, FS_CardinalityType
<1>6. QED
  BY <1>2, <1>4, <1>5, ChargeSets DEF S

LEMMA WrittenNamesPaid ==
  ASSUME Types, Directories, NEW r \in Runs
  PROVE  /\ IsFiniteSet(WrittenNames(r))
         /\ Cardinality(WrittenNames(r)) <= Cardinality(Booked(r))
         /\ Cardinality(WrittenNames(r)) \in Nat
<1> USE DEF Types
<1> DEFINE S == WrittenNames(r)
           T == Booked(r)
           f == [name \in S |-> name.id]
<1>1. ASSUME NEW name \in S
      PROVE  /\ name.id \in T
             /\ name = IF job[name.id].pc = "Linked" THEN OwnName(name.id) ELSE TempName(name.id)
  <2>1. name.id \in Reports /\ name \in files[r] /\ (name.kind = "own" => name = OwnName(name.id))
    BY <1>1, NameTypes, RunTypes DEF WrittenNames
  <2>2. job[name.id].run = r
    BY <1>1, <2>1 DEF WrittenNames, Directories, NamesHome
  <2>3. QED
    BY <1>1, <2>1, <2>2 DEF WrittenNames, Booked, Writing
<1> HIDE DEF S, T
<1>2. f \in [S -> T] /\ \A x, y \in S : f[x] = f[y] => x = y
  BY <1>1
<1>3. IsFiniteSet(T)
  BY SlotSets DEF T
<1> HIDE DEF f
<1>4. IsFiniteSet(S) /\ Cardinality(S) <= Cardinality(T)
  BY <1>2, <1>3, CountKeys
<1>5. QED
  BY <1>4, FS_CardinalityType DEF S, T

LEMMA StrayNamesPaid ==
  ASSUME Typed, NEW r \in Runs
  PROVE  /\ IsFiniteSet(StrayNames(r))
         /\ Cardinality(StrayNames(r)) <= Cardinality(st[r].stray)
         /\ Cardinality(StrayNames(r)) \in Nat
<1> DEFINE S == StrayNames(r)
           T == st[r].stray
           f == [name \in S |-> CHOOSE s \in T : s.name = name]
<1>1. ASSUME NEW name \in S PROVE \E s \in T : s.name = name
  BY <1>1 DEF StrayNames
<1>2. IsFiniteSet(T)
  BY StrayPaid
<1> HIDE DEF S, T
<1>3. \A name \in S : f[name] \in T /\ f[name].name = name
  BY <1>1
<1>4. f \in [S -> T] /\ \A x, y \in S : f[x] = f[y] => x = y
  BY <1>3
<1> HIDE DEF f
<1>5. IsFiniteSet(S) /\ Cardinality(S) <= Cardinality(T)
  BY <1>2, <1>4, CountKeys
<1>6. QED
  BY <1>5, FS_CardinalityType DEF S, T

\* A multiple, summand by summand.
LEMMA FourTimes ==
  ASSUME NEW k \in Nat, NEW n \in Nat, NEW a \in Nat, NEW b \in Nat, NEW c \in Nat, NEW d \in Nat,
         n <= a + (b + (c + d))
  PROVE  /\ k * n <= k * a + (k * b + (k * c + k * d))
         /\ k * n \in Nat /\ k * a \in Nat /\ k * b \in Nat /\ k * c \in Nat /\ k * d \in Nat
<1>1. k * n <= k * (a + (b + (c + d)))
  BY Multiples
<1>2. k * (a + (b + (c + d))) = k * a + k * (b + (c + d))
  BY Multiples
<1>3. k * (b + (c + d)) = k * b + k * (c + d)
  BY Multiples
<1>4. k * (c + d) = k * c + k * d
  BY Multiples
<1>5. k * n \in Nat /\ k * a \in Nat /\ k * b \in Nat /\ k * c \in Nat /\ k * d \in Nat
  BY Multiples
<1>6. QED
  BY <1>1, <1>2, <1>3, <1>4, <1>5

\* What a run owes for its own files, and what it has reserved.
LEMMA Charges ==
  ASSUME Types, Slots, Bytes, NEW r \in Runs
  PROVE  /\ Owed(r) \in Nat /\ Owed(r) <= st[r].own_bytes /\ st[r].own_bytes \in Nat
         /\ Size * (Cardinality(Entered(r)) + Cardinality(Losts(r))) <= Owed(r)
         /\ st[r].reserved_bytes = Room * Cardinality(Booked(r)) /\ st[r].reserved_bytes \in Nat
         /\ Size * Cardinality(Booked(r)) <= st[r].reserved_bytes
<1> USE DEF Types
<1> DEFINE e == Cardinality(Entered(r))
           l == Cardinality(Losts(r))
           m == Cardinality(Roomy(r))
           b == Cardinality(Booked(r))
           d == Room - Size
<1>1. e \in Nat /\ l \in Nat /\ m \in Nat /\ b \in Nat /\ d \in Nat
  BY ChargeSets, SlotSets, Sizes
<1>2. Owed(r) = Size * e + d * m + Size * l
  BY DEF Owed
<1>3. Owed(r) <= st[r].own_bytes /\ st[r].own_bytes \in Int
  BY RunTypes DEF Bytes
<1>4. st[r].reserved_bytes = Room * b
  BY DEF Slots
<1> HIDE DEF e, l, m, b, d
<1>5. Size * (e + l) = Size * e + Size * l /\ Size * e \in Nat /\ Size * l \in Nat /\ d * m \in Nat
  BY <1>1, Sizes, Multiples
<1>6. /\ Owed(r) \in Nat /\ Size * (e + l) <= Owed(r)
  BY <1>2, <1>5
<1>7. Size * b <= Room * b /\ Room * b \in Nat
  <2>1. b * Size <= b * Room
    BY <1>1, Sizes, Multiples
  <2>2. b * Size = Size * b /\ b * Room = Room * b
    BY <1>1, Sizes
  <2>3. QED
    BY <1>1, <2>1, <2>2, Sizes, Multiples
<1>8. st[r].own_bytes \in Nat
  BY <1>3, <1>6
<1>9. QED
  BY <1>3, <1>4, <1>6, <1>7, <1>8 DEF e, l, b

LEMMA BytesFollow == Types /\ Directories /\ Slots /\ Bytes => BytesCharged
<1> SUFFICES ASSUME Types, Directories, Slots, Bytes, NEW r \in Runs, phase[r] \in {"Opening", "Up"}
             PROVE  Size * Cardinality({name \in files[r] : ~Alias(r, name)}) <= used_bytes(st[r])
  BY DEF BytesCharged
<1> USE DEF Types
<1> DEFINE N == {name \in files[r] : ~Alias(r, name)}
           A == Adopteds(r)
           B == OwnNames(r)
           C == WrittenNames(r)
           D == StrayNames(r)
<1>1. N \subseteq A \cup (B \cup (C \cup D))
  BY NamesPaid
<1>2. IsFiniteSet(A) /\ IsFiniteSet(B) /\ IsFiniteSet(C) /\ IsFiniteSet(D)
  BY AdoptedsFinite, OwnNamesPaid, WrittenNamesPaid, StrayNamesPaid
<1> DEFINE n == Cardinality(N)
           a == Cardinality(A)
           b == Cardinality(B)
           c == Cardinality(C)
           d == Cardinality(D)
           el == Cardinality(Entered(r)) + Cardinality(Losts(r))
           k == Cardinality(Booked(r))
           s == Cardinality(st[r].stray)
<1>3. b <= el /\ c <= k /\ d <= s /\ el \in Nat /\ k \in Nat /\ s \in Nat
  BY OwnNamesPaid, WrittenNamesPaid, StrayNamesPaid, ChargeSets, SlotSets, StrayPaid
<1>4. /\ st[r].adopted_bytes = Size * a
      /\ Size * el <= st[r].own_bytes /\ st[r].own_bytes \in Nat
      /\ Size * k <= st[r].reserved_bytes /\ st[r].reserved_bytes \in Nat
      /\ Size * s <= stray_bytes(st[r]) /\ stray_bytes(st[r]) \in Nat
  <2>1. Size * el \in Nat
    BY <1>3, Sizes, Multiples
  <2>2. QED
    BY <2>1, Charges, StrayPaid DEF Bytes
<1> HIDE DEF N, A, B, C, D, el, k, s
<1>5. n <= a + (b + (c + d)) /\ n \in Nat /\ a \in Nat /\ b \in Nat /\ c \in Nat /\ d \in Nat
  <2>1. /\ IsFiniteSet(C \cup D) /\ Cardinality(C \cup D) <= c + d
        /\ c \in Nat /\ d \in Nat /\ Cardinality(C \cup D) \in Nat
    BY <1>2, CountUnion
  <2>2. /\ IsFiniteSet(B \cup (C \cup D))
        /\ Cardinality(B \cup (C \cup D)) <= b + Cardinality(C \cup D)
        /\ b \in Nat /\ Cardinality(B \cup (C \cup D)) \in Nat
    BY <1>2, <2>1, CountUnion
  <2>3. /\ IsFiniteSet(A \cup (B \cup (C \cup D)))
        /\ Cardinality(A \cup (B \cup (C \cup D))) <= a + Cardinality(B \cup (C \cup D))
        /\ a \in Nat /\ Cardinality(A \cup (B \cup (C \cup D))) \in Nat
    BY <1>2, <2>2, CountUnion
  <2>4. n <= Cardinality(A \cup (B \cup (C \cup D))) /\ n \in Nat
    BY <1>1, <2>3, CountPart
  <2>5. QED
    BY <2>1, <2>2, <2>3, <2>4
<1> HIDE DEF n, a, b, c, d
<1>6. /\ Size * n <= Size * a + (Size * b + (Size * c + Size * d))
      /\ Size * n \in Nat /\ Size * a \in Nat /\ Size * b \in Nat /\ Size * c \in Nat
      /\ Size * d \in Nat
  BY <1>5, Sizes, FourTimes
<1>7. Size * b <= Size * el /\ Size * c <= Size * k /\ Size * d <= Size * s
      /\ Size * el \in Nat /\ Size * k \in Nat /\ Size * s \in Nat
  BY <1>3, <1>5, Sizes, Multiples
<1>8. Size * n <= st[r].own_bytes + st[r].adopted_bytes + st[r].reserved_bytes + stray_bytes(st[r])
  BY <1>4, <1>6, <1>7
<1>9. QED
  BY <1>8 DEF used_bytes, n, N

LEMMA BytesInitially ==
  ASSUME Init
  PROVE  Bytes
<1>1. \A id \in Reports : job[id].run = NoRun /\ job[id].own = Nothing
  BY DEF Init, NoJob
<1>2. \A r \in Runs : files[r] = {} /\ phase[r] = "Off" /\ st[r] = NoCounts
  BY DEF Init
<1>3. \A id \in Reports : Sized(id)
  BY <1>1, StoreAssumption DEF Sized, Swept
<1>4. NoCounts.own_bytes = 0 /\ NoCounts.adopted_bytes = 0
  BY DEF NoCounts
<1>5. \A r \in Runs : Owed(r) = 0
  <2>1. \A r \in Runs : Entered(r) = {} /\ Roomy(r) = {} /\ Losts(r) = {}
    BY <1>1, StoreAssumption DEF Entered, Roomy, Losts
  <2>2. Cardinality({}) = 0 /\ Size * 0 = 0 /\ (Room - Size) * 0 = 0
    BY FS_EmptySet, Sizes
  <2>3. QED
    BY <2>1, <2>2 DEF Owed
<1>6. QED
  BY <1>2, <1>3, <1>4, <1>5 DEF Bytes

\* The seventh layer holds in every reachable state, on the six below it.
THEOREM Charged == Spec => [](IInv /\ Bytes)
<1>1. Init => Bytes
  BY BytesInitially
<1>2. IInv /\ IInv' /\ Bytes /\ [Next]_vars => Bytes'
  BY BytesStep DEF IInv
<1>3. QED
  BY <1>1, <1>2, Layers, PTL DEF Spec

\* The bytes in a live run's directory never exceed what the store charges for
\* them: whichever call of write, sweep or transfer failed, whatever was left
\* behind, and though a retried write may link its file while the sweep is
\* between the unlink of an earlier one and the drop of its entry.
THEOREM BytesChargedHolds == Spec => []BytesCharged
<1>1. IInv /\ Bytes => BytesCharged
  BY BytesFollow DEF IInv
<1>2. QED
  BY <1>1, Charged, PTL

LEMMA TypesFollow == IInv /\ Bytes => TypeOK
<1> SUFFICES ASSUME IInv, Bytes PROVE TypeOK
  OBVIOUS
<1>1. Types /\ Slots /\ Typed
  BY DEF IInv, Types
<1>2. Spans \subseteq Lifetimes
  BY TimeTypes DEF Spans, Lifetimes, Nothing, Pinned, Orphan
<1>3. inventory \in [Runs -> [Reports -> Lifetimes]]
  BY <1>1, <1>2 DEF Typed
<1>4. ASSUME NEW r \in Runs
      PROVE  /\ \A f \in {"own_bytes", "adopted_bytes", "reserved_bytes", "reserved_slots",
                          "in_flight", "unsaved"} : st[r][f] \in Nat
             /\ st[r].stray \subseteq [name : Names, alias : BOOLEAN]
             /\ taking[r].at \in Times
             /\ taking[r].of \in Runs \cup {NoRun} /\ taking[r].todo \subseteq Names
             /\ sweeping[r].id \in Reports \cup {NoRun}
  <2>1. st[r].own_bytes \in Nat /\ st[r].reserved_bytes \in Nat
    BY <1>1, Charges
  <2>2. st[r].adopted_bytes \in Nat
    <3>1. Size * Cardinality(Adopteds(r)) \in Nat
      BY <1>1, AdoptedsFinite, Sizes, Multiples
    <3>2. QED
      BY <3>1 DEF Bytes
  <2>3. st[r].reserved_slots \in Nat /\ st[r].in_flight \in Nat /\ st[r].unsaved \in Nat
    BY <1>1, SlotSets DEF Slots
  <2>4. \A f \in {"own_bytes", "adopted_bytes", "reserved_bytes", "reserved_slots",
                  "in_flight", "unsaved"} : st[r][f] \in Nat
    BY <2>1, <2>2, <2>3
  <2>5. sweeping[r].id \in Reports \cup {NoRun}
    BY <1>1, RunTypes DEF Sweeps
  <2>6. QED
    BY <1>1, <2>4, <2>5, RunTypes DEF Strays
<1>5. ASSUME NEW id \in Reports
      PROVE  /\ job[id].run \in Runs \cup {NoRun}
             /\ job[id].own \in Lifetimes /\ job[id].body \in Lifetimes
             /\ job[id].try \in 0..MaxTries
  BY <1>1, <1>2, JobTypes
<1>6. QED
  BY <1>1, <1>3, <1>4, <1>5 DEF TypeOK, Typed

\* No counter of StoreState falls below zero, whatever is freed and dropped in
\* whatever order, and every deadline, promise and lifetime is one the
\* configuration can produce.
THEOREM TypeCorrect == Spec => []TypeOK
  BY TypesFollow, Charged, PTL
=============================================================================
