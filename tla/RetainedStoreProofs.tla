------------------------ MODULE RetainedStoreProofs ------------------------
(***************************************************************************)
(* What the retained-report store promises, for any number of runs and     *)
(* reports and any limits: a report is on disk once, for as long as it was *)
(* promised, whichever run dies when.                                      *)
(*                                                                         *)
(* The invariant comes in layers, each inductive given those before it:    *)
(* the types; who holds which lock; which names are in which directory;    *)
(* the entries a live run keeps of its files; the promises; and the slots. *)
(* RetainedBytesProofs adds the seventh, the bytes.                        *)
(***************************************************************************)
EXTENDS RetainedStore, SetFacts, TLAPS

-----------------------------------------------------------------------------
(* Types.                                                                   *)

\* A lifetime has a start exactly when its retention runs.
Spans == {Nothing, Pinned, Orphan} \cup [state : {"Acked", "Recovered"}, since : Times]

Dated(life) == life.state \in {"Acked", "Recovered"}

Counters == [own_bytes : Int, adopted_bytes : Int, reserved_bytes : Int, reserved_slots : Int,
             in_flight : Int, unsaved : Int, stray : SUBSET [name : Names, alias : BOOLEAN]]

Pcs == {"New", "Reserved", "Temp", "Linked", "Failed", "Held", "Saved", "Resaved", "Kept", "Gone"}

Jobs == [run : Runs \cup {NoRun}, kind : {"None", "Report", "Dispatch"}, pc : Pcs,
         try : 0..MaxTries, again : BOOLEAN, own : Spans, bytes : {0, Size, Room}, body : Spans,
         message : {"Open", "Aside", "Acked"}, recovered : Times \cup {Forever}]

Takings == [at : Times, of : Runs \cup {NoRun}, tried : SUBSET Runs, todo : SUBSET Names,
            left : BOOLEAN, listed : BOOLEAN,
            step : {"None", "Files", "Inventory", "Dir", "Lock"}]

Sweeps == [id : Reports \cup {NoRun}, step : {"Idle", "Nominated", "Claimed", "Unlinked"}]

Typed ==
  /\ norename \in BOOLEAN
  /\ lock \in SUBSET Runs
  /\ dir \in SUBSET Runs
  /\ files \in [Runs -> SUBSET Names]
  /\ inventory \in [Runs -> [Reports -> Spans]]
  /\ holder \in [Runs -> Runs \cup {NoRun}]
  /\ phase \in [Runs -> {"Off", "Locked", "Opening", "Up", "Ended"}]
  /\ st \in [Runs -> Counters]
  /\ taking \in [Runs -> Takings]
  /\ sweeping \in [Runs -> Sweeps]
  /\ job \in [Reports -> Jobs]
  /\ now \in Times
  /\ promise \in [Reports -> Deadlines \cup {Forever}]

\* An attempt that is under way has a number.
Trying == {"Reserved", "Temp", "Linked", "Failed", "Held"}

Tries == \A id \in Reports : job[id].pc \in Trying => job[id].try # 0

\* A body that is held, or was, has a lifetime that runs.
Bodied ==
  \A id \in Reports :
    job[id].again \/ job[id].pc \in {"Held", "Resaved"} => Tracked(job[id].body)

\* A sweep or a takeover that is under way is of something.
Pointers ==
  \A r \in Runs :
    /\ sweeping[r].step # "Idle" => sweeping[r].id \in Reports
    /\ taking[r].step # "None" => taking[r].of \in Runs

Types == Typed /\ Tries /\ Bodied /\ Pointers

-----------------------------------------------------------------------------
(* Locks.                                                                   *)

Live(r) == phase[r] \in {"Locked", "Opening", "Up"}

LocksHeld ==
  /\ \A r \in Runs : Live(r) => holder[r] = r /\ r \in lock
  /\ \A r \in Runs : phase[r] = "Off" => holder[r] = NoRun /\ r \notin lock

\* Whoever holds another run's lock is taking it over.
HoldersTake ==
  \A v, r \in Runs :
    holder[v] = r /\ r # v =>
      phase[r] = "Opening" /\ taking[r].step # "None" /\ taking[r].of = v

TakersHold ==
  \A r \in Runs :
    taking[r].step # "None" =>
      /\ phase[r] = "Opening"
      /\ taking[r].of \in lock /\ taking[r].of # r
      /\ holder[taking[r].of] = r
      /\ phase[taking[r].of] = "Ended"

Locks == LocksHeld /\ HoldersTake /\ TakersHold

-----------------------------------------------------------------------------
(* Directories.                                                             *)

Empties ==
  /\ \A r \in Runs : phase[r] \in {"Off", "Locked"} => files[r] = {}
  /\ \A r \in Runs : files[r] # {} => r \in lock
  /\ \A r \in Runs : taking[r].step = "Files" => taking[r].todo \subseteq files[taking[r].of]
  /\ \A r \in Runs : taking[r].step \in {"Inventory", "Dir", "Lock"} => files[taking[r].of] = {}

\* A job is its run's, from the reservation on and beyond the run's death.
JobsHome ==
  \A id \in Reports :
    /\ job[id].pc = "New" <=> job[id].run = NoRun
    /\ job[id].run \in Runs => phase[job[id].run] \in {"Up", "Ended"}
    /\ job[id].run \in Runs /\ phase[job[id].run] = "Ended" =>
         job[id].pc = "Gone" /\ job[id].own = Nothing

\* An own or temporary name is in the directory of the run that made it; an
\* adopted one is of a run that died.
NamesHome ==
  \A r \in Runs : \A name \in files[r] :
    /\ job[name.id].run \in Runs
    /\ name.kind # "adopted" => job[name.id].run = r
    /\ name.kind = "adopted" => phase[job[name.id].run] = "Ended"

StraysTemp == \A r \in Runs : \A s \in st[r].stray : s.name.kind = "temp"

\* OneCopy, of any two copies.
Unique ==
  \A r, s \in Runs : \A m \in files[r], n \in files[s] :
    IsReport(m) /\ IsReport(n) /\ m.id = n.id => r = s /\ m = n

\* A sweep is of an entry of its own run's.
SweepsHome ==
  \A r \in Runs :
    sweeping[r].step # "Idle" => phase[r] = "Up" /\ job[sweeping[r].id].run = r

Directories == Empties /\ JobsHome /\ NamesHome /\ StraysTemp /\ Unique /\ SweepsHome

-----------------------------------------------------------------------------
(* Entries.                                                                 *)

\* The sweep of id's run is at id, at this step.
Swept(id, step) ==
  /\ job[id].run \in Runs
  /\ sweeping[job[id].run].id = id /\ sweeping[job[id].run].step = step

\* What is written at each point: a report once, a dispatch's result until
\* it is saved.
Kinds(id) ==
  /\ job[id].pc = "New" => job[id] = NoJob
  /\ job[id].pc \in Trying => job[id].kind \in {"Report", "Dispatch"}
  /\ job[id].pc \in {"Failed", "Held", "Resaved"} => job[id].kind = "Dispatch"
  /\ job[id].pc = "Saved" => job[id].kind = "Report"
  /\ job[id].kind = "Report" => ~job[id].again

\* What the entry of a job's file may be.  An attempt may link its file while
\* the sweep is between the unlink of an earlier one's and its drop.
Owns(id) ==
  /\ job[id].pc \in {"New", "Gone"} \cup Trying => job[id].own \in {Nothing, Orphan}
  /\ job[id].pc = "Saved" => job[id].own = Pinned
  /\ job[id].kind = "Report" /\ job[id].pc \in {"Reserved", "Temp", "Linked"} =>
       job[id].own = Nothing
  /\ job[id].kind = "Report" /\ job[id].pc \in {"Reserved", "Temp", "Linked", "Saved"} =>
       ~Swept(id, "Claimed") /\ ~Swept(id, "Unlinked")
  /\ Swept(id, "Claimed") => job[id].own = Orphan

\* A linked, a tracked and an orphaned file is there.
Files(id) ==
  /\ job[id].pc = "Linked" =>
       /\ OwnName(id) \in files[job[id].run]
       /\ job[id].own # Nothing => Swept(id, "Unlinked")
  /\ Tracked(job[id].own) => OwnName(id) \in files[job[id].run]
  /\ job[id].own = Orphan => OwnName(id) \in files[job[id].run] \/ Swept(id, "Unlinked")

Entries == \A id \in Reports : Kinds(id) /\ Owns(id) /\ Files(id)

-----------------------------------------------------------------------------
(* Promises.                                                                *)

\* The run of id's job died.
Ended(id) == job[id].run \in Runs /\ phase[job[id].run] = "Ended"

\* Nothing is promised before the save is over.
Unpromised(id) == ~Ended(id) /\ job[id].pc \notin {"Resaved", "Kept"} => promise[id] = 0

\* An entry's lifetime covers the promise.
Covered(id) ==
  /\ job[id].own = Orphan => promise[id] <= now
  /\ Dated(job[id].own) => promise[id] <= Ends(job[id].own)

\* What the message's state says of a lifetime that runs.
Agrees(id, life) ==
  /\ Dated(life) => job[id].message # "Open"
  /\ life.state = "Acked" => job[id].message = "Acked"
  /\ life.state = "Recovered" => job[id].recovered = life.since

Settled(id) ==
  /\ Dated(job[id].own) => job[id].pc \in {"Resaved", "Kept"}
  /\ Agrees(id, job[id].own) /\ Agrees(id, job[id].body)
  /\ job[id].pc = "Resaved" /\ Dated(job[id].own) => job[id].body = job[id].own

\* What a run last wrote in its inventory of id: older than its entry, and
\* after its death no less than the promise that is left.
Wrote(id, life) ==
  /\ phase[job[id].run] = "Up" =>
       /\ job[id].pc \in {"Resaved", "Kept"} /\ Agrees(id, life)
       /\ life.state = "Acked" =>
            promise[id] <= Ends(life) /\ (Tracked(job[id].own) => job[id].own = life)
  /\ Ended(id) /\ OwnName(id) \in files[job[id].run] => promise[id] <= Ends(life)

Written(id) ==
  \A r \in Runs : Dated(inventory[r][id]) => job[id].run = r /\ Wrote(id, inventory[r][id])

\* What a dead run's file is promised any takeover gives it, and what an adopted
\* one is promised its name says.
Honoured(id) ==
  /\ Ended(id) =>
       /\ promise[id] <= now + RecoveryRetention
       /\ \A r \in Runs : phase[r] \in {"Locked", "Opening"} =>
            promise[id] <= taking[r].at + RecoveryRetention
  /\ \A r \in Runs : \A name \in files[r] :
       name.kind = "adopted" /\ name.id = id => promise[id] <= name.n

\* Kept, without its lock file.
OnDisk(id) ==
  promise[id] > now => \E r \in Runs : \E name \in files[r] : IsReport(name) /\ name.id = id

Promised(id) ==
  Unpromised(id) /\ Covered(id) /\ Settled(id) /\ Written(id) /\ Honoured(id) /\ OnDisk(id)

Promises ==
  /\ \A r \in Runs : taking[r].at <= now
  /\ \A id \in Reports : Promised(id)

-----------------------------------------------------------------------------
(* The first layer: types.                                                  *)

LEMMA TimeTypes ==
  /\ Times \subseteq Nat /\ Deadlines \subseteq Nat /\ Forever \in Nat
  /\ 0 \in Times /\ 0 \in Deadlines
  /\ \A t \in Times : /\ t < Forever
                      /\ t + AckRetention \in Deadlines
                      /\ t + RecoveryRetention \in Deadlines
  /\ \A t \in Deadlines : t < Forever
  BY StoreAssumption DEF Times, Deadlines, Forever

LEMMA SpanTypes ==
  /\ Nothing \in Spans /\ Pinned \in Spans /\ Orphan \in Spans
  /\ \A t \in Times : /\ [state |-> "Acked", since |-> t] \in Spans
                      /\ [state |-> "Recovered", since |-> t] \in Spans
  /\ Nothing.state = "None" /\ Pinned.state = "Pinned" /\ Orphan.state = "Orphan"
  BY DEF Spans, Nothing, Pinned, Orphan

LEMMA SpanCases ==
  ASSUME NEW life \in Spans
  PROVE  /\ Dated(life) => life.since \in Times
         /\ Dated(life) => life = [state |-> life.state, since |-> life.since]
         /\ life.state = "None" <=> life = Nothing
         /\ life.state = "Pinned" <=> life = Pinned
         /\ life.state = "Orphan" <=> life = Orphan
         /\ life = Nothing \/ life = Orphan \/ life = Pinned \/ Dated(life)
         /\ Tracked(life) <=> life = Pinned \/ Dated(life)
  BY DEF Spans, Dated, Nothing, Pinned, Orphan, Tracked

LEMMA EndsType ==
  ASSUME NEW life \in Spans, Tracked(life)
  PROVE  Ends(life) \in Deadlines \cup {Forever}
<1>1. CASE life = Pinned
  BY <1>1, SpanTypes DEF Ends
<1>2. CASE Dated(life)
  <2>1. life.since \in Times
    BY <1>2, SpanCases
  <2>2. QED
    BY <1>2, <2>1, TimeTypes DEF Ends, Dated, Retention
<1>3. QED
  BY <1>1, <1>2, SpanCases

LEMMA NameTypes ==
  /\ \A id \in Reports : OwnName(id) \in Names
  /\ \A id \in Reports, n \in Deadlines : AdoptedName(id, n) \in Names
  /\ \A name \in Names : /\ name.id \in Reports
                         /\ name.kind \in {"own", "temp", "adopted"}
                         /\ name.kind = "own" => name = OwnName(name.id)
                         /\ name.kind = "adopted" =>
                              name.n \in Deadlines /\ name = AdoptedName(name.id, name.n)
  BY DEF Names, OwnName, AdoptedName

LEMMA TempType ==
  ASSUME NEW id \in Reports, job[id].try \in 0..MaxTries, job[id].try # 0
  PROVE  TempName(id) \in Names /\ TempName(id).kind = "temp" /\ TempName(id).id = id
  BY StoreAssumption DEF TempName, Names

LEMMA InitialTypes ==
  /\ NoJob \in Jobs /\ NoTaking \in Takings /\ Idle \in Sweeps /\ NoCounts \in Counters
  /\ NoInventory \in [Reports -> Spans]
<1>1. NoJob \in Jobs
  BY StoreAssumption, SpanTypes DEF NoJob, Jobs, Pcs
<1>2. NoTaking \in Takings
  BY TimeTypes DEF NoTaking, Takings
<1>3. Idle \in Sweeps
  BY DEF Idle, Sweeps
<1>4. NoCounts \in Counters
  BY DEF NoCounts, Counters
<1>5. QED
  BY <1>1, <1>2, <1>3, <1>4, SpanTypes DEF NoInventory

LEMMA OverType ==
  ASSUME NEW j \in Jobs
  PROVE  /\ Over(j) \in Jobs
         /\ Over(j).run = j.run /\ Over(j).own = j.own /\ Over(j).bytes = j.bytes
         /\ Over(j).pc = "Gone" /\ Over(j).message = "Open" /\ Over(j).body = Nothing
         /\ Over(j).recovered = Forever /\ Over(j).again = FALSE
         /\ Over(j).kind = "None"
  BY InitialTypes, SpanTypes DEF Over, NoJob, Jobs, Pcs


(* Counters after an update of some fields.                                 *)

Strays == SUBSET [name : Names, alias : BOOLEAN]

LEMMA ReservedCounts ==
  ASSUME NEW c \in Counters
  PROVE  /\ reserved(c) \in Counters
         /\ reserved(c).own_bytes = c.own_bytes /\ reserved(c).adopted_bytes = c.adopted_bytes
         /\ reserved(c).reserved_bytes = c.reserved_bytes + Room
         /\ reserved(c).reserved_slots = c.reserved_slots + 1
         /\ reserved(c).in_flight = c.in_flight /\ reserved(c).unsaved = c.unsaved
         /\ reserved(c).stray = c.stray
<1> DEFINE x == c.reserved_bytes + Room
           y == c.reserved_slots + 1
<1>1. x \in Int /\ y \in Int
  BY StoreAssumption DEF Counters
<1>2. reserved(c) = [c EXCEPT !.reserved_bytes = x, !.reserved_slots = y]
  BY DEF reserved
<1> HIDE DEF x, y
<1>3. reserved(c) \in Counters
  BY <1>1, <1>2 DEF Counters
<1>4. /\ reserved(c).reserved_bytes = x /\ reserved(c).reserved_slots = y
      /\ reserved(c).own_bytes = c.own_bytes /\ reserved(c).adopted_bytes = c.adopted_bytes
      /\ reserved(c).in_flight = c.in_flight /\ reserved(c).unsaved = c.unsaved
      /\ reserved(c).stray = c.stray
  BY <1>2 DEF Counters
<1>5. QED
  BY <1>3, <1>4 DEF x, y

LEMMA ReleasedCounts ==
  ASSUME NEW c \in Counters
  PROVE  /\ released(c) \in Counters
         /\ released(c).own_bytes = c.own_bytes /\ released(c).adopted_bytes = c.adopted_bytes
         /\ released(c).reserved_bytes = c.reserved_bytes - Room
         /\ released(c).reserved_slots = c.reserved_slots - 1
         /\ released(c).in_flight = c.in_flight /\ released(c).unsaved = c.unsaved
         /\ released(c).stray = c.stray
<1> DEFINE x == c.reserved_bytes - Room
           y == c.reserved_slots - 1
<1>1. x \in Int /\ y \in Int
  BY StoreAssumption DEF Counters
<1>2. released(c) = [c EXCEPT !.reserved_bytes = x, !.reserved_slots = y]
  BY DEF released
<1> HIDE DEF x, y
<1>3. released(c) \in Counters
  BY <1>1, <1>2 DEF Counters
<1>4. /\ released(c).reserved_bytes = x /\ released(c).reserved_slots = y
      /\ released(c).own_bytes = c.own_bytes /\ released(c).adopted_bytes = c.adopted_bytes
      /\ released(c).in_flight = c.in_flight /\ released(c).unsaved = c.unsaved
      /\ released(c).stray = c.stray
  BY <1>2 DEF Counters
<1>5. QED
  BY <1>3, <1>4 DEF x, y

\* c with new fields; every update of the counters in the model is one of these.
LEMMA Recounts ==
  ASSUME NEW c \in Counters, NEW ob \in Int, NEW ab \in Int, NEW fl \in Int, NEW un \in Int,
         NEW sy \in Strays
  PROVE  /\ [c EXCEPT !.in_flight = fl] \in Counters
         /\ [c EXCEPT !.unsaved = un] \in Counters
         /\ [c EXCEPT !.in_flight = fl, !.unsaved = un] \in Counters
         /\ [c EXCEPT !.own_bytes = ob, !.stray = sy, !.in_flight = fl, !.unsaved = un] \in Counters
         /\ [c EXCEPT !.stray = sy, !.own_bytes = ob] \in Counters
         /\ [c EXCEPT !.own_bytes = ob] \in Counters
         /\ [c EXCEPT !.stray = sy] \in Counters
         /\ [c EXCEPT !.adopted_bytes = ab] \in Counters
  BY DEF Counters, Strays

-----------------------------------------------------------------------------
(* What each step of a job does, field by field: the layers below cite      *)
(* these facts instead of the actions.                                      *)

\* A step of id's job in run r: its record, r's counters and directory, and
\* its promise.
JobStep(id, r, new, c, fs, p) ==
  /\ job' = [job EXCEPT ![id] = new]
  /\ st' = [st EXCEPT ![r] = c]
  /\ files' = [files EXCEPT ![r] = fs]
  /\ promise' = [promise EXCEPT ![id] = p]
  /\ UNCHANGED <<norename, lock, dir, inventory, holder, phase, taking, sweeping, now>>

\* ... and what it leaves alone.
Frame(id, r) ==
  /\ r \in Runs /\ phase[r] = "Up" /\ job'[id].run = r
  /\ \A o \in Reports : o # id => job'[o] = job[o] /\ promise'[o] = promise[o]
  /\ \A o \in Runs : o # r => st'[o] = st[o] /\ files'[o] = files[o]
  /\ UNCHANGED <<norename, lock, dir, inventory, holder, phase, taking, sweeping, now>>

\* How far the counters of r move.
Moves(r, own, rooms, flight, unsaved) ==
  /\ st'[r].own_bytes = st[r].own_bytes + own
  /\ st'[r].reserved_slots = st[r].reserved_slots + rooms
  /\ rooms = 0 => st'[r].reserved_bytes = st[r].reserved_bytes
  /\ rooms = 1 => st'[r].reserved_bytes = st[r].reserved_bytes + Room
  /\ rooms = -1 => st'[r].reserved_bytes = st[r].reserved_bytes - Room
  /\ st'[r].in_flight = st[r].in_flight + flight
  /\ st'[r].unsaved = st[r].unsaved + unsaved
  /\ st'[r].adopted_bytes = st[r].adopted_bytes

SameLife(id) ==
  /\ job'[id].own = job[id].own /\ job'[id].bytes = job[id].bytes
  /\ job'[id].body = job[id].body /\ job'[id].message = job[id].message
  /\ job'[id].recovered = job[id].recovered

SameTry(id) ==
  job'[id].kind = job[id].kind /\ job'[id].again = job[id].again /\ job'[id].try = job[id].try

IsOver(id) ==
  /\ job'[id].pc = "Gone" /\ job'[id].kind = "None" /\ job'[id].again = FALSE
  /\ job'[id].body = Nothing /\ job'[id].message = "Open" /\ job'[id].recovered = Forever

LEMMA JobSteps ==
  ASSUME Typed, NEW id \in Reports, NEW r \in Runs, phase[r] = "Up",
         NEW new \in Jobs, new.run = r, NEW c \in Counters, NEW fs \in SUBSET Names,
         NEW p \in Deadlines \cup {Forever}, JobStep(id, r, new, c, fs, p)
  PROVE  /\ Typed' /\ Frame(id, r)
         /\ job'[id] = new /\ st'[r] = c /\ files'[r] = fs /\ promise'[id] = p
<1>1. /\ job' \in [Reports -> Jobs] /\ st' \in [Runs -> Counters]
      /\ files' \in [Runs -> SUBSET Names] /\ promise' \in [Reports -> Deadlines \cup {Forever}]
  BY DEF Typed, JobStep
<1>2. Typed'
  BY <1>1 DEF Typed, JobStep
<1>3. job'[id] = new /\ st'[r] = c /\ files'[r] = fs /\ promise'[id] = p
  BY DEF Typed, JobStep
<1>4. Frame(id, r)
  BY <1>3 DEF Typed, JobStep, Frame
<1>5. QED
  BY <1>2, <1>3, <1>4

\* What stays is set to itself.
LEMMA Stays ==
  ASSUME Typed
  PROVE  /\ \A id \in Reports : job = [job EXCEPT ![id] = job[id]]
         /\ \A id \in Reports : promise = [promise EXCEPT ![id] = promise[id]]
         /\ \A r \in Runs : st = [st EXCEPT ![r] = st[r]] /\ files = [files EXCEPT ![r] = files[r]]
  BY DEF Typed

\* The tries of a job that moved.
LEMMA TriesStep ==
  ASSUME Tries, NEW id \in Reports, \A o \in Reports : o # id => job'[o] = job[o],
         job'[id].pc \in Trying => job'[id].try # 0
  PROVE  Tries'
  BY DEF Tries

LEMMA JobTypes ==
  ASSUME Typed, NEW id \in Reports
  PROVE  /\ job[id] \in Jobs /\ job[id].run \in Runs \cup {NoRun}
         /\ job[id].kind \in {"None", "Report", "Dispatch"} /\ job[id].pc \in Pcs
         /\ job[id].try \in 0..MaxTries /\ job[id].again \in BOOLEAN
         /\ job[id].own \in Spans /\ job[id].bytes \in {0, Size, Room} /\ job[id].body \in Spans
         /\ job[id].recovered \in Times \cup {Forever}
         /\ promise[id] \in Deadlines \cup {Forever}
         /\ Up(job[id].run) => job[id].run \in Runs
<1>1. job[id] \in Jobs /\ promise[id] \in Deadlines \cup {Forever}
  BY DEF Typed
<1>2. QED
  BY <1>1 DEF Jobs, Up

LEMMA RunTypes ==
  ASSUME Typed, NEW r \in Runs
  PROVE  /\ st[r] \in Counters /\ files[r] \in SUBSET Names /\ taking[r] \in Takings
         /\ sweeping[r] \in Sweeps
         /\ st[r].own_bytes \in Int /\ st[r].adopted_bytes \in Int
         /\ st[r].reserved_bytes \in Int /\ st[r].reserved_slots \in Int
         /\ st[r].in_flight \in Int /\ st[r].unsaved \in Int /\ st[r].stray \in Strays
         /\ taking[r].at \in Times /\ taking[r].of \in Runs \cup {NoRun}
         /\ taking[r].tried \in SUBSET Runs /\ taking[r].todo \in SUBSET Names
<1>1. /\ st[r] \in Counters /\ files[r] \in SUBSET Names /\ taking[r] \in Takings
      /\ sweeping[r] \in Sweeps
  BY DEF Typed
<1>2. /\ st[r].own_bytes \in Int /\ st[r].adopted_bytes \in Int
      /\ st[r].reserved_bytes \in Int /\ st[r].reserved_slots \in Int
      /\ st[r].in_flight \in Int /\ st[r].unsaved \in Int /\ st[r].stray \in Strays
  BY <1>1 DEF Counters, Strays
<1>3. QED
  BY <1>1, <1>2 DEF Takings

-----------------------------------------------------------------------------

\* reserve: a room, and for a dispatch a fallback slot.
LEMMA DoesReserve ==
  ASSUME Typed, Tries, NEW r \in Runs, NEW id \in Reports, NEW kind \in {"Report", "Dispatch"},
         reserve(r, id, kind)
  PROVE  /\ Typed' /\ Tries' /\ Frame(id, r) /\ SameLife(id)
         /\ job[id].pc = "New" /\ job'[id].pc = "Reserved" /\ job'[id].kind = kind
         /\ job'[id].again = job[id].again /\ job'[id].try = 1
         /\ Moves(r, 0, 1, IF kind = "Dispatch" THEN 1 ELSE 0, 0)
         /\ st'[r].stray = st[r].stray
         /\ files'[r] = files[r] /\ promise'[id] = promise[id]
<1> DEFINE fl == IF kind = "Dispatch" THEN reserved(st[r]).in_flight + 1 ELSE reserved(st[r]).in_flight
           c == [reserved(st[r]) EXCEPT !.in_flight = fl]
           new == [job[id] EXCEPT !.run = r, !.kind = kind, !.pc = "Reserved", !.try = 1]
<1>1. st[r] \in Counters /\ reserved(st[r]) \in Counters /\ fl \in Int
  BY RunTypes, ReservedCounts
<1>2. JobStep(id, r, new, c, files[r], promise[id]) /\ phase[r] = "Up" /\ job[id].pc = "New"
  BY Stays DEF reserve, JobStep, Counts, Becomes, disk, Up
<1>3. /\ new \in Jobs /\ new.run = r /\ new.pc = "Reserved" /\ new.kind = kind /\ new.try = 1
      /\ new.again = job[id].again /\ new.own = job[id].own /\ new.bytes = job[id].bytes
      /\ new.body = job[id].body /\ new.message = job[id].message
      /\ new.recovered = job[id].recovered
  <2>1. 1 \in 0..MaxTries /\ "Reserved" \in Pcs /\ job[id] \in Jobs
    BY StoreAssumption, JobTypes DEF Pcs
  <2>2. QED
    BY <2>1 DEF Jobs
<1>4. fl = IF kind = "Dispatch" THEN st[r].in_flight + 1 ELSE st[r].in_flight
  BY <1>1, ReservedCounts
<1> HIDE DEF fl, new
<1>5. c \in Counters
  BY <1>1, Recounts, RunTypes
<1>6. /\ c.own_bytes = st[r].own_bytes /\ c.adopted_bytes = st[r].adopted_bytes
      /\ c.reserved_bytes = st[r].reserved_bytes + Room
      /\ c.reserved_slots = st[r].reserved_slots + 1
      /\ c.in_flight = fl /\ c.unsaved = st[r].unsaved /\ c.stray = st[r].stray
  BY <1>1, ReservedCounts DEF Counters
<1> HIDE DEF c
<1>7. /\ Typed' /\ Frame(id, r) /\ job'[id] = new /\ st'[r] = c /\ files'[r] = files[r]
      /\ promise'[id] = promise[id]
  BY <1>2, <1>3, <1>5, JobSteps, JobTypes, RunTypes
<1>8. Moves(r, 0, 1, IF kind = "Dispatch" THEN 1 ELSE 0, 0)
  BY <1>4, <1>6, <1>7, RunTypes DEF Moves
<1>9. Tries'
  BY <1>3, <1>7, TriesStep DEF Frame
<1>10. QED
  BY <1>2, <1>3, <1>6, <1>7, <1>8, <1>9 DEF SameLife

\* release: the room given back unused.
LEMMA DoesRelease ==
  ASSUME Typed, Tries, NEW id \in Reports, release(id)
  PROVE  /\ Typed' /\ Tries' /\ Frame(id, job[id].run) /\ IsOver(id)
         /\ job[id].pc = "Reserved" /\ ~job[id].again
         /\ job'[id].own = job[id].own /\ job'[id].bytes = job[id].bytes
         /\ Moves(job[id].run, 0, -1, IF job[id].kind = "Dispatch" THEN -1 ELSE 0, 0)
         /\ st'[job[id].run].stray = st[job[id].run].stray
         /\ files'[job[id].run] = files[job[id].run] /\ promise'[id] = promise[id]
<1> DEFINE r == job[id].run
           fl == IF job[id].kind = "Dispatch" THEN released(st[r]).in_flight - 1
                                              ELSE released(st[r]).in_flight
           c == [released(st[r]) EXCEPT !.in_flight = fl]
           new == Over(job[id])
<1>1. JobStep(id, r, new, c, files[r], promise[id]) /\ r \in Runs /\ phase[r] = "Up"
      /\ job[id].pc = "Reserved" /\ ~job[id].again
  BY Stays DEF release, JobStep, Counts, Becomes, disk, Up, At
<1>2. st[r] \in Counters /\ released(st[r]) \in Counters /\ fl \in Int
  BY <1>1, RunTypes, ReleasedCounts
<1>3. /\ new \in Jobs /\ new.run = r /\ new.pc = "Gone" /\ new.kind = "None" /\ new.again = FALSE
      /\ new.own = job[id].own /\ new.bytes = job[id].bytes
      /\ new.body = Nothing /\ new.message = "Open" /\ new.recovered = Forever
  BY JobTypes, OverType
<1>4. fl = IF job[id].kind = "Dispatch" THEN st[r].in_flight - 1 ELSE st[r].in_flight
  BY <1>2, ReleasedCounts
<1> HIDE DEF fl, new
<1>5. c \in Counters
  BY <1>2 DEF Counters
<1>6. /\ c.own_bytes = st[r].own_bytes /\ c.adopted_bytes = st[r].adopted_bytes
      /\ c.reserved_bytes = st[r].reserved_bytes - Room
      /\ c.reserved_slots = st[r].reserved_slots - 1
      /\ c.in_flight = fl /\ c.unsaved = st[r].unsaved /\ c.stray = st[r].stray
  BY <1>2, ReleasedCounts DEF Counters
<1> HIDE DEF c
<1>7. /\ Typed' /\ Frame(id, r) /\ job'[id] = new /\ st'[r] = c /\ files'[r] = files[r]
      /\ promise'[id] = promise[id]
  BY <1>1, <1>3, <1>5, JobSteps, JobTypes, RunTypes
<1>8. Moves(r, 0, -1, IF job[id].kind = "Dispatch" THEN -1 ELSE 0, 0)
  BY <1>1, <1>4, <1>6, <1>7, RunTypes, StoreAssumption DEF Moves
<1>9. Tries'
  BY <1>3, <1>7, TriesStep DEF Frame, Trying
<1>10. QED
  BY <1>1, <1>3, <1>6, <1>7, <1>8, <1>9 DEF IsOver

\* write, up to the temporary name.
LEMMA DoesWriteTemp ==
  ASSUME Typed, Tries, NEW id \in Reports, write_temp(id)
  PROVE  /\ Typed' /\ Tries' /\ Frame(id, job[id].run) /\ SameLife(id) /\ SameTry(id)
         /\ job[id].pc = "Reserved" /\ job'[id].pc = "Temp"
         /\ Moves(job[id].run, 0, 0, 0, 0)
         /\ st'[job[id].run].stray = st[job[id].run].stray
         /\ files'[job[id].run] = files[job[id].run] \cup {TempName(id)}
         /\ promise'[id] = promise[id]
<1> DEFINE r == job[id].run
           fs == files[r] \cup {TempName(id)}
           new == [job[id] EXCEPT !.pc = "Temp"]
<1>1. JobStep(id, r, new, st[r], fs, promise[id]) /\ r \in Runs /\ phase[r] = "Up"
      /\ job[id].pc = "Reserved"
  BY Stays DEF write_temp, JobStep, Becomes, disk, Up, At
<1>2. fs \in SUBSET Names
  BY <1>1, RunTypes, JobTypes, TempType DEF Tries, Trying
<1>3. /\ new \in Jobs /\ new.run = r /\ new.pc = "Temp" /\ new.kind = job[id].kind
      /\ new.again = job[id].again /\ new.try = job[id].try
      /\ new.own = job[id].own /\ new.bytes = job[id].bytes
      /\ new.body = job[id].body /\ new.message = job[id].message
      /\ new.recovered = job[id].recovered
  <2>1. "Temp" \in Pcs /\ job[id] \in Jobs
    BY JobTypes DEF Pcs
  <2>2. QED
    BY <2>1 DEF Jobs
<1> HIDE DEF fs, new
<1>4. /\ Typed' /\ Frame(id, r) /\ job'[id] = new /\ st'[r] = st[r] /\ files'[r] = fs
      /\ promise'[id] = promise[id]
  BY <1>1, <1>2, <1>3, JobSteps, JobTypes, RunTypes
<1>5. Moves(r, 0, 0, 0, 0)
  BY <1>1, <1>4, RunTypes DEF Moves
<1>6. Tries'
  BY <1>1, <1>3, <1>4, TriesStep DEF Frame, Tries, Trying
<1>7. QED
  BY <1>1, <1>3, <1>4, <1>5, <1>6 DEF SameLife, SameTry, fs

\* write: the own name, and with a link the temporary one may stay.
LEMMA DoesWriteLink ==
  ASSUME Typed, Tries, NEW id \in Reports, write_link(id)
  PROVE  /\ Typed' /\ Tries' /\ Frame(id, job[id].run) /\ SameLife(id) /\ SameTry(id)
         /\ job[id].pc = "Temp" /\ job'[id].pc = "Linked"
         /\ Moves(job[id].run, 0, 0, 0, 0)
         /\ st'[job[id].run].stray = st[job[id].run].stray
         /\ OwnName(id) \notin files[job[id].run]
         /\ \/ files'[job[id].run] = files[job[id].run] \cup {OwnName(id)}
            \/ files'[job[id].run] = (files[job[id].run] \ {TempName(id)}) \cup {OwnName(id)}
         /\ promise'[id] = promise[id]
<1> DEFINE r == job[id].run
           new == [job[id] EXCEPT !.pc = "Linked"]
<1>1. PICK behind \in {TRUE, FALSE} :
         files' = [files EXCEPT ![r] =
                     (IF behind THEN files[r] ELSE files[r] \ {TempName(id)}) \cup {OwnName(id)}]
  BY DEF write_link
<1> DEFINE fs == (IF behind THEN files[r] ELSE files[r] \ {TempName(id)}) \cup {OwnName(id)}
<1>2. JobStep(id, r, new, st[r], fs, promise[id]) /\ r \in Runs /\ phase[r] = "Up"
      /\ job[id].pc = "Temp" /\ OwnName(id) \notin files[r]
  BY <1>1, Stays DEF write_link, JobStep, Becomes, disk, Up, At
<1>3. fs \in SUBSET Names
  BY <1>2, RunTypes, NameTypes
<1>4. /\ new \in Jobs /\ new.run = r /\ new.pc = "Linked" /\ new.kind = job[id].kind
      /\ new.again = job[id].again /\ new.try = job[id].try
      /\ new.own = job[id].own /\ new.bytes = job[id].bytes
      /\ new.body = job[id].body /\ new.message = job[id].message
      /\ new.recovered = job[id].recovered
  <2>1. "Linked" \in Pcs /\ job[id] \in Jobs
    BY JobTypes DEF Pcs
  <2>2. QED
    BY <2>1 DEF Jobs
<1> HIDE DEF fs, new
<1>5. /\ Typed' /\ Frame(id, r) /\ job'[id] = new /\ st'[r] = st[r] /\ files'[r] = fs
      /\ promise'[id] = promise[id]
  BY <1>2, <1>3, <1>4, JobSteps, JobTypes, RunTypes
<1>6. Moves(r, 0, 0, 0, 0)
  BY <1>2, <1>5, RunTypes DEF Moves
<1>7. Tries'
  BY <1>2, <1>4, <1>5, TriesStep DEF Frame, Tries, Trying
<1>8. QED
  BY <1>2, <1>4, <1>5, <1>6, <1>7 DEF SameLife, SameTry, fs

\* write's success: the room turns into the file's size.
LEMMA DoesWriteSaved ==
  ASSUME Typed, Tries, NEW id \in Reports, write_saved(id)
  PROVE  /\ Typed' /\ Tries' /\ Frame(id, job[id].run)
         /\ job[id].pc = "Linked"
         /\ job'[id].pc = IF job[id].kind = "Report" THEN "Saved"
                            ELSE IF job[id].again THEN "Resaved" ELSE "Kept"
         /\ job'[id].kind = job[id].kind /\ job'[id].again = job[id].again
         /\ job'[id].own = Pinned /\ job'[id].bytes = Size
         /\ job'[id].body = job[id].body /\ job'[id].message = job[id].message
         /\ job'[id].recovered = job[id].recovered
         /\ Moves(job[id].run, Size, -1,
                  IF job[id].kind = "Dispatch" /\ ~job[id].again THEN -1 ELSE 0,
                  IF job[id].again THEN -1 ELSE 0)
         /\ st'[job[id].run].stray =
              st[job[id].run].stray
                \cup (IF TempName(id) \in files[job[id].run] THEN {StrayOf(id, TRUE)} ELSE {})
         /\ files'[job[id].run] = files[job[id].run]
         /\ promise'[id] = IF job[id].kind = "Report" THEN promise[id] ELSE Forever
<1> DEFINE r == job[id].run
           d == released(st[r])
           ob == d.own_bytes + Size
           sy == d.stray \cup (IF TempName(id) \in files[r] THEN {StrayOf(id, TRUE)} ELSE {})
           fl == IF job[id].kind = "Dispatch" /\ ~job[id].again THEN d.in_flight - 1 ELSE d.in_flight
           un == IF job[id].again THEN d.unsaved - 1 ELSE d.unsaved
           c == [d EXCEPT !.own_bytes = ob, !.stray = sy, !.in_flight = fl, !.unsaved = un]
           pc == IF job[id].kind = "Report" THEN "Saved"
                   ELSE IF job[id].again THEN "Resaved" ELSE "Kept"
           new == [job[id] EXCEPT !.own = Pinned, !.bytes = Size, !.try = 0, !.pc = pc]
           p == IF job[id].kind = "Report" THEN promise[id] ELSE Forever
<1>1. JobStep(id, r, new, c, files[r], p) /\ r \in Runs /\ phase[r] = "Up" /\ job[id].pc = "Linked"
  BY Stays DEF write_saved, JobStep, Counts, Becomes, disk, Up, At
<1>2. st[r] \in Counters /\ d \in Counters
  BY <1>1, RunTypes, ReleasedCounts
<1>3. ob \in Int /\ fl \in Int /\ un \in Int /\ ob = st[r].own_bytes + Size
      /\ fl = (IF job[id].kind = "Dispatch" /\ ~job[id].again THEN st[r].in_flight - 1 ELSE st[r].in_flight)
      /\ un = (IF job[id].again THEN st[r].unsaved - 1 ELSE st[r].unsaved)
  BY <1>1, <1>2, RunTypes, ReleasedCounts, StoreAssumption
<1>4. sy \in Strays
      /\ sy = st[r].stray \cup (IF TempName(id) \in files[r] THEN {StrayOf(id, TRUE)} ELSE {})
  <2>1. d.stray = st[r].stray /\ st[r].stray \in Strays /\ files[r] \in SUBSET Names
    BY <1>1, <1>2, RunTypes, ReleasedCounts
  <2>2. TempName(id) \in Names => StrayOf(id, TRUE) \in [name : Names, alias : BOOLEAN]
    BY DEF StrayOf
  <2> HIDE DEF d
  <2>3. QED
    BY <2>1, <2>2 DEF Strays
<1>5. p \in Deadlines \cup {Forever}
  BY JobTypes
<1>6. /\ new \in Jobs /\ new.run = r /\ new.pc = pc /\ new.kind = job[id].kind
      /\ new.again = job[id].again /\ new.own = Pinned /\ new.bytes = Size
      /\ new.body = job[id].body /\ new.message = job[id].message
      /\ new.recovered = job[id].recovered
  <2>1. pc \in Pcs /\ job[id] \in Jobs /\ 0 \in 0..MaxTries /\ Pinned \in Spans
    BY JobTypes, StoreAssumption, SpanTypes DEF Pcs
  <2> HIDE DEF pc
  <2>2. QED
    BY <2>1 DEF Jobs
<1> HIDE DEF ob, sy, fl, un, d, new, p
<1>7. c \in Counters
  <2>1. d \in Counters /\ ob \in Int /\ fl \in Int /\ un \in Int
        /\ sy \in SUBSET [name : Names, alias : BOOLEAN]
    BY <1>2, <1>3, <1>4 DEF Strays
  <2>2. QED
    BY <2>1 DEF Counters
<1>8. /\ c.own_bytes = ob /\ c.adopted_bytes = d.adopted_bytes
      /\ c.reserved_bytes = d.reserved_bytes /\ c.reserved_slots = d.reserved_slots
      /\ c.in_flight = fl /\ c.unsaved = un /\ c.stray = sy
  BY <1>2 DEF Counters
<1>9. /\ d.adopted_bytes = st[r].adopted_bytes /\ d.reserved_bytes = st[r].reserved_bytes - Room
      /\ d.reserved_slots = st[r].reserved_slots - 1
  BY <1>2, ReleasedCounts DEF d
<1> HIDE DEF c
<1>10. /\ Typed' /\ Frame(id, r) /\ job'[id] = new /\ st'[r] = c /\ files'[r] = files[r]
       /\ promise'[id] = p
  BY <1>1, <1>5, <1>6, <1>7, JobSteps, RunTypes
<1>11. Moves(r, Size, -1, IF job[id].kind = "Dispatch" /\ ~job[id].again THEN -1 ELSE 0,
             IF job[id].again THEN -1 ELSE 0)
  BY <1>1, <1>3, <1>8, <1>9, <1>10, RunTypes, StoreAssumption DEF Moves
<1>12. Tries'
  BY <1>6, <1>10, TriesStep DEF Frame, Trying
<1>13. QED
  BY <1>1, <1>4, <1>6, <1>8, <1>10, <1>11, <1>12 DEF p

\* write's failure: what cannot be removed stays, charged; the room goes back.
LEMMA DoesWriteFailed ==
  ASSUME Typed, Tries, NEW id \in Reports, write_failed(id)
  PROVE  /\ Typed' /\ Tries' /\ Frame(id, job[id].run)
         /\ job[id].pc \in {"Reserved", "Temp", "Linked"}
         /\ job[id].kind = "Report" => IsOver(id)
         /\ job[id].kind # "Report" =>
              /\ job'[id].pc = "Failed" /\ SameTry(id)
              /\ job'[id].body = job[id].body /\ job'[id].message = job[id].message
              /\ job'[id].recovered = job[id].recovered
         /\ promise'[id] = promise[id]
         /\ \E tempStays, ownStays \in BOOLEAN :
              /\ tempStays => TempName(id) \in files[job[id].run]
              /\ TempName(id) \in files[job[id].run] /\ job[id].pc = "Linked" => tempStays
              /\ ownStays => job[id].pc = "Linked"
              /\ files'[job[id].run] =
                   files[job[id].run]
                     \ ((IF tempStays THEN {} ELSE {TempName(id)})
                          \cup (IF job[id].pc = "Linked" /\ ~ownStays THEN {OwnName(id)} ELSE {}))
              /\ st'[job[id].run].stray =
                   IF tempStays THEN st[job[id].run].stray \cup {StrayOf(id, FALSE)}
                                ELSE st[job[id].run].stray
              /\ Moves(job[id].run, IF ownStays THEN Room ELSE 0, -1, 0, 0)
              /\ job'[id].own = (IF ownStays THEN Orphan ELSE job[id].own)
              /\ job'[id].bytes = (IF ownStays THEN Room ELSE job[id].bytes)
<1> DEFINE r == job[id].run
           j == job[id]
           d == released(st[r])
<1>1. PICK tempStays, ownStays \in BOOLEAN :
        /\ tempStays => TempName(id) \in files[r]
        /\ TempName(id) \in files[r] /\ j.pc = "Linked" => tempStays
        /\ ownStays => j.pc = "Linked"
        /\ files' = [files EXCEPT ![r] =
                       @ \ ((IF tempStays THEN {} ELSE {TempName(id)})
                              \cup (IF j.pc = "Linked" /\ ~ownStays THEN {OwnName(id)} ELSE {}))]
        /\ Counts(r, [d EXCEPT !.stray = IF tempStays THEN @ \cup {StrayOf(id, FALSE)} ELSE @,
                               !.own_bytes = IF ownStays THEN @ + Room ELSE @])
        /\ LET left == IF ownStays THEN [j EXCEPT !.own = Orphan, !.bytes = Room] ELSE j IN
           Becomes(id, IF j.kind = "Report" THEN Over(left) ELSE [left EXCEPT !.pc = "Failed"])
  BY DEF write_failed
<1> DEFINE fs == files[r] \ ((IF tempStays THEN {} ELSE {TempName(id)})
                               \cup (IF j.pc = "Linked" /\ ~ownStays THEN {OwnName(id)} ELSE {}))
           sy == IF tempStays THEN d.stray \cup {StrayOf(id, FALSE)} ELSE d.stray
           ob == IF ownStays THEN d.own_bytes + Room ELSE d.own_bytes
           c == [d EXCEPT !.stray = sy, !.own_bytes = ob]
           left == IF ownStays THEN [j EXCEPT !.own = Orphan, !.bytes = Room] ELSE j
           new == IF j.kind = "Report" THEN Over(left) ELSE [left EXCEPT !.pc = "Failed"]
<1>2. r \in Runs /\ phase[r] = "Up" /\ j.pc \in {"Reserved", "Temp", "Linked"}
  BY DEF write_failed, Up, At
<1>3. JobStep(id, r, new, c, fs, promise[id])
  <2>1. job' = [job EXCEPT ![id] = new] /\ st' = [st EXCEPT ![r] = c] /\ files' = [files EXCEPT ![r] = fs]
    BY <1>1, <1>2 DEF Becomes, Counts, Typed
  <2>2. UNCHANGED <<norename, lock, dir, inventory, holder, phase, taking, sweeping, now, promise>>
    BY DEF write_failed
  <2>3. QED
    BY <2>1, <2>2, Stays DEF JobStep
<1>4. st[r] \in Counters /\ d \in Counters /\ fs \in SUBSET Names
  BY <1>2, RunTypes, ReleasedCounts
<1>5. ob \in Int /\ ob = IF ownStays THEN st[r].own_bytes + Room ELSE st[r].own_bytes
  BY <1>2, <1>4, RunTypes, ReleasedCounts, StoreAssumption
<1>6. sy \in Strays /\ sy = IF tempStays THEN st[r].stray \cup {StrayOf(id, FALSE)} ELSE st[r].stray
  <2>1. d.stray = st[r].stray /\ st[r].stray \in Strays /\ files[r] \in SUBSET Names
    BY <1>2, <1>4, RunTypes, ReleasedCounts
  <2>2. TempName(id) \in Names => StrayOf(id, FALSE) \in [name : Names, alias : BOOLEAN]
    BY DEF StrayOf
  <2> HIDE DEF d
  <2>3. QED
    BY <1>1, <2>1, <2>2 DEF Strays
<1>7. /\ left \in Jobs /\ left.run = r /\ left.kind = j.kind /\ left.again = j.again
      /\ left.try = j.try /\ left.body = j.body /\ left.message = j.message
      /\ left.recovered = j.recovered
      /\ left.own = (IF ownStays THEN Orphan ELSE j.own)
      /\ left.bytes = (IF ownStays THEN Room ELSE j.bytes)
  <2>1. j \in Jobs /\ Orphan \in Spans
    BY JobTypes, SpanTypes
  <2>2. CASE ownStays
    BY <2>1, <2>2 DEF Jobs
  <2>3. CASE ~ownStays
    BY <2>1, <2>3
  <2>4. QED
    BY <2>2, <2>3
<1> HIDE DEF left, sy, ob, fs, d
<1>8. /\ new \in Jobs /\ new.run = r /\ new.own = left.own /\ new.bytes = left.bytes
      /\ j.kind = "Report" =>
           /\ new.pc = "Gone" /\ new.kind = "None" /\ new.again = FALSE
           /\ new.body = Nothing /\ new.message = "Open" /\ new.recovered = Forever
      /\ j.kind # "Report" =>
           /\ new.pc = "Failed" /\ new.kind = j.kind /\ new.again = j.again /\ new.try = j.try
           /\ new.body = j.body /\ new.message = j.message /\ new.recovered = j.recovered
  <2>1. CASE j.kind = "Report"
    <3>1. new = Over(left)
      BY <2>1
    <3> HIDE DEF new
    <3>2. QED
      BY <1>7, <2>1, <3>1, OverType
  <2>2. CASE j.kind # "Report"
    <3>1. "Failed" \in Pcs
      BY DEF Pcs
    <3>2. QED
      BY <1>7, <2>2, <3>1 DEF Jobs
  <2>3. QED
    BY <2>1, <2>2
<1>9. c \in Counters
  BY <1>4, <1>5, <1>6 DEF Counters, Strays
<1>10. /\ c.own_bytes = ob /\ c.adopted_bytes = d.adopted_bytes
       /\ c.reserved_bytes = d.reserved_bytes /\ c.reserved_slots = d.reserved_slots
       /\ c.in_flight = d.in_flight /\ c.unsaved = d.unsaved /\ c.stray = sy
  BY <1>4 DEF Counters
<1>11. /\ d.adopted_bytes = st[r].adopted_bytes /\ d.reserved_bytes = st[r].reserved_bytes - Room
       /\ d.reserved_slots = st[r].reserved_slots - 1
       /\ d.in_flight = st[r].in_flight /\ d.unsaved = st[r].unsaved
  BY <1>4, ReleasedCounts DEF d
<1> HIDE DEF c, new
<1>12. /\ Typed' /\ Frame(id, r) /\ job'[id] = new /\ st'[r] = c /\ files'[r] = fs
       /\ promise'[id] = promise[id]
  BY <1>2, <1>3, <1>4, <1>8, <1>9, JobSteps, JobTypes
<1>13. Moves(r, IF ownStays THEN Room ELSE 0, -1, 0, 0)
  BY <1>2, <1>5, <1>10, <1>11, <1>12, RunTypes, StoreAssumption DEF Moves
<1>14. Tries'
  BY <1>2, <1>8, <1>12, TriesStep DEF Frame, Tries, Trying
<1>15. /\ j.kind = "Report" => IsOver(id)
       /\ j.kind # "Report" =>
              /\ job'[id].pc = "Failed" /\ SameTry(id)
              /\ job'[id].body = job[id].body /\ job'[id].message = job[id].message
              /\ job'[id].recovered = job[id].recovered
  BY <1>8, <1>12 DEF IsOver, SameTry
<1>16. files'[r] = files[r] \ ((IF tempStays THEN {} ELSE {TempName(id)})
                               \cup (IF j.pc = "Linked" /\ ~ownStays THEN {OwnName(id)} ELSE {}))
  BY <1>12 DEF fs
<1>17. /\ st'[r].stray = (IF tempStays THEN st[r].stray \cup {StrayOf(id, FALSE)} ELSE st[r].stray)
       /\ job'[id].own = (IF ownStays THEN Orphan ELSE j.own)
       /\ job'[id].bytes = (IF ownStays THEN Room ELSE j.bytes)
  BY <1>6, <1>7, <1>8, <1>10, <1>12
<1> HIDE DEF r, j
<1>18. QED
  BY <1>1, <1>2, <1>12, <1>13, <1>14, <1>15, <1>16, <1>17 DEF r, j

\* save_held: the room taken back for the body, which keeps its slot.
LEMMA DoesSaveHeld ==
  ASSUME Typed, Tries, NEW id \in Reports, save_held(id)
  PROVE  /\ Typed' /\ Tries' /\ Frame(id, job[id].run) /\ SameTry(id)
         /\ job[id].pc = "Failed" /\ job'[id].pc = "Held"
         /\ job'[id].own = job[id].own /\ job'[id].bytes = job[id].bytes
         /\ job'[id].body = (IF job[id].again THEN job[id].body ELSE Pinned)
         /\ job'[id].message = job[id].message /\ job'[id].recovered = job[id].recovered
         /\ Moves(job[id].run, 0, 1, IF job[id].again THEN 0 ELSE -1, IF job[id].again THEN 0 ELSE 1)
         /\ st'[job[id].run].stray = st[job[id].run].stray
         /\ files'[job[id].run] = files[job[id].run] /\ promise'[id] = promise[id]
<1> DEFINE r == job[id].run
           d == reserved(st[r])
           fl == IF job[id].again THEN d.in_flight ELSE d.in_flight - 1
           un == IF job[id].again THEN d.unsaved ELSE d.unsaved + 1
           c == [d EXCEPT !.in_flight = fl, !.unsaved = un]
           body == IF job[id].again THEN job[id].body ELSE Pinned
           new == [job[id] EXCEPT !.pc = "Held", !.body = body]
<1>1. JobStep(id, r, new, c, files[r], promise[id]) /\ r \in Runs /\ phase[r] = "Up"
      /\ job[id].pc = "Failed"
  BY Stays DEF save_held, JobStep, Counts, Becomes, disk, Up, At
<1>2. st[r] \in Counters /\ d \in Counters
  BY <1>1, RunTypes, ReservedCounts
<1>3. /\ fl \in Int /\ un \in Int
      /\ fl = (IF job[id].again THEN st[r].in_flight ELSE st[r].in_flight - 1)
      /\ un = (IF job[id].again THEN st[r].unsaved ELSE st[r].unsaved + 1)
  BY <1>1, <1>2, RunTypes, ReservedCounts
<1>4. body \in Spans
  BY JobTypes, SpanTypes
<1>5. /\ d.own_bytes = st[r].own_bytes /\ d.adopted_bytes = st[r].adopted_bytes
      /\ d.reserved_bytes = st[r].reserved_bytes + Room
      /\ d.reserved_slots = st[r].reserved_slots + 1 /\ d.stray = st[r].stray
  BY <1>2, ReservedCounts
<1> HIDE DEF body, fl, un, d
<1>6. /\ new \in Jobs /\ new.run = r /\ new.pc = "Held" /\ new.kind = job[id].kind
      /\ new.again = job[id].again /\ new.try = job[id].try
      /\ new.own = job[id].own /\ new.bytes = job[id].bytes
      /\ new.body = body /\ new.message = job[id].message /\ new.recovered = job[id].recovered
  <2>1. "Held" \in Pcs /\ job[id] \in Jobs
    BY JobTypes DEF Pcs
  <2>2. QED
    BY <1>4, <2>1 DEF Jobs
<1>7. c \in Counters
  BY <1>2, <1>3 DEF Counters
<1>8. /\ c.own_bytes = d.own_bytes /\ c.adopted_bytes = d.adopted_bytes
      /\ c.reserved_bytes = d.reserved_bytes /\ c.reserved_slots = d.reserved_slots
      /\ c.in_flight = fl /\ c.unsaved = un /\ c.stray = d.stray
  BY <1>2 DEF Counters
<1> HIDE DEF c, new
<1>9. /\ Typed' /\ Frame(id, r) /\ job'[id] = new /\ st'[r] = c /\ files'[r] = files[r]
      /\ promise'[id] = promise[id]
  BY <1>1, <1>6, <1>7, JobSteps, JobTypes, RunTypes
<1>10. Moves(r, 0, 1, IF job[id].again THEN 0 ELSE -1, IF job[id].again THEN 0 ELSE 1)
  BY <1>1, <1>3, <1>5, <1>8, <1>9, RunTypes, StoreAssumption DEF Moves
<1>11. Tries'
  BY <1>1, <1>6, <1>9, TriesStep DEF Frame, Tries, Trying
<1>12. QED
  BY <1>1, <1>5, <1>6, <1>8, <1>9, <1>10, <1>11 DEF SameTry, body

\* retry_held: a held body's next attempt.
LEMMA DoesRetryHeld ==
  ASSUME Typed, Tries, NEW id \in Reports, retry_held(id)
  PROVE  /\ Typed' /\ Tries' /\ Frame(id, job[id].run) /\ SameLife(id)
         /\ job[id].pc = "Held" /\ job'[id].pc = "Reserved"
         /\ job'[id].kind = job[id].kind /\ job'[id].again = TRUE
         /\ job'[id].try = job[id].try + 1
         /\ Moves(job[id].run, 0, 0, 0, 0)
         /\ st'[job[id].run].stray = st[job[id].run].stray
         /\ files'[job[id].run] = files[job[id].run] /\ promise'[id] = promise[id]
<1> DEFINE r == job[id].run
           t == job[id].try + 1
           new == [job[id] EXCEPT !.pc = "Reserved", !.again = TRUE, !.try = t]
<1>1. JobStep(id, r, new, st[r], files[r], promise[id]) /\ r \in Runs /\ phase[r] = "Up"
      /\ job[id].pc = "Held" /\ job[id].try < MaxTries
  BY Stays DEF retry_held, JobStep, Becomes, disk, Up, At
<1>2. t \in 0..MaxTries /\ t # 0
  BY <1>1, JobTypes, StoreAssumption
<1> HIDE DEF t
<1>3. /\ new \in Jobs /\ new.run = r /\ new.pc = "Reserved" /\ new.kind = job[id].kind
      /\ new.again = TRUE /\ new.try = t
      /\ new.own = job[id].own /\ new.bytes = job[id].bytes
      /\ new.body = job[id].body /\ new.message = job[id].message
      /\ new.recovered = job[id].recovered
  <2>1. "Reserved" \in Pcs /\ job[id] \in Jobs
    BY JobTypes DEF Pcs
  <2>2. QED
    BY <1>2, <2>1 DEF Jobs
<1> HIDE DEF new
<1>4. /\ Typed' /\ Frame(id, r) /\ job'[id] = new /\ st'[r] = st[r] /\ files'[r] = files[r]
      /\ promise'[id] = promise[id]
  BY <1>1, <1>3, JobSteps, JobTypes, RunTypes
<1>5. Moves(r, 0, 0, 0, 0)
  BY <1>1, <1>4, RunTypes DEF Moves
<1>6. Tries'
  BY <1>2, <1>3, <1>4, TriesStep DEF Frame
<1>7. QED
  BY <1>1, <1>3, <1>4, <1>5, <1>6 DEF SameLife, t

\* end_held: the room and the fallback slot given back.
LEMMA DoesEndHeld ==
  ASSUME Typed, Tries, NEW id \in Reports, end_held(id)
  PROVE  /\ Typed' /\ Tries' /\ Frame(id, job[id].run) /\ IsOver(id)
         /\ job[id].pc = "Held"
         /\ job'[id].own = job[id].own /\ job'[id].bytes = job[id].bytes
         /\ Moves(job[id].run, 0, -1, 0, -1)
         /\ st'[job[id].run].stray = st[job[id].run].stray
         /\ files'[job[id].run] = files[job[id].run] /\ promise'[id] = promise[id]
<1> DEFINE r == job[id].run
           d == released(st[r])
           un == d.unsaved - 1
           c == [d EXCEPT !.unsaved = un]
           new == Over(job[id])
<1>1. JobStep(id, r, new, c, files[r], promise[id]) /\ r \in Runs /\ phase[r] = "Up"
      /\ job[id].pc = "Held"
  BY Stays DEF end_held, JobStep, Counts, Becomes, disk, Up, At
<1>2. st[r] \in Counters /\ d \in Counters /\ un \in Int
  BY <1>1, RunTypes, ReleasedCounts
<1>3. /\ d.own_bytes = st[r].own_bytes /\ d.adopted_bytes = st[r].adopted_bytes
      /\ d.reserved_bytes = st[r].reserved_bytes - Room
      /\ d.reserved_slots = st[r].reserved_slots - 1 /\ d.stray = st[r].stray
      /\ d.in_flight = st[r].in_flight /\ un = st[r].unsaved - 1
  BY <1>2, ReleasedCounts
<1>4. /\ new \in Jobs /\ new.run = r /\ new.pc = "Gone" /\ new.kind = "None" /\ new.again = FALSE
      /\ new.own = job[id].own /\ new.bytes = job[id].bytes
      /\ new.body = Nothing /\ new.message = "Open" /\ new.recovered = Forever
  BY JobTypes, OverType
<1> HIDE DEF d, un, new
<1>5. c \in Counters
  BY <1>2 DEF Counters
<1>6. /\ c.own_bytes = d.own_bytes /\ c.adopted_bytes = d.adopted_bytes
      /\ c.reserved_bytes = d.reserved_bytes /\ c.reserved_slots = d.reserved_slots
      /\ c.in_flight = d.in_flight /\ c.unsaved = un /\ c.stray = d.stray
  BY <1>2 DEF Counters
<1> HIDE DEF c
<1>7. /\ Typed' /\ Frame(id, r) /\ job'[id] = new /\ st'[r] = c /\ files'[r] = files[r]
      /\ promise'[id] = promise[id]
  BY <1>1, <1>4, <1>5, JobSteps, JobTypes, RunTypes
<1>8. Moves(r, 0, -1, 0, -1)
  BY <1>1, <1>3, <1>6, <1>7, RunTypes, StoreAssumption DEF Moves
<1>9. Tries'
  BY <1>4, <1>7, TriesStep DEF Frame, Trying
<1>10. QED
  BY <1>1, <1>3, <1>4, <1>6, <1>7, <1>8, <1>9 DEF IsOver

\* continue_lifetime: the file takes the lifetime its body had.
LEMMA DoesContinueLifetime ==
  ASSUME Typed, Tries, Bodied, NEW id \in Reports, continue_lifetime(id)
  PROVE  LET takes == job[id].body.state # "Pinned" /\ Tracked(job[id].own) IN
         /\ Typed' /\ Tries' /\ Frame(id, job[id].run)
         /\ job[id].pc = "Resaved" /\ job'[id].pc = "Kept"
         /\ job'[id].kind = job[id].kind /\ job'[id].again = FALSE
         /\ job'[id].own = (IF takes THEN job[id].body ELSE job[id].own)
         /\ job'[id].bytes = job[id].bytes /\ job'[id].body = Nothing
         /\ job'[id].message = job[id].message /\ job'[id].recovered = job[id].recovered
         /\ st'[job[id].run] = st[job[id].run] /\ files'[job[id].run] = files[job[id].run]
         /\ promise'[id] = IF takes THEN Ends(job[id].body) ELSE promise[id]
<1> DEFINE r == job[id].run
           takes == job[id].body.state # "Pinned" /\ Tracked(job[id].own)
           own == IF takes THEN job[id].body ELSE job[id].own
           new == [job[id] EXCEPT !.pc = "Kept", !.again = FALSE, !.try = 0, !.body = Nothing,
                                  !.own = own]
           p == IF takes THEN Ends(job[id].body) ELSE promise[id]
<1>1. JobStep(id, r, new, st[r], files[r], p) /\ r \in Runs /\ phase[r] = "Up" /\ job[id].pc = "Resaved"
  BY Stays DEF continue_lifetime, JobStep, Becomes, disk, Up, At
<1>2. own \in Spans /\ p \in Deadlines \cup {Forever}
  BY <1>1, JobTypes, EndsType DEF Bodied
<1> HIDE DEF own, p
<1>3. /\ new \in Jobs /\ new.run = r /\ new.pc = "Kept" /\ new.kind = job[id].kind
      /\ new.again = FALSE /\ new.own = own /\ new.bytes = job[id].bytes
      /\ new.body = Nothing /\ new.message = job[id].message
      /\ new.recovered = job[id].recovered
  <2>1. "Kept" \in Pcs /\ job[id] \in Jobs /\ 0 \in 0..MaxTries /\ Nothing \in Spans
    BY JobTypes, StoreAssumption, SpanTypes DEF Pcs
  <2>2. QED
    BY <1>2, <2>1 DEF Jobs
<1> HIDE DEF new
<1>4. /\ Typed' /\ Frame(id, r) /\ job'[id] = new /\ st'[r] = st[r] /\ files'[r] = files[r]
      /\ promise'[id] = p
  BY <1>1, <1>2, <1>3, JobSteps, RunTypes
<1>5. Tries'
  BY <1>3, <1>4, TriesStep DEF Frame, Trying
<1>6. QED
  BY <1>1, <1>3, <1>4, <1>5 DEF own, p

\* accept: the claim commits.
LEMMA DoesAccept ==
  ASSUME Typed, Tries, NEW id \in Reports, accept(id)
  PROVE  /\ Typed' /\ Tries' /\ Frame(id, job[id].run) /\ SameLife(id) /\ SameTry(id)
         /\ job[id].pc = "Saved" /\ job'[id].pc = "Kept"
         /\ st'[job[id].run] = st[job[id].run] /\ files'[job[id].run] = files[job[id].run]
         /\ promise'[id] = Forever
<1> DEFINE r == job[id].run
           new == [job[id] EXCEPT !.pc = "Kept"]
<1>1. JobStep(id, r, new, st[r], files[r], Forever) /\ r \in Runs /\ phase[r] = "Up"
      /\ job[id].pc = "Saved"
  BY Stays DEF accept, JobStep, Becomes, disk, Up, At
<1>2. /\ new \in Jobs /\ new.run = r /\ new.pc = "Kept" /\ new.kind = job[id].kind
      /\ new.again = job[id].again /\ new.try = job[id].try
      /\ new.own = job[id].own /\ new.bytes = job[id].bytes
      /\ new.body = job[id].body /\ new.message = job[id].message
      /\ new.recovered = job[id].recovered
  <2>1. "Kept" \in Pcs /\ job[id] \in Jobs
    BY JobTypes DEF Pcs
  <2>2. QED
    BY <2>1 DEF Jobs
<1> HIDE DEF new
<1>3. /\ Typed' /\ Frame(id, r) /\ job'[id] = new /\ st'[r] = st[r] /\ files'[r] = files[r]
      /\ promise'[id] = Forever
  BY <1>1, <1>2, JobSteps, RunTypes
<1>4. Tries'
  BY <1>1, <1>2, <1>3, TriesStep DEF Frame, Trying
<1>5. QED
  BY <1>1, <1>2, <1>3, <1>4 DEF SameLife, SameTry

\* discard: the file and its entry go, or the entry is an orphan's.
LEMMA DoesDiscard ==
  ASSUME Typed, Tries, NEW id \in Reports, discard(id)
  PROVE  /\ Typed' /\ Tries' /\ Frame(id, job[id].run) /\ IsOver(id)
         /\ job[id].pc = "Saved"
         /\ st'[job[id].run].stray = st[job[id].run].stray
         /\ promise'[id] = promise[id]
         /\ \/ /\ job'[id].own = Nothing
               /\ Moves(job[id].run, IF job[id].own = Nothing THEN 0 ELSE -job[id].bytes, 0, 0, 0)
               /\ files'[job[id].run] = files[job[id].run] \ {OwnName(id)}
            \/ /\ job'[id].own = Orphan /\ job'[id].bytes = job[id].bytes
               /\ Moves(job[id].run, 0, 0, 0, 0)
               /\ files'[job[id].run] = files[job[id].run]
<1> DEFINE r == job[id].run
           none == [job[id] EXCEPT !.own = Nothing, !.bytes = 0]
           orphan == [job[id] EXCEPT !.own = Orphan]
           ob == st[r].own_bytes - job[id].bytes
<1>1. r \in Runs /\ phase[r] = "Up" /\ job[id].pc = "Saved"
  BY DEF discard, Up, At
<1>2. /\ none \in Jobs /\ none.run = r /\ none.own = Nothing
      /\ orphan \in Jobs /\ orphan.run = r /\ orphan.own = Orphan /\ orphan.bytes = job[id].bytes
  <2>1. job[id] \in Jobs /\ Nothing \in Spans /\ Orphan \in Spans
    BY JobTypes, SpanTypes
  <2>2. QED
    BY <2>1 DEF Jobs
<1>3. /\ Over(none) \in Jobs /\ Over(none).run = r /\ Over(none).own = Nothing
      /\ Over(none).pc = "Gone" /\ Over(none).kind = "None" /\ Over(none).again = FALSE
      /\ Over(none).body = Nothing /\ Over(none).message = "Open" /\ Over(none).recovered = Forever
      /\ Over(orphan) \in Jobs /\ Over(orphan).run = r /\ Over(orphan).own = Orphan
      /\ Over(orphan).bytes = job[id].bytes
      /\ Over(orphan).pc = "Gone" /\ Over(orphan).kind = "None" /\ Over(orphan).again = FALSE
      /\ Over(orphan).body = Nothing /\ Over(orphan).message = "Open"
      /\ Over(orphan).recovered = Forever
  <2> HIDE DEF none, orphan
  <2>1. QED
    BY <1>2, OverType
<1>4. ob \in Int /\ st[r] \in Counters
  BY <1>1, JobTypes, RunTypes, StoreAssumption
<1>5. CASE /\ files' = [files EXCEPT ![r] = @ \ {OwnName(id)}]
           /\ Counts(r, dropped(st[r], id))
           /\ Becomes(id, Over(none))
  <2> DEFINE fs == files[r] \ {OwnName(id)}
             c == IF job[id].own = Nothing THEN st[r] ELSE [st[r] EXCEPT !.own_bytes = ob]
  <2>1. JobStep(id, r, Over(none), c, fs, promise[id])
    <3>1. UNCHANGED <<norename, lock, dir, inventory, holder, phase, taking, sweeping, now, promise>>
      BY DEF discard
    <3>2. c = dropped(st[r], id)
      BY DEF dropped
    <3> HIDE DEF none, c
    <3>3. QED
      BY <1>1, <1>5, <3>1, <3>2, Stays DEF JobStep, Counts, Becomes, Typed
  <2>2. fs \in SUBSET Names
    BY <1>1, RunTypes
  <2> HIDE DEF ob
  <2>3. c \in Counters
    BY <1>4 DEF Counters
  <2>4. /\ c.own_bytes = (IF job[id].own = Nothing THEN st[r].own_bytes ELSE ob)
        /\ c.adopted_bytes = st[r].adopted_bytes
        /\ c.reserved_bytes = st[r].reserved_bytes /\ c.reserved_slots = st[r].reserved_slots
        /\ c.in_flight = st[r].in_flight /\ c.unsaved = st[r].unsaved /\ c.stray = st[r].stray
    BY <1>4 DEF Counters
  <2> HIDE DEF none, orphan, c, fs
  <2>5. /\ Typed' /\ Frame(id, r) /\ job'[id] = Over(none) /\ st'[r] = c /\ files'[r] = fs
        /\ promise'[id] = promise[id]
    BY <1>1, <1>3, <2>1, <2>2, <2>3, JobSteps, JobTypes
  <2>6. Moves(r, IF job[id].own = Nothing THEN 0 ELSE -job[id].bytes, 0, 0, 0)
    BY <1>1, <2>4, <2>5, RunTypes, JobTypes, StoreAssumption DEF Moves, ob
  <2>7. Tries'
    BY <1>3, <2>5, TriesStep DEF Frame, Trying
  <2>8. QED
    BY <1>1, <1>3, <2>4, <2>5, <2>6, <2>7 DEF IsOver, fs
<1>6. CASE UNCHANGED <<files, st>> /\ Becomes(id, Over(orphan))
  <2>1. JobStep(id, r, Over(orphan), st[r], files[r], promise[id])
    <3>1. UNCHANGED <<norename, lock, dir, inventory, holder, phase, taking, sweeping, now, promise>>
      BY DEF discard
    <3> HIDE DEF orphan
    <3>2. QED
      BY <1>1, <1>6, <3>1, Stays DEF JobStep, Becomes
  <2> HIDE DEF none, orphan
  <2>2. /\ Typed' /\ Frame(id, r) /\ job'[id] = Over(orphan) /\ st'[r] = st[r]
        /\ files'[r] = files[r] /\ promise'[id] = promise[id]
    BY <1>1, <1>3, <2>1, JobSteps, JobTypes, RunTypes
  <2>3. Moves(r, 0, 0, 0, 0)
    BY <1>1, <2>2, RunTypes DEF Moves
  <2>4. Tries'
    BY <1>3, <2>2, TriesStep DEF Frame, Trying
  <2>5. QED
    BY <1>1, <1>3, <2>2, <2>3, <2>4 DEF IsOver
<1>7. QED
  BY <1>5, <1>6 DEF discard

\* acknowledged and recovered: entry and body take the new lifetime.
LEMMA DoesSettle ==
  ASSUME Typed, Tries, NEW id \in Reports, NEW life \in Spans, Dated(life), NEW fromPinned \in BOOLEAN,
         NEW message \in {"Aside", "Acked"}, Posted(id), Settles(id, life, message, fromPinned)
  PROVE  LET may(old) == IF fromPinned THEN old.state = "Pinned" ELSE Tracked(old) IN
         /\ Typed' /\ Tries' /\ Frame(id, job[id].run) /\ SameTry(id)
         /\ job'[id].pc = job[id].pc
         /\ job[id].pc \in {"Kept", "Held", "Resaved", "Reserved", "Temp", "Linked", "Failed"}
         /\ job'[id].own = (IF may(job[id].own) THEN life ELSE job[id].own)
         /\ job'[id].body = (IF may(job[id].body) THEN life ELSE job[id].body)
         /\ job'[id].bytes = job[id].bytes /\ job'[id].message = message
         /\ job'[id].recovered = (IF fromPinned THEN now ELSE job[id].recovered)
         /\ st'[job[id].run] = st[job[id].run] /\ files'[job[id].run] = files[job[id].run]
         /\ promise'[id] = IF may(job[id].own) THEN Ends(life) ELSE promise[id]
<1> DEFINE r == job[id].run
           may(old) == IF fromPinned THEN old.state = "Pinned" ELSE Tracked(old)
           own == IF may(job[id].own) THEN life ELSE job[id].own
           body == IF may(job[id].body) THEN life ELSE job[id].body
           rec == IF fromPinned THEN now ELSE job[id].recovered
           new == [job[id] EXCEPT !.own = own, !.body = body, !.message = message, !.recovered = rec]
           p == IF may(job[id].own) THEN Ends(life) ELSE promise[id]
<1>1. /\ r \in Runs /\ phase[r] = "Up"
      /\ job[id].pc \in {"Kept", "Held", "Resaved", "Reserved", "Temp", "Linked", "Failed"}
  BY DEF Posted, At, Up
<1>2. JobStep(id, r, new, st[r], files[r], p)
  BY <1>1, Stays DEF Settles, JobStep, Becomes, disk
<1>3. own \in Spans /\ body \in Spans /\ rec \in Times \cup {Forever}
      /\ p \in Deadlines \cup {Forever}
  BY JobTypes, EndsType, SpanCases DEF Typed
<1> HIDE DEF own, body, rec, p
<1>4. /\ new \in Jobs /\ new.run = r /\ new.pc = job[id].pc /\ new.kind = job[id].kind
      /\ new.again = job[id].again /\ new.try = job[id].try /\ new.own = own
      /\ new.bytes = job[id].bytes /\ new.body = body /\ new.message = message
      /\ new.recovered = rec
  <2>1. job[id] \in Jobs
    BY JobTypes
  <2>2. QED
    BY <1>3, <2>1 DEF Jobs
<1> HIDE DEF new
<1>5. /\ Typed' /\ Frame(id, r) /\ job'[id] = new /\ st'[r] = st[r] /\ files'[r] = files[r]
      /\ promise'[id] = p
  BY <1>1, <1>2, <1>3, <1>4, JobSteps, RunTypes
<1>6. Tries'
  BY <1>1, <1>4, <1>5, TriesStep DEF Frame, Tries
<1>7. QED
  BY <1>1, <1>4, <1>5, <1>6 DEF SameTry, own, body, rec, p

-----------------------------------------------------------------------------
(* What each step of a run does.                                            *)

SameBut(id) ==
  /\ \A o \in Reports : o # id => job'[o] = job[o]
  /\ job'[id].run = job[id].run /\ job'[id].pc = job[id].pc /\ SameTry(id)
  /\ job'[id].body = job[id].body /\ job'[id].message = job[id].message
  /\ job'[id].recovered = job[id].recovered

LEMMA DoesFlushInventory ==
  ASSUME Typed, NEW r \in Runs, flush_inventory(r)
  PROVE  /\ Typed' /\ phase[r] = "Up"
         /\ \A o \in Runs : o # r => inventory'[o] = inventory[o]
         /\ \A id \in Reports : inventory'[r][id] = IF job[id].run = r THEN job[id].own ELSE Nothing
         /\ UNCHANGED <<norename, lock, dir, files, holder, phase, st, taking, sweeping, job, now, promise>>
<1> DEFINE inv == [id \in Reports |-> IF id \in JobsOf(r) THEN job[id].own ELSE Nothing]
<1>1. /\ inventory' = [inventory EXCEPT ![r] = inv] /\ phase[r] = "Up"
      /\ UNCHANGED <<norename, lock, dir, files, holder, phase, st, taking, sweeping, job, now, promise>>
  BY DEF flush_inventory, Up
<1>2. \A id \in Reports : (IF id \in JobsOf(r) THEN job[id].own ELSE Nothing) \in Spans
  BY JobTypes, SpanTypes
<1>3. inv \in [Reports -> Spans]
  BY <1>2
<1>4. \A id \in Reports : inv[id] = IF job[id].run = r THEN job[id].own ELSE Nothing
  BY DEF JobsOf
<1> HIDE DEF inv
<1>5. inventory' \in [Runs -> [Reports -> Spans]] /\ inventory'[r] = inv
      /\ \A o \in Runs : o # r => inventory'[o] = inventory[o]
  BY <1>1, <1>3 DEF Typed
<1>6. Typed'
  BY <1>1, <1>5 DEF Typed
<1>7. QED
  BY <1>1, <1>4, <1>5, <1>6

LEMMA DoesSweepNominate ==
  ASSUME Typed, NEW r \in Runs, NEW id \in Reports, sweep_nominate(r, id)
  PROVE  /\ Typed' /\ phase[r] = "Up" /\ job[id].run = r /\ sweeping[r] = Idle
         /\ sweeping'[r] = [id |-> id, step |-> "Nominated"]
         /\ \A o \in Runs : o # r => sweeping'[o] = sweeping[o]
         /\ UNCHANGED <<norename, lock, dir, files, inventory, holder, phase, st, taking, job, now, promise>>
<1>1. /\ phase[r] = "Up" /\ job[id].run = r /\ sweeping[r] = Idle
      /\ sweeping' = [sweeping EXCEPT ![r] = [id |-> id, step |-> "Nominated"]]
      /\ UNCHANGED <<norename, lock, dir, files, inventory, holder, phase, st, taking, job, now, promise>>
  BY DEF sweep_nominate, Up, JobsOf, Steps, disk
<1>2. [id |-> id, step |-> "Nominated"] \in Sweeps
  BY DEF Sweeps
<1>3. /\ sweeping' \in [Runs -> Sweeps] /\ sweeping'[r] = [id |-> id, step |-> "Nominated"]
      /\ \A o \in Runs : o # r => sweeping'[o] = sweeping[o]
  BY <1>1, <1>2 DEF Typed
<1>4. Typed'
  BY <1>1, <1>3 DEF Typed
<1>5. QED
  BY <1>1, <1>3, <1>4

\* sweep_claim: a due entry becomes an orphan's, or the sweep passes it by.
LEMMA DoesSweepClaim ==
  ASSUME Typed, Tries, Pointers, NEW r \in Runs, sweep_claim(r)
  PROVE  /\ Typed' /\ Tries' /\ sweeping[r].step = "Nominated" /\ sweeping[r].id \in Reports
         /\ \A o \in Runs : o # r => sweeping'[o] = sweeping[o]
         /\ UNCHANGED <<norename, lock, dir, files, inventory, holder, phase, st, taking, now, promise>>
         /\ \/ /\ due(job[sweeping[r].id].own) /\ SameBut(sweeping[r].id)
               /\ sweeping'[r] = [id |-> sweeping[r].id, step |-> "Claimed"]
               /\ job'[sweeping[r].id].own = Orphan
               /\ job'[sweeping[r].id].bytes = job[sweeping[r].id].bytes
            \/ sweeping'[r] = Idle /\ job' = job
<1> DEFINE id == sweeping[r].id
           new == [job[id] EXCEPT !.own = Orphan]
           claimed == [id |-> id, step |-> "Claimed"]
<1>1. /\ sweeping[r].step = "Nominated" /\ id \in Reports
      /\ UNCHANGED <<norename, lock, dir, files, inventory, holder, phase, st, taking, now, promise>>
  BY DEF sweep_claim, Pointers, disk
<1>2. CASE due(job[id].own)
  <2>1. job' = [job EXCEPT ![id] = new] /\ sweeping' = [sweeping EXCEPT ![r] = claimed]
    BY <1>2 DEF sweep_claim, Becomes, Steps
  <2>2. claimed \in Sweeps
    BY <1>1 DEF Sweeps
  <2>3. /\ new \in Jobs /\ new.run = job[id].run /\ new.kind = job[id].kind /\ new.pc = job[id].pc
        /\ new.try = job[id].try /\ new.again = job[id].again /\ new.own = Orphan
        /\ new.bytes = job[id].bytes /\ new.body = job[id].body
        /\ new.message = job[id].message /\ new.recovered = job[id].recovered
    <3>1. job[id] \in Jobs /\ Orphan \in Spans
      BY <1>1, JobTypes, SpanTypes
    <3>2. QED
      BY <3>1 DEF Jobs
  <2> HIDE DEF new, claimed, id
  <2>4. /\ job' \in [Reports -> Jobs] /\ sweeping' \in [Runs -> Sweeps]
        /\ job'[id] = new /\ sweeping'[r] = claimed
        /\ \A o \in Reports : o # id => job'[o] = job[o]
        /\ \A o \in Runs : o # r => sweeping'[o] = sweeping[o]
    BY <1>1, <2>1, <2>2, <2>3 DEF Typed
  <2>5. Typed'
    BY <1>1, <2>4 DEF Typed
  <2>6. Tries'
    BY <1>1, <2>3, <2>4, TriesStep DEF Tries
  <2>7. SameBut(id)
    BY <2>3, <2>4 DEF SameBut, SameTry
  <2>8. QED
    BY <1>1, <1>2, <2>3, <2>4, <2>5, <2>6, <2>7 DEF id, claimed
<1>3. CASE ~due(job[id].own)
  <2>1. job' = job /\ sweeping' = [sweeping EXCEPT ![r] = Idle]
    BY <1>3 DEF sweep_claim
  <2>2. /\ sweeping' \in [Runs -> Sweeps] /\ sweeping'[r] = Idle
        /\ \A o \in Runs : o # r => sweeping'[o] = sweeping[o]
    BY <2>1, InitialTypes DEF Typed
  <2>3. Typed'
    BY <1>1, <2>1, <2>2 DEF Typed
  <2>4. Tries'
    BY <2>1 DEF Tries
  <2>5. QED
    BY <1>1, <2>1, <2>2, <2>3, <2>4
<1>4. QED
  BY <1>2, <1>3

LEMMA DoesSweepUnlink ==
  ASSUME Typed, Pointers, NEW r \in Runs, sweep_unlink(r)
  PROVE  /\ Typed' /\ sweeping[r].step = "Claimed" /\ sweeping[r].id \in Reports
         /\ \A o \in Runs : o # r => sweeping'[o] = sweeping[o] /\ files'[o] = files[o]
         /\ UNCHANGED <<norename, lock, dir, inventory, holder, phase, st, taking, job, now, promise>>
         /\ \/ /\ files'[r] = files[r] \ {OwnName(sweeping[r].id)}
               /\ sweeping'[r] = [id |-> sweeping[r].id, step |-> "Unlinked"]
            \/ files'[r] = files[r] /\ sweeping'[r] = Idle
<1> DEFINE id == sweeping[r].id
           unlinked == [id |-> id, step |-> "Unlinked"]
<1>1. /\ sweeping[r].step = "Claimed" /\ id \in Reports
      /\ UNCHANGED <<norename, lock, dir, inventory, holder, phase, st, taking, job, now, promise>>
  BY DEF sweep_unlink, Pointers
<1>2. CASE /\ files' = [files EXCEPT ![r] = @ \ {OwnName(id)}]
           /\ sweeping' = [sweeping EXCEPT ![r] = unlinked]
  <2>1. unlinked \in Sweeps
    BY <1>1 DEF Sweeps
  <2> HIDE DEF unlinked, id
  <2>2. /\ files' \in [Runs -> SUBSET Names] /\ sweeping' \in [Runs -> Sweeps]
        /\ files'[r] = files[r] \ {OwnName(id)} /\ sweeping'[r] = unlinked
        /\ \A o \in Runs : o # r => sweeping'[o] = sweeping[o] /\ files'[o] = files[o]
    BY <1>2, <2>1 DEF Typed
  <2>3. Typed'
    BY <1>1, <2>2 DEF Typed
  <2>4. QED
    BY <1>1, <2>2, <2>3 DEF unlinked, id
<1>3. CASE files' = files /\ sweeping' = [sweeping EXCEPT ![r] = Idle]
  <2>1. /\ sweeping' \in [Runs -> Sweeps] /\ sweeping'[r] = Idle
        /\ \A o \in Runs : o # r => sweeping'[o] = sweeping[o]
    BY <1>3, InitialTypes DEF Typed
  <2>2. Typed'
    BY <1>1, <1>3, <2>1 DEF Typed
  <2>3. QED
    BY <1>1, <1>3, <2>1, <2>2
<1>4. QED
  BY <1>2, <1>3 DEF sweep_unlink, Steps

\* sweep_drop: the unlinked entry goes, and its charge with it.
LEMMA DoesSweepDrop ==
  ASSUME Typed, Tries, Pointers, NEW r \in Runs, sweep_drop(r)
  PROVE  /\ Typed' /\ Tries' /\ sweeping[r].step = "Unlinked" /\ sweeping[r].id \in Reports
         /\ SameBut(sweeping[r].id) /\ job'[sweeping[r].id].own = Nothing
         /\ \A o \in Runs : o # r => sweeping'[o] = sweeping[o] /\ st'[o] = st[o]
         /\ sweeping'[r] = Idle
         /\ Moves(r, IF job[sweeping[r].id].own = Nothing THEN 0 ELSE -job[sweeping[r].id].bytes, 0, 0, 0)
         /\ st'[r].stray = st[r].stray
         /\ UNCHANGED <<norename, lock, dir, files, inventory, holder, phase, taking, now, promise>>
<1> DEFINE id == sweeping[r].id
           ob == st[r].own_bytes - job[id].bytes
           c == IF job[id].own = Nothing THEN st[r] ELSE [st[r] EXCEPT !.own_bytes = ob]
           new == [job[id] EXCEPT !.own = Nothing, !.bytes = 0]
<1>1. /\ sweeping[r].step = "Unlinked" /\ id \in Reports
      /\ UNCHANGED <<norename, lock, dir, files, inventory, holder, phase, taking, now, promise>>
      /\ st' = [st EXCEPT ![r] = c] /\ job' = [job EXCEPT ![id] = new]
      /\ sweeping' = [sweeping EXCEPT ![r] = Idle]
  BY DEF sweep_drop, Pointers, disk, dropped, Counts, Becomes
<1>2. ob \in Int /\ st[r] \in Counters
  BY <1>1, RunTypes, JobTypes, StoreAssumption
<1>3. /\ new \in Jobs /\ new.run = job[id].run /\ new.kind = job[id].kind /\ new.pc = job[id].pc
      /\ new.try = job[id].try /\ new.again = job[id].again /\ new.own = Nothing
      /\ new.body = job[id].body
      /\ new.message = job[id].message /\ new.recovered = job[id].recovered
  <2>1. job[id] \in Jobs /\ Nothing \in Spans
    BY <1>1, JobTypes, SpanTypes
  <2>2. QED
    BY <2>1 DEF Jobs
<1> HIDE DEF ob, new, id
<1>4. /\ c \in Counters
      /\ c.own_bytes = (IF job[id].own = Nothing THEN st[r].own_bytes ELSE ob)
      /\ c.adopted_bytes = st[r].adopted_bytes
      /\ c.reserved_bytes = st[r].reserved_bytes /\ c.reserved_slots = st[r].reserved_slots
      /\ c.in_flight = st[r].in_flight /\ c.unsaved = st[r].unsaved /\ c.stray = st[r].stray
  BY <1>2 DEF Counters
<1> HIDE DEF c
<1>5. /\ job' \in [Reports -> Jobs] /\ sweeping' \in [Runs -> Sweeps] /\ st' \in [Runs -> Counters]
      /\ job'[id] = new /\ sweeping'[r] = Idle /\ st'[r] = c
      /\ \A o \in Reports : o # id => job'[o] = job[o]
      /\ \A o \in Runs : o # r => sweeping'[o] = sweeping[o] /\ st'[o] = st[o]
  BY <1>1, <1>3, <1>4, InitialTypes DEF Typed
<1>6. Typed'
  BY <1>1, <1>5 DEF Typed
<1>7. Tries'
  BY <1>1, <1>3, <1>5, TriesStep DEF Tries
<1>8. Moves(r, IF job[id].own = Nothing THEN 0 ELSE -job[id].bytes, 0, 0, 0)
  BY <1>1, <1>4, <1>5, RunTypes, JobTypes, StoreAssumption DEF Moves, ob
<1>9. SameBut(id)
  BY <1>3, <1>5 DEF SameBut, SameTry
<1>10. QED
  BY <1>1, <1>3, <1>4, <1>5, <1>6, <1>7, <1>8, <1>9 DEF id

LEMMA DoesSweepStray ==
  ASSUME Typed, NEW r \in Runs, sweep_stray(r)
  PROVE  /\ Typed' /\ phase[r] = "Up"
         /\ \A o \in Runs : o # r => st'[o] = st[o] /\ files'[o] = files[o]
         /\ Moves(r, 0, 0, 0, 0)
         /\ \E s \in st[r].stray : files'[r] = files[r] \ {s.name} /\ st'[r].stray = st[r].stray \ {s}
         /\ UNCHANGED <<norename, lock, dir, inventory, holder, phase, taking, sweeping, job, now, promise>>
<1>1. /\ phase[r] = "Up"
      /\ UNCHANGED <<norename, lock, dir, inventory, holder, phase, taking, sweeping, job, now, promise>>
  BY DEF sweep_stray, Up
<1>2. PICK s \in st[r].stray : /\ files' = [files EXCEPT ![r] = @ \ {s.name}]
                               /\ st' = [st EXCEPT ![r] = [st[r] EXCEPT !.stray = @ \ {s}]]
  BY DEF sweep_stray, Counts
<1> DEFINE sy == st[r].stray \ {s}
           c == [st[r] EXCEPT !.stray = sy]
<1>3. sy \in Strays /\ st[r] \in Counters /\ st' = [st EXCEPT ![r] = c]
  BY <1>2, RunTypes DEF Strays
<1> HIDE DEF sy
<1>4. /\ c \in Counters /\ c.stray = sy
      /\ c.own_bytes = st[r].own_bytes /\ c.adopted_bytes = st[r].adopted_bytes
      /\ c.reserved_bytes = st[r].reserved_bytes /\ c.reserved_slots = st[r].reserved_slots
      /\ c.in_flight = st[r].in_flight /\ c.unsaved = st[r].unsaved
  BY <1>3 DEF Counters, Strays
<1> HIDE DEF c
<1>5. /\ files' \in [Runs -> SUBSET Names] /\ st' \in [Runs -> Counters]
      /\ st'[r] = c /\ files'[r] = files[r] \ {s.name}
      /\ \A o \in Runs : o # r => st'[o] = st[o] /\ files'[o] = files[o]
  BY <1>2, <1>3, <1>4 DEF Typed
<1>6. Typed'
  BY <1>1, <1>5 DEF Typed
<1>7. Moves(r, 0, 0, 0, 0)
  BY <1>4, <1>5, RunTypes DEF Moves
<1>8. QED
  BY <1>1, <1>4, <1>5, <1>6, <1>7 DEF sy

\* adopted_bytes apart, a step leaves the counters of r alone.
Adopts(r, bytes) ==
  /\ st'[r].adopted_bytes = st[r].adopted_bytes + bytes
  /\ st'[r].own_bytes = st[r].own_bytes
  /\ st'[r].reserved_bytes = st[r].reserved_bytes /\ st'[r].reserved_slots = st[r].reserved_slots
  /\ st'[r].in_flight = st[r].in_flight /\ st'[r].unsaved = st[r].unsaved
  /\ st'[r].stray = st[r].stray

LEMMA AdoptsType ==
  ASSUME Typed, NEW r \in Runs, NEW bytes \in Int,
         st' = [st EXCEPT ![r] = [st[r] EXCEPT !.adopted_bytes = @ + bytes]]
  PROVE  /\ st' \in [Runs -> Counters] /\ Adopts(r, bytes)
         /\ \A o \in Runs : o # r => st'[o] = st[o]
<1> DEFINE ab == st[r].adopted_bytes + bytes
           c == [st[r] EXCEPT !.adopted_bytes = ab]
<1>1. ab \in Int /\ st[r] \in Counters /\ st' = [st EXCEPT ![r] = c]
  BY RunTypes
<1> HIDE DEF ab
<1>2. /\ c \in Counters /\ c.stray = st[r].stray
      /\ c.own_bytes = st[r].own_bytes /\ c.adopted_bytes = ab
      /\ c.reserved_bytes = st[r].reserved_bytes /\ c.reserved_slots = st[r].reserved_slots
      /\ c.in_flight = st[r].in_flight /\ c.unsaved = st[r].unsaved
  BY <1>1 DEF Counters
<1> HIDE DEF c
<1>3. /\ st' \in [Runs -> Counters] /\ st'[r] = c
      /\ \A o \in Runs : o # r => st'[o] = st[o]
  BY <1>1, <1>2 DEF Typed
<1>4. QED
  BY <1>2, <1>3 DEF Adopts, ab

LEMMA DoesSweepAdopted ==
  ASSUME Typed, NEW r \in Runs, sweep_adopted(r)
  PROVE  /\ Typed' /\ phase[r] = "Up"
         /\ \A o \in Runs : o # r => st'[o] = st[o] /\ files'[o] = files[o]
         /\ Adopts(r, -Size)
         /\ \E name \in files[r] : /\ name.kind = "adopted" /\ name.n <= now
                                   /\ files'[r] = files[r] \ {name}
         /\ UNCHANGED <<norename, lock, dir, inventory, holder, phase, taking, sweeping, job, now, promise>>
<1>1. /\ phase[r] = "Up"
      /\ UNCHANGED <<norename, lock, dir, inventory, holder, phase, taking, sweeping, job, now, promise>>
  BY DEF sweep_adopted, Up
<1>2. PICK name \in files[r] : /\ name.kind = "adopted" /\ name.n <= now
                               /\ files' = [files EXCEPT ![r] = @ \ {name}]
                               /\ st' = [st EXCEPT ![r] = [st[r] EXCEPT !.adopted_bytes = @ - Size]]
  BY DEF sweep_adopted, Counts
<1>3. st' = [st EXCEPT ![r] = [st[r] EXCEPT !.adopted_bytes = @ + (-Size)]]
  <2>1. st[r].adopted_bytes - Size = st[r].adopted_bytes + (-Size)
    BY RunTypes, StoreAssumption
  <2>2. QED
    BY <1>2, <2>1
<1>4. -Size \in Int
  BY StoreAssumption
<1>5. /\ st' \in [Runs -> Counters] /\ Adopts(r, -Size)
      /\ \A o \in Runs : o # r => st'[o] = st[o]
  BY <1>3, <1>4, AdoptsType
<1>6. /\ files' \in [Runs -> SUBSET Names] /\ files'[r] = files[r] \ {name}
      /\ \A o \in Runs : o # r => files'[o] = files[o]
  BY <1>2 DEF Typed
<1>7. Typed'
  BY <1>1, <1>5, <1>6 DEF Typed
<1>8. QED
  BY <1>1, <1>2, <1>5, <1>6, <1>7

LEMMA DoesOpenLock ==
  ASSUME Typed, NEW r \in Runs, open_lock(r)
  PROVE  /\ Typed' /\ phase[r] = "Off" /\ phase'[r] = "Locked" /\ holder'[r] = r
         /\ lock' = lock \cup {r} /\ taking'[r].at = now
         /\ taking'[r].of = taking[r].of /\ taking'[r].todo = taking[r].todo
         /\ taking'[r].step = taking[r].step
         /\ \A o \in Runs : o # r => /\ phase'[o] = phase[o] /\ holder'[o] = holder[o]
                                     /\ taking'[o] = taking[o]
         /\ UNCHANGED <<norename, dir, files, inventory, st, sweeping, job, now, promise>>
<1> DEFINE t == [taking[r] EXCEPT !.at = now]
<1>1. /\ phase[r] = "Off" /\ phase' = [phase EXCEPT ![r] = "Locked"] /\ holder' = [holder EXCEPT ![r] = r]
      /\ lock' = lock \cup {r} /\ taking' = [taking EXCEPT ![r] = t]
      /\ UNCHANGED <<norename, dir, files, inventory, st, sweeping, job, now, promise>>
  BY DEF open_lock
<1>2. /\ t \in Takings /\ t.at = now /\ t.of = taking[r].of /\ t.todo = taking[r].todo
      /\ t.step = taking[r].step
  <2>1. taking[r] \in Takings /\ now \in Times
    BY DEF Typed
  <2>2. QED
    BY <2>1 DEF Takings
<1> HIDE DEF t
<1>3. /\ phase' \in [Runs -> {"Off", "Locked", "Opening", "Up", "Ended"}]
      /\ phase'[r] = "Locked" /\ holder' \in [Runs -> Runs \cup {NoRun}] /\ holder'[r] = r
      /\ taking' \in [Runs -> Takings] /\ taking'[r] = t
      /\ \A o \in Runs : o # r => /\ phase'[o] = phase[o] /\ holder'[o] = holder[o]
                                  /\ taking'[o] = taking[o]
  BY <1>1, <1>2 DEF Typed
<1>4. Typed'
  BY <1>1, <1>3 DEF Typed
<1>5. QED
  BY <1>1, <1>2, <1>3, <1>4

LEMMA DoesOpenDir ==
  ASSUME Typed, NEW r \in Runs, open_dir(r)
  PROVE  /\ Typed' /\ phase[r] = "Locked" /\ phase'[r] = "Opening"
         /\ \A o \in Runs : o # r => phase'[o] = phase[o]
         /\ UNCHANGED <<norename, lock, files, inventory, holder, st, taking, sweeping, job, now, promise>>
<1>1. /\ phase[r] = "Locked" /\ phase' = [phase EXCEPT ![r] = "Opening"] /\ dir' = dir \cup {r}
      /\ UNCHANGED <<norename, lock, files, inventory, holder, st, taking, sweeping, job, now, promise>>
  BY DEF open_dir
<1>2. /\ phase' \in [Runs -> {"Off", "Locked", "Opening", "Up", "Ended"}]
      /\ phase'[r] = "Opening" /\ \A o \in Runs : o # r => phase'[o] = phase[o]
      /\ dir' \in SUBSET Runs
  BY <1>1 DEF Typed
<1>3. Typed'
  BY <1>1, <1>2 DEF Typed
<1>4. QED
  BY <1>1, <1>2, <1>3

\* opened: the store is handed to the daemon.
LEMMA DoesOpened ==
  ASSUME Typed, NEW r \in Runs, opened(r)
  PROVE  /\ Typed' /\ phase[r] = "Opening" /\ taking[r].step = "None" /\ phase'[r] = "Up"
         /\ taking'[r] = NoTaking
         /\ \A o \in Runs : o # r => phase'[o] = phase[o] /\ taking'[o] = taking[o]
         /\ UNCHANGED <<norename, lock, dir, files, inventory, holder, st, sweeping, job, now, promise>>
<1>1. /\ phase[r] = "Opening" /\ taking[r].step = "None" /\ phase' = [phase EXCEPT ![r] = "Up"]
      /\ taking' = [taking EXCEPT ![r] = NoTaking]
      /\ UNCHANGED <<norename, lock, dir, files, inventory, holder, st, sweeping, job, now, promise>>
  BY DEF opened, disk
<1>2. /\ phase' \in [Runs -> {"Off", "Locked", "Opening", "Up", "Ended"}]
      /\ phase'[r] = "Up" /\ taking' \in [Runs -> Takings] /\ taking'[r] = NoTaking
      /\ \A o \in Runs : o # r => phase'[o] = phase[o] /\ taking'[o] = taking[o]
  BY <1>1, InitialTypes DEF Typed
<1>3. Typed'
  BY <1>1, <1>2 DEF Typed
<1>4. QED
  BY <1>1, <1>2, <1>3

\* A takeover's clock reading and place are as they were.
SameTaking(r) ==
  taking'[r].at = taking[r].at /\ taking'[r].of = taking[r].of /\ taking'[r].step = taking[r].step

\* The takeover is over, or none is under way.
Untaken(r) ==
  /\ taking'[r].step = "None" /\ taking'[r].at = taking[r].at
  /\ taking'[r].of = NoRun /\ taking'[r].todo = {}

\* take_over: a live run is passed by, a dead one's lock is taken.
LEMMA DoesTakeOver ==
  ASSUME Typed, NEW r \in Runs, NEW v \in Runs, take_over(r, v)
  PROVE  /\ Typed' /\ phase[r] = "Opening" /\ taking[r].step = "None" /\ v \in lock /\ v # r
         /\ \A o \in Runs : o # r => taking'[o] = taking[o]
         /\ \A o \in Runs : o # v => holder'[o] = holder[o]
         /\ UNCHANGED <<norename, lock, dir, files, inventory, phase, st, sweeping, job, now, promise>>
         /\ \/ SameTaking(r) /\ taking'[r].todo = taking[r].todo /\ holder' = holder
            \/ /\ holder[v] = NoRun /\ holder'[v] = r /\ taking'[r].at = taking[r].at
               /\ taking'[r].of = v /\ taking'[r].todo = files[v] /\ taking'[r].step = "Files"
<1>1. /\ phase[r] = "Opening" /\ taking[r].step = "None" /\ v \in lock /\ v # r
      /\ UNCHANGED <<norename, lock, dir, files, inventory, phase, st, sweeping, job, now, promise>>
  BY DEF take_over, disk
<1>2. taking[r] \in Takings /\ files[v] \in SUBSET Names
  BY RunTypes
<1>3. CASE Lives(v)
  <2> DEFINE tr == taking[r].tried \cup {v}
             t == [taking[r] EXCEPT !.tried = tr]
  <2>1. taking' = [taking EXCEPT ![r] = t] /\ holder' = holder
    BY <1>3 DEF take_over
  <2>2. tr \in SUBSET Runs
    BY RunTypes
  <2> HIDE DEF tr
  <2>3. /\ t \in Takings /\ t.at = taking[r].at /\ t.of = taking[r].of /\ t.todo = taking[r].todo
        /\ t.step = taking[r].step
    BY <1>2, <2>2 DEF Takings
  <2> HIDE DEF t
  <2>4. /\ taking' \in [Runs -> Takings] /\ taking'[r] = t
        /\ \A o \in Runs : o # r => taking'[o] = taking[o]
    BY <2>1, <2>3 DEF Typed
  <2>5. Typed'
    BY <1>1, <2>1, <2>4 DEF Typed
  <2>6. QED
    BY <1>1, <2>1, <2>3, <2>4, <2>5 DEF SameTaking
<1>4. CASE ~Lives(v)
  <2>1. PICK readable \in BOOLEAN :
          taking' = [taking EXCEPT ![r] =
                       [taking[r] EXCEPT !.of = v, !.tried = @ \cup {v}, !.todo = files[v],
                                         !.listed = readable, !.step = "Files"]]
    BY <1>4 DEF take_over
  <2> DEFINE tr == taking[r].tried \cup {v}
             t == [taking[r] EXCEPT !.of = v, !.tried = tr, !.todo = files[v],
                                    !.listed = readable, !.step = "Files"]
  <2>2. taking' = [taking EXCEPT ![r] = t] /\ holder' = [holder EXCEPT ![v] = r] /\ holder[v] = NoRun
    <3>1. taking' = [taking EXCEPT ![r] = t]
      BY <1>2, <2>1 DEF Takings
    <3>2. holder' = [holder EXCEPT ![v] = r] /\ holder[v] = NoRun
      BY <1>4 DEF take_over, Lives
    <3> HIDE DEF t
    <3>3. QED
      BY <3>1, <3>2
  <2>3. tr \in SUBSET Runs
    BY RunTypes
  <2> HIDE DEF tr
  <2>4. /\ t \in Takings /\ t.at = taking[r].at /\ t.of = v /\ t.todo = files[v] /\ t.step = "Files"
    BY <1>2, <2>3 DEF Takings
  <2> HIDE DEF t
  <2>5. /\ taking' \in [Runs -> Takings] /\ taking'[r] = t
        /\ \A o \in Runs : o # r => taking'[o] = taking[o]
        /\ holder' \in [Runs -> Runs \cup {NoRun}] /\ holder'[v] = r
        /\ \A o \in Runs : o # v => holder'[o] = holder[o]
    BY <2>2, <2>4 DEF Typed
  <2>6. Typed'
    BY <1>1, <2>5 DEF Typed
  <2>7. QED
    BY <1>1, <2>2, <2>4, <2>5, <2>6
<1>5. QED
  BY <1>3, <1>4

LEMMA DeadlineType ==
  ASSUME Typed, NEW r \in Runs, taking[r].of \in Runs, NEW name \in Names
  PROVE  Deadline(r, name) \in Deadlines
<1> DEFINE life == inventory[taking[r].of][name.id]
<1>1. life \in Spans /\ taking[r].at \in Times
  BY RunTypes, NameTypes DEF Typed
<1>2. CASE name.kind = "adopted"
  BY <1>2, NameTypes DEF Deadline
<1>3. CASE name.kind # "adopted"
  <2>1. Deadline(r, name) = takeover_deadline(taking[r].at, life)
    BY <1>3 DEF Deadline
  <2> HIDE DEF life
  <2>2. QED
    BY <1>1, <2>1, TimeTypes, SpanCases DEF takeover_deadline, Retention, Dated
<1>4. QED
  BY <1>2, <1>3

\* transfer_file: a name is removed where it is, moved over, or left.
LEMMA DoesTransferFile ==
  ASSUME Typed, Pointers, NEW r \in Runs, taking[r].of # r, NEW name \in taking[r].todo,
         transfer_file(r, name)
  PROVE  /\ Typed' /\ taking[r].step = "Files" /\ taking[r].of \in Runs /\ name \in Names
         /\ SameTaking(r) /\ taking'[r].todo \subseteq taking[r].todo
         /\ \A o \in Runs : o # r => taking'[o] = taking[o]
         /\ UNCHANGED <<norename, lock, dir, inventory, holder, phase, sweeping, job, now, promise>>
         /\ \A o \in Runs \ {r, taking[r].of} : files'[o] = files[o]
         /\ \A o \in Runs : o # r => st'[o] = st[o]
         /\ \/ /\ ~IsReport(name) \/ Deadline(r, name) <= taking[r].at
               /\ files'[taking[r].of] = files[taking[r].of] \ {name} /\ files'[r] = files[r]
               /\ taking'[r].todo = taking[r].todo \ {name} /\ st' = st
            \/ /\ IsReport(name) /\ AdoptedName(name.id, Deadline(r, name)) \notin files[r]
               /\ files'[taking[r].of] = files[taking[r].of] \ {name}
               /\ files'[r] = files[r] \cup {AdoptedName(name.id, Deadline(r, name))}
               /\ taking'[r].todo = taking[r].todo \ {name} /\ Adopts(r, Size)
            \/ files' = files /\ st' = st
<1> DEFINE v == taking[r].of
           target == AdoptedName(name.id, Deadline(r, name))
           less == taking[r].todo \ {name}
<1>1. /\ taking[r].step = "Files" /\ v \in Runs /\ name \in Names /\ taking[r] \in Takings
      /\ UNCHANGED <<norename, lock, dir, inventory, holder, phase, sweeping, job, now, promise>>
  BY RunTypes DEF transfer_file, Pointers
<1>2. target.n = Deadline(r, name)
  BY DEF AdoptedName
<1>3. target \in Names
  BY <1>1, DeadlineType, NameTypes
<1>4. ASSUME taking' = [taking EXCEPT ![r].todo = @ \ {name}]
      PROVE  /\ taking' \in [Runs -> Takings] /\ SameTaking(r) /\ taking'[r].todo = less
             /\ \A o \in Runs : o # r => taking'[o] = taking[o]
  <2> DEFINE t == [taking[r] EXCEPT !.todo = less]
  <2>1. taking' = [taking EXCEPT ![r] = t] /\ less \in SUBSET Names
    BY <1>4, RunTypes
  <2> HIDE DEF less
  <2>2. /\ t \in Takings /\ t.at = taking[r].at /\ t.of = v /\ t.todo = less
        /\ t.step = taking[r].step
    BY <1>1, <2>1 DEF Takings
  <2> HIDE DEF t
  <2>3. QED
    BY <2>1, <2>2 DEF Typed, SameTaking
<1>5. ASSUME NEW names, Left(r, names)
      PROVE  /\ taking' \in [Runs -> Takings] /\ SameTaking(r)
             /\ taking'[r].todo \subseteq taking[r].todo
             /\ \A o \in Runs : o # r => taking'[o] = taking[o]
             /\ files' = files /\ st' = st
  <2> DEFINE rest == taking[r].todo \ names
             t == [taking[r] EXCEPT !.todo = rest, !.left = TRUE]
  <2>1. taking' = [taking EXCEPT ![r] = t] /\ rest \in SUBSET Names /\ rest \subseteq taking[r].todo
        /\ files' = files /\ st' = st
    BY <1>5, RunTypes DEF Left, Typed
  <2> HIDE DEF rest
  <2>2. /\ t \in Takings /\ t.at = taking[r].at /\ t.of = v /\ t.todo = rest
        /\ t.step = taking[r].step
    BY <1>1, <2>1 DEF Takings
  <2> HIDE DEF t
  <2>3. QED
    BY <2>1, <2>2 DEF Typed, SameTaking
<1> HIDE DEF target, less
<1>6. CASE Removed(r, name) /\ (~IsReport(name) \/ Deadline(r, name) <= taking[r].at)
  <2>1. /\ files' = [files EXCEPT ![v] = @ \ {name}] /\ st' = st
        /\ taking' = [taking EXCEPT ![r].todo = @ \ {name}]
    BY <1>6 DEF Removed
  <2>2. /\ files' \in [Runs -> SUBSET Names] /\ files'[v] = files[v] \ {name}
        /\ \A o \in Runs : o # v => files'[o] = files[o]
    BY <1>1, <2>1 DEF Typed
  <2>3. Typed'
    BY <1>1, <1>4, <2>1, <2>2 DEF Typed
  <2>4. QED
    BY <1>1, <1>4, <1>6, <2>1, <2>2, <2>3 DEF less
<1>7. CASE IsReport(name) /\ target \notin files[r] /\ move_in(r, name, target)
  <2>1. /\ files' = [files EXCEPT ![v] = @ \ {name}, ![r] = @ \cup {target}]
        /\ st' = [st EXCEPT ![r] = [st[r] EXCEPT !.adopted_bytes = @ + Size]]
        /\ taking' = [taking EXCEPT ![r].todo = @ \ {name}]
    BY <1>7 DEF move_in, Counts
  <2>2. /\ files' \in [Runs -> SUBSET Names] /\ files'[v] = files[v] \ {name}
        /\ files'[r] = files[r] \cup {target}
        /\ \A o \in Runs \ {r, v} : files'[o] = files[o]
    BY <1>1, <1>3, <2>1 DEF Typed
  <2>3. /\ st' \in [Runs -> Counters] /\ Adopts(r, Size) /\ \A o \in Runs : o # r => st'[o] = st[o]
    <3>1. Size \in Int
      BY StoreAssumption
    <3>2. QED
      BY <2>1, <3>1, AdoptsType
  <2>4. Typed'
    BY <1>1, <1>4, <2>1, <2>2, <2>3 DEF Typed
  <2>5. QED
    BY <1>1, <1>4, <1>7, <2>1, <2>2, <2>3, <2>4 DEF less, target
<1>8. CASE \E names : Left(r, names)
  <2>1. PICK names : Left(r, names)
    BY <1>8
  <2>2. /\ taking' \in [Runs -> Takings] /\ SameTaking(r)
        /\ taking'[r].todo \subseteq taking[r].todo
        /\ \A o \in Runs : o # r => taking'[o] = taking[o]
        /\ files' = files /\ st' = st
    BY <1>5, <2>1
  <2>3. Typed'
    BY <1>1, <2>2 DEF Typed
  <2>4. QED
    BY <1>1, <2>2, <2>3
<1>9. QED
  BY <1>2, <1>6, <1>7, <1>8 DEF transfer_file, target

LEMMA DoesReleased ==
  ASSUME Typed, Pointers, NEW r \in Runs, taking[r].step # "None", Released(r)
  PROVE  /\ taking' \in [Runs -> Takings] /\ holder' \in [Runs -> Runs \cup {NoRun}]
         /\ Untaken(r) /\ holder'[taking[r].of] = NoRun
         /\ \A o \in Runs : o # r => taking'[o] = taking[o]
         /\ \A o \in Runs : o # taking[r].of => holder'[o] = holder[o]
<1> DEFINE v == taking[r].of
           t == [NoTaking EXCEPT !.tried = taking[r].tried, !.at = taking[r].at]
<1>1. v \in Runs /\ taking' = [taking EXCEPT ![r] = t] /\ holder' = [holder EXCEPT ![v] = NoRun]
  BY DEF Released, Pointers
<1>2. t \in Takings /\ t.step = "None" /\ t.at = taking[r].at /\ t.of = NoRun /\ t.todo = {}
  BY RunTypes DEF NoTaking, Takings
<1> HIDE DEF t
<1>3. /\ taking' \in [Runs -> Takings] /\ taking'[r] = t
      /\ \A o \in Runs : o # r => taking'[o] = taking[o]
      /\ holder' \in [Runs -> Runs \cup {NoRun}] /\ holder'[v] = NoRun
      /\ \A o \in Runs : o # v => holder'[o] = holder[o]
  BY <1>1, <1>2 DEF Typed
<1>4. QED
  BY <1>2, <1>3 DEF Untaken

\* A step of a takeover within its own lock.
LEMMA DoesStep ==
  ASSUME Typed, NEW r \in Runs, NEW step \in {"Inventory", "Dir", "Lock"},
         taking' = [taking EXCEPT ![r].step = step]
  PROVE  /\ taking' \in [Runs -> Takings]
         /\ taking'[r].step = step /\ taking'[r].at = taking[r].at /\ taking'[r].of = taking[r].of
         /\ taking'[r].todo = taking[r].todo
         /\ \A o \in Runs : o # r => taking'[o] = taking[o]
<1> DEFINE t == [taking[r] EXCEPT !.step = step]
<1>1. taking' = [taking EXCEPT ![r] = t] /\ taking[r] \in Takings
  BY RunTypes
<1>2. t \in Takings /\ t.step = step /\ t.at = taking[r].at /\ t.of = taking[r].of
      /\ t.todo = taking[r].todo
  BY <1>1 DEF Takings
<1> HIDE DEF t
<1>3. taking \in [Runs -> Takings]
  BY DEF Typed
<1>4. QED
  BY <1>1, <1>2, <1>3

\* A retirement goes on, or ends and frees the lock.
Advances(r, step) ==
  /\ taking'[r].step = step /\ taking'[r].at = taking[r].at /\ taking'[r].of = taking[r].of
  /\ taking'[r].todo = taking[r].todo
  /\ \A o \in Runs : o # r => taking'[o] = taking[o]
  /\ holder' = holder

Frees(r) ==
  /\ Untaken(r) /\ holder'[taking[r].of] = NoRun
  /\ \A o \in Runs : o # r => taking'[o] = taking[o]
  /\ \A o \in Runs : o # taking[r].of => holder'[o] = holder[o]

LEMMA DoesRetireBegin ==
  ASSUME Typed, Pointers, NEW r \in Runs, retire_begin(r)
  PROVE  /\ Typed' /\ taking[r].step = "Files" /\ taking[r].todo = {}
         /\ UNCHANGED <<norename, lock, dir, files, inventory, phase, st, sweeping, job, now, promise>>
         /\ \/ Advances(r, "Inventory") /\ files[taking[r].of] = {}
            \/ Frees(r)
<1>1. /\ taking[r].step = "Files" /\ taking[r].todo = {}
      /\ UNCHANGED <<norename, lock, dir, files, inventory, phase, st, sweeping, job, now, promise>>
  BY DEF retire_begin, disk
<1>2. CASE /\ files[taking[r].of] = {} /\ taking' = [taking EXCEPT ![r].step = "Inventory"]
           /\ holder' = holder
  <2>1. taking' \in [Runs -> Takings] /\ Advances(r, "Inventory")
    BY <1>2, DoesStep DEF Advances
  <2>2. Typed'
    BY <1>1, <1>2, <2>1 DEF Typed
  <2>3. QED
    BY <1>1, <1>2, <2>1, <2>2
<1>3. CASE Released(r)
  <2>1. /\ taking' \in [Runs -> Takings] /\ holder' \in [Runs -> Runs \cup {NoRun}] /\ Frees(r)
    BY <1>1, <1>3, DoesReleased DEF Frees
  <2>2. Typed'
    BY <1>1, <2>1 DEF Typed
  <2>3. QED
    BY <1>1, <2>1, <2>2
<1>4. QED
  BY <1>2, <1>3 DEF retire_begin

LEMMA DoesRetireInventory ==
  ASSUME Typed, Pointers, NEW r \in Runs, retire_inventory(r)
  PROVE  /\ Typed' /\ taking[r].step = "Inventory"
         /\ UNCHANGED <<norename, lock, dir, files, phase, st, sweeping, job, now, promise>>
         /\ \/ /\ Advances(r, "Dir") /\ inventory'[taking[r].of] = NoInventory
               /\ \A o \in Runs : o # taking[r].of => inventory'[o] = inventory[o]
            \/ Frees(r) /\ inventory' = inventory
<1>1. /\ taking[r].step = "Inventory" /\ taking[r].of \in Runs
      /\ UNCHANGED <<norename, lock, dir, files, phase, st, sweeping, job, now, promise>>
  BY DEF retire_inventory, Pointers
<1>2. CASE /\ inventory' = [inventory EXCEPT ![taking[r].of] = NoInventory]
           /\ taking' = [taking EXCEPT ![r].step = "Dir"] /\ holder' = holder
  <2>1. taking' \in [Runs -> Takings] /\ Advances(r, "Dir")
    BY <1>2, DoesStep DEF Advances
  <2>2. /\ inventory' \in [Runs -> [Reports -> Spans]] /\ inventory'[taking[r].of] = NoInventory
        /\ \A o \in Runs : o # taking[r].of => inventory'[o] = inventory[o]
    BY <1>1, <1>2, InitialTypes DEF Typed
  <2>3. Typed'
    BY <1>1, <1>2, <2>1, <2>2 DEF Typed
  <2>4. QED
    BY <1>1, <2>1, <2>2, <2>3
<1>3. CASE Released(r) /\ inventory' = inventory
  <2>1. /\ taking' \in [Runs -> Takings] /\ holder' \in [Runs -> Runs \cup {NoRun}] /\ Frees(r)
    BY <1>1, <1>3, DoesReleased DEF Frees
  <2>2. Typed'
    BY <1>1, <1>3, <2>1 DEF Typed
  <2>3. QED
    BY <1>1, <1>3, <2>1, <2>2
<1>4. QED
  BY <1>2, <1>3 DEF retire_inventory

LEMMA DoesRetireDir ==
  ASSUME Typed, Pointers, NEW r \in Runs, retire_dir(r)
  PROVE  /\ Typed' /\ taking[r].step = "Dir" /\ (Advances(r, "Lock") \/ Frees(r))
         /\ UNCHANGED <<norename, lock, files, inventory, phase, st, sweeping, job, now, promise>>
<1>1. /\ taking[r].step = "Dir"
      /\ UNCHANGED <<norename, lock, files, inventory, phase, st, sweeping, job, now, promise>>
  BY DEF retire_dir
<1>2. CASE /\ dir' = dir \ {taking[r].of} /\ taking' = [taking EXCEPT ![r].step = "Lock"]
           /\ holder' = holder
  <2>1. taking' \in [Runs -> Takings] /\ Advances(r, "Lock")
    BY <1>2, DoesStep DEF Advances
  <2>2. Typed'
    BY <1>1, <1>2, <2>1 DEF Typed
  <2>3. QED
    BY <1>1, <2>1, <2>2
<1>3. CASE Released(r) /\ dir' = dir
  <2>1. /\ taking' \in [Runs -> Takings] /\ holder' \in [Runs -> Runs \cup {NoRun}] /\ Frees(r)
    BY <1>1, <1>3, DoesReleased DEF Frees
  <2>2. Typed'
    BY <1>1, <1>3, <2>1 DEF Typed
  <2>3. QED
    BY <1>1, <2>1, <2>2
<1>4. QED
  BY <1>2, <1>3 DEF retire_dir

LEMMA DoesRetireLock ==
  ASSUME Typed, Pointers, NEW r \in Runs, retire_lock(r)
  PROVE  /\ Typed' /\ taking[r].step = "Lock" /\ Frees(r)
         /\ lock' = lock \ {taking[r].of} \/ lock' = lock
         /\ UNCHANGED <<norename, dir, files, inventory, phase, st, sweeping, job, now, promise>>
<1>1. /\ taking[r].step = "Lock" /\ Released(r)
      /\ lock' = lock \ {taking[r].of} \/ lock' = lock
      /\ UNCHANGED <<norename, dir, files, inventory, phase, st, sweeping, job, now, promise>>
  BY DEF retire_lock
<1>2. /\ taking' \in [Runs -> Takings] /\ holder' \in [Runs -> Runs \cup {NoRun}] /\ Frees(r)
  BY <1>1, DoesReleased DEF Frees
<1>3. lock' \in SUBSET Runs
  BY <1>1 DEF Typed
<1>4. Typed'
  BY <1>1, <1>2, <1>3 DEF Typed
<1>5. QED
  BY <1>1, <1>2, <1>4

\* AfterDeath is no more than each of its bounds, and a time.
LEMMA AfterDeathBounds ==
  ASSUME Typed, NEW id \in Reports
  PROVE  /\ AfterDeath(id) \in Deadlines \cup {Forever}
         /\ AfterDeath(id) <= promise[id]
         /\ AfterDeath(id) <= now + RecoveryRetention
         /\ \A r \in Runs : phase[r] \in {"Locked", "Opening"} =>
              AfterDeath(id) <= taking[r].at + RecoveryRetention
         /\ job[id].recovered # Forever => AfterDeath(id) <= job[id].recovered + RecoveryRetention
<1> DEFINE E == {now} \cup {taking[r].at : r \in {v \in Runs : phase[v] \in {"Locked", "Opening"}}}
           e == Earliest
           S == {promise[id], e + RecoveryRetention}
                  \cup {t + RecoveryRetention : t \in {job[id].recovered} \ {Forever}}
<1>1. E \subseteq Times /\ E # {} /\ now \in E
  BY RunTypes DEF Typed
<1>2. E \subseteq Nat
  BY <1>1, TimeTypes
<1>3. e \in E /\ \A y \in E : e <= y
  <2>1. e = Min(E)
    BY DEF Earliest
  <2> HIDE DEF E, e
  <2>2. QED
    BY <1>1, <1>2, <2>1, MinExists
<1>4. e \in Times /\ e <= now
      /\ \A r \in Runs : phase[r] \in {"Locked", "Opening"} => e <= taking[r].at
  BY <1>1, <1>3
<1> HIDE DEF E, e
<1>5. S \subseteq Deadlines \cup {Forever} /\ S # {}
  BY <1>4, JobTypes, TimeTypes
<1>6. S \subseteq Nat
  BY <1>5, TimeTypes
<1>7. AfterDeath(id) \in S /\ \A y \in S : AfterDeath(id) <= y
  <2>1. AfterDeath(id) = Min(S)
    BY DEF AfterDeath, e
  <2> HIDE DEF S
  <2>2. QED
    BY <1>5, <1>6, <2>1, MinExists
<1>8. /\ promise[id] \in S /\ e + RecoveryRetention \in S
      /\ job[id].recovered # Forever => job[id].recovered + RecoveryRetention \in S
  OBVIOUS
<1> HIDE DEF S
<1>9. AfterDeath(id) \in Nat /\ AfterDeath(id) <= e + RecoveryRetention
  BY <1>6, <1>7, <1>8
<1>10. now \in Nat /\ e \in Nat /\ RecoveryRetention \in Nat
       /\ \A r \in Runs : taking[r].at \in Nat
  BY <1>4, TimeTypes, RunTypes, StoreAssumption DEF Typed
<1>11. AfterDeath(id) <= now + RecoveryRetention
  BY <1>4, <1>9, <1>10
<1>12. ASSUME NEW r \in Runs, phase[r] \in {"Locked", "Opening"}
       PROVE  AfterDeath(id) <= taking[r].at + RecoveryRetention
  BY <1>4, <1>9, <1>10, <1>12
<1>13. QED
  BY <1>5, <1>7, <1>8, <1>11, <1>12

\* What is left of a job when its run dies.
Dead(id, r) ==
  /\ job'[id].run = r /\ job'[id].pc = "Gone" /\ job'[id].kind = "None" /\ job'[id].again = FALSE
  /\ job'[id].own = Nothing /\ job'[id].body = Nothing /\ job'[id].message = "Open"

LEMMA DoesCrash ==
  ASSUME Typed, Tries, NEW r \in Runs, Crash(r)
  PROVE  /\ Typed' /\ Tries' /\ phase[r] \in {"Locked", "Opening", "Up"} /\ phase'[r] = "Ended"
         /\ \A o \in Runs : holder'[o] = IF holder[o] = r THEN NoRun ELSE holder[o]
         /\ st'[r] = NoCounts /\ taking'[r] = NoTaking /\ sweeping'[r] = Idle
         /\ \A o \in Runs : o # r => /\ phase'[o] = phase[o] /\ st'[o] = st[o]
                                     /\ taking'[o] = taking[o] /\ sweeping'[o] = sweeping[o]
         /\ \A id \in Reports : IF job[id].run = r THEN Dead(id, r) ELSE job'[id] = job[id]
         /\ \A id \in Reports :
              promise'[id] = IF job[id].run = r /\ job[id].pc \in {"Resaved", "Kept"}
                               THEN AfterDeath(id) ELSE promise[id]
         /\ UNCHANGED <<norename, lock, dir, files, inventory, now>>
<1> DEFINE dead == [NoJob EXCEPT !.run = r, !.pc = "Gone"]
<1>1. /\ phase[r] \in {"Locked", "Opening", "Up"} /\ phase' = [phase EXCEPT ![r] = "Ended"]
      /\ holder' = [v \in Runs |-> IF holder[v] = r THEN NoRun ELSE holder[v]]
      /\ st' = [st EXCEPT ![r] = NoCounts] /\ taking' = [taking EXCEPT ![r] = NoTaking]
      /\ sweeping' = [sweeping EXCEPT ![r] = Idle]
      /\ job' = [id \in Reports |-> IF job[id].run = r THEN dead ELSE job[id]]
      /\ promise' = [id \in Reports |->
                       IF job[id].run = r /\ job[id].pc \in {"Resaved", "Kept"}
                         THEN AfterDeath(id) ELSE promise[id]]
      /\ UNCHANGED <<norename, lock, dir, files, inventory, now>>
  BY DEF Crash, disk
<1>2. /\ dead \in Jobs /\ dead.run = r /\ dead.pc = "Gone" /\ dead.kind = "None" /\ dead.again = FALSE
      /\ dead.own = Nothing /\ dead.body = Nothing /\ dead.message = "Open"
  <2>1. /\ NoJob \in Jobs /\ "Gone" \in Pcs
        /\ NoJob.kind = "None" /\ NoJob.again = FALSE /\ NoJob.own = Nothing
        /\ NoJob.body = Nothing /\ NoJob.message = "Open"
    BY InitialTypes DEF NoJob, Pcs
  <2>2. QED
    BY <2>1 DEF Jobs
<1> HIDE DEF dead
<1>3. /\ phase' \in [Runs -> {"Off", "Locked", "Opening", "Up", "Ended"}] /\ phase'[r] = "Ended"
      /\ \A o \in Runs : o # r => phase'[o] = phase[o]
  BY <1>1 DEF Typed
<1>4. /\ st' \in [Runs -> Counters] /\ st'[r] = NoCounts /\ \A o \in Runs : o # r => st'[o] = st[o]
  BY <1>1, InitialTypes DEF Typed
<1>5. /\ taking' \in [Runs -> Takings] /\ taking'[r] = NoTaking
      /\ \A o \in Runs : o # r => taking'[o] = taking[o]
  BY <1>1, InitialTypes DEF Typed
<1>6. /\ sweeping' \in [Runs -> Sweeps] /\ sweeping'[r] = Idle
      /\ \A o \in Runs : o # r => sweeping'[o] = sweeping[o]
  BY <1>1, InitialTypes DEF Typed
<1>7. /\ holder' \in [Runs -> Runs \cup {NoRun}]
      /\ \A o \in Runs : holder'[o] = IF holder[o] = r THEN NoRun ELSE holder[o]
  BY <1>1 DEF Typed
<1>8. /\ job' \in [Reports -> Jobs]
      /\ \A id \in Reports : job'[id] = IF job[id].run = r THEN dead ELSE job[id]
  BY <1>1, <1>2 DEF Typed
<1>9. /\ \A id \in Reports :
           promise'[id] = IF job[id].run = r /\ job[id].pc \in {"Resaved", "Kept"}
                            THEN AfterDeath(id) ELSE promise[id]
      /\ promise' \in [Reports -> Deadlines \cup {Forever}]
  <2>1. \A id \in Reports : AfterDeath(id) \in Deadlines \cup {Forever}
    BY AfterDeathBounds
  <2>2. QED
    BY <1>1, <2>1 DEF Typed
<1>10. Typed'
  BY <1>1, <1>3, <1>4, <1>5, <1>6, <1>7, <1>8, <1>9 DEF Typed
<1>11. Tries'
  BY <1>2, <1>8 DEF Tries, Trying
<1>12. \A id \in Reports : IF job[id].run = r THEN Dead(id, r) ELSE job'[id] = job[id]
  BY <1>2, <1>8 DEF Dead
<1>13. QED
  BY <1>1, <1>3, <1>4, <1>5, <1>6, <1>7, <1>9, <1>10, <1>11, <1>12

LEMMA DoesTick ==
  ASSUME Typed, Tick
  PROVE  /\ Typed' /\ now' = now + 1
         /\ UNCHANGED <<norename, lock, dir, files, inventory, holder, phase, st, taking, sweeping, job, promise>>
<1>1. /\ now < MaxTime /\ now' = now + 1
      /\ UNCHANGED <<norename, lock, dir, files, inventory, holder, phase, st, taking, sweeping, job, promise>>
  BY DEF Tick, disk
<1>2. now' \in Times
  BY <1>1, StoreAssumption DEF Typed, Times
<1>3. Typed'
  BY <1>1, <1>2 DEF Typed
<1>4. QED
  BY <1>1, <1>3

-----------------------------------------------------------------------------
(* The first layer, step by step.                                           *)

LEMMA BodiedStep ==
  ASSUME Bodied, NEW id \in Reports, \A o \in Reports : o # id => job'[o] = job[o],
         job'[id].again \/ job'[id].pc \in {"Held", "Resaved"} => Tracked(job'[id].body)
  PROVE  Bodied'
<1> SUFFICES ASSUME NEW o \in Reports, job'[o].again \/ job'[o].pc \in {"Held", "Resaved"}
             PROVE  Tracked(job'[o].body)
  BY DEF Bodied, Tracked
<1>1. CASE o = id
  BY <1>1
<1>2. CASE o # id
  BY <1>2 DEF Bodied
<1>3. QED
  BY <1>1, <1>2

LEMMA PointersStay ==
  ASSUME Pointers, taking' = taking, sweeping' = sweeping
  PROVE  Pointers'
  BY DEF Pointers

LEMMA BodiedStays ==
  ASSUME Bodied, job' = job
  PROVE  Bodied' /\ (Tries => Tries')
  BY DEF Bodied, Tries, Tracked

LEMMA FrameStays ==
  ASSUME NEW id, NEW r, Frame(id, r)
  PROVE  /\ taking' = taking /\ sweeping' = sweeping /\ lock' = lock /\ holder' = holder
         /\ phase' = phase /\ inventory' = inventory /\ now' = now /\ norename' = norename
         /\ \A o \in Reports : o # id => job'[o] = job[o] /\ promise'[o] = promise[o]
         /\ \A o \in Runs : o # r => st'[o] = st[o] /\ files'[o] = files[o]
         /\ r \in Runs /\ phase[r] = "Up" /\ job'[id].run = r
  BY DEF Frame

\* The two ways a message settles a lifetime.
LEMMA SettlingLife ==
  ASSUME Typed, NEW id \in Reports, acknowledged(id) \/ recovered(id)
  PROVE  \E life \in Spans, message \in {"Aside", "Acked"}, fromPinned \in BOOLEAN :
           /\ Dated(life) /\ life.since = now /\ Posted(id)
           /\ Settles(id, life, message, fromPinned)
           /\ IF fromPinned THEN job[id].message = "Open" /\ life.state = "Recovered" /\ message = "Aside"
                            ELSE life.state = "Acked" /\ message = "Acked"
<1>1. CASE acknowledged(id)
  <2> DEFINE life == [state |-> "Acked", since |-> now]
  <2>1. life \in Spans /\ Dated(life) /\ life.since = now /\ life.state = "Acked"
    BY SpanTypes DEF Typed, Dated
  <2>2. Posted(id) /\ Settles(id, life, "Acked", FALSE)
    BY <1>1 DEF acknowledged
  <2> HIDE DEF life
  <2>3. QED
    BY <2>1, <2>2
<1>2. CASE recovered(id)
  <2> DEFINE life == [state |-> "Recovered", since |-> now]
  <2>1. life \in Spans /\ Dated(life) /\ life.since = now /\ life.state = "Recovered"
    BY SpanTypes DEF Typed, Dated
  <2>2. Posted(id) /\ Settles(id, life, "Aside", TRUE) /\ job[id].message = "Open"
    BY <1>2 DEF recovered
  <2> HIDE DEF life
  <2>3. QED
    BY <2>1, <2>2
<1>3. QED
  BY <1>1, <1>2

LEMMA JobTypesStep ==
  ASSUME Types, NEW id \in Reports, NEW r, Frame(id, r), Typed', Tries',
         job'[id].again \/ job'[id].pc \in {"Held", "Resaved"} => Tracked(job'[id].body)
  PROVE  Types'
<1>1. Bodied'
  BY FrameStays, BodiedStep DEF Types
<1>2. Pointers'
  BY FrameStays, PointersStay DEF Types
<1>3. QED
  BY <1>1, <1>2 DEF Types

LEMMA TypesStep ==
  ASSUME Types, Locks, [Next]_vars
  PROVE  Types'
<1> USE DEF Types
<1>1. ASSUME NEW id \in Reports, NEW r \in Runs, NEW kind \in {"Report", "Dispatch"},
             reserve(r, id, kind)
      PROVE  Types'
  <2>1. job'[id].again \/ job'[id].pc \in {"Held", "Resaved"} => Tracked(job'[id].body)
    BY <1>1, DoesReserve DEF SameLife, Bodied
  <2>2. QED
    BY <1>1, <2>1, DoesReserve, JobTypesStep
<1>2. ASSUME NEW id \in Reports, release(id) PROVE Types'
  <2>1. job'[id].again \/ job'[id].pc \in {"Held", "Resaved"} => Tracked(job'[id].body)
    BY <1>2, DoesRelease DEF IsOver
  <2>2. QED
    BY <1>2, <2>1, DoesRelease, JobTypesStep
<1>3. ASSUME NEW id \in Reports, write_temp(id) PROVE Types'
  <2>1. job'[id].again \/ job'[id].pc \in {"Held", "Resaved"} => Tracked(job'[id].body)
    BY <1>3, DoesWriteTemp DEF SameLife, SameTry, Bodied
  <2>2. QED
    BY <1>3, <2>1, DoesWriteTemp, JobTypesStep
<1>4. ASSUME NEW id \in Reports, write_link(id) PROVE Types'
  <2>1. job'[id].again \/ job'[id].pc \in {"Held", "Resaved"} => Tracked(job'[id].body)
    BY <1>4, DoesWriteLink DEF SameLife, SameTry, Bodied
  <2>2. QED
    BY <1>4, <2>1, DoesWriteLink, JobTypesStep
<1>5. ASSUME NEW id \in Reports, write_saved(id) PROVE Types'
  <2>1. job'[id].again \/ job'[id].pc \in {"Held", "Resaved"} => Tracked(job'[id].body)
    BY <1>5, DoesWriteSaved DEF Bodied
  <2>2. QED
    BY <1>5, <2>1, DoesWriteSaved, JobTypesStep
<1>6. ASSUME NEW id \in Reports, write_failed(id) PROVE Types'
  <2>1. job'[id].again \/ job'[id].pc \in {"Held", "Resaved"} => Tracked(job'[id].body)
    BY <1>6, DoesWriteFailed DEF IsOver, SameTry, Bodied
  <2>2. QED
    BY <1>6, <2>1, DoesWriteFailed, JobTypesStep
<1>7. ASSUME NEW id \in Reports, save_held(id) PROVE Types'
  <2>1. Tracked(job'[id].body)
    BY <1>7, DoesSaveHeld, SpanTypes DEF Bodied, Tracked
  <2>2. QED
    BY <1>7, <2>1, DoesSaveHeld, JobTypesStep
<1>8. ASSUME NEW id \in Reports, retry_held(id) PROVE Types'
  <2>1. job'[id].again \/ job'[id].pc \in {"Held", "Resaved"} => Tracked(job'[id].body)
    BY <1>8, DoesRetryHeld DEF SameLife, Bodied
  <2>2. QED
    BY <1>8, <2>1, DoesRetryHeld, JobTypesStep
<1>9. ASSUME NEW id \in Reports, end_held(id) PROVE Types'
  <2>1. job'[id].again \/ job'[id].pc \in {"Held", "Resaved"} => Tracked(job'[id].body)
    BY <1>9, DoesEndHeld DEF IsOver
  <2>2. QED
    BY <1>9, <2>1, DoesEndHeld, JobTypesStep
<1>10. ASSUME NEW id \in Reports, continue_lifetime(id) PROVE Types'
  <2>1. job'[id].again \/ job'[id].pc \in {"Held", "Resaved"} => Tracked(job'[id].body)
    BY <1>10, DoesContinueLifetime DEF Types
  <2>2. QED
    BY <1>10, <2>1, DoesContinueLifetime, JobTypesStep
<1>11. ASSUME NEW id \in Reports, accept(id) PROVE Types'
  <2>1. job'[id].again \/ job'[id].pc \in {"Held", "Resaved"} => Tracked(job'[id].body)
    BY <1>11, DoesAccept DEF SameLife, SameTry, Bodied
  <2>2. QED
    BY <1>11, <2>1, DoesAccept, JobTypesStep
<1>12. ASSUME NEW id \in Reports, discard(id) PROVE Types'
  <2>1. job'[id].again \/ job'[id].pc \in {"Held", "Resaved"} => Tracked(job'[id].body)
    BY <1>12, DoesDiscard DEF IsOver
  <2>2. QED
    BY <1>12, <2>1, DoesDiscard, JobTypesStep
<1>13. ASSUME NEW id \in Reports, acknowledged(id) \/ recovered(id) PROVE Types'
  <2>1. PICK life \in Spans, message \in {"Aside", "Acked"}, fromPinned \in BOOLEAN :
          Dated(life) /\ Posted(id) /\ Settles(id, life, message, fromPinned)
    BY <1>13, SettlingLife
  <2>2. job'[id].again \/ job'[id].pc \in {"Held", "Resaved"} => Tracked(job'[id].body)
    BY <2>1, DoesSettle, SpanCases DEF SameTry, Bodied
  <2>3. QED
    BY <2>1, <2>2, DoesSettle, JobTypesStep
<1>14. ASSUME NEW r \in Runs, flush_inventory(r) PROVE Types'
  BY <1>14, DoesFlushInventory, BodiedStays, PointersStay
<1>15. ASSUME NEW r \in Runs, NEW id \in Reports, sweep_nominate(r, id) PROVE Types'
  <2>1. Pointers'
    <3>1. sweeping'[r] = [id |-> id, step |-> "Nominated"]
      BY <1>15, DoesSweepNominate
    <3>2. QED
      BY <1>15, <3>1, DoesSweepNominate DEF Pointers
  <2>2. QED
    BY <1>15, <2>1, DoesSweepNominate, BodiedStays
<1>16. ASSUME NEW r \in Runs, sweep_claim(r) PROVE Types'
  <2>1. Pointers'
    <3>1. sweeping'[r] = [id |-> sweeping[r].id, step |-> "Claimed"] \/ sweeping'[r] = Idle
      BY <1>16, DoesSweepClaim
    <3>2. QED
      BY <1>16, <3>1, DoesSweepClaim DEF Pointers, Idle
  <2>2. Bodied'
    BY <1>16, DoesSweepClaim, BodiedStep, BodiedStays DEF SameBut, SameTry, Bodied
  <2>3. QED
    BY <1>16, <2>1, <2>2, DoesSweepClaim
<1>17. ASSUME NEW r \in Runs, sweep_unlink(r) PROVE Types'
  <2>1. Pointers'
    <3>1. sweeping'[r] = [id |-> sweeping[r].id, step |-> "Unlinked"] \/ sweeping'[r] = Idle
      BY <1>17, DoesSweepUnlink
    <3>2. QED
      BY <1>17, <3>1, DoesSweepUnlink DEF Pointers, Idle
  <2>2. QED
    BY <1>17, <2>1, DoesSweepUnlink, BodiedStays
<1>18. ASSUME NEW r \in Runs, sweep_drop(r) PROVE Types'
  <2>1. Pointers'
    BY <1>18, DoesSweepDrop DEF Pointers, Idle
  <2>2. Bodied'
    BY <1>18, DoesSweepDrop, BodiedStep DEF SameBut, SameTry, Bodied
  <2>3. QED
    BY <1>18, <2>1, <2>2, DoesSweepDrop
<1>19. ASSUME NEW r \in Runs, sweep_stray(r) \/ sweep_adopted(r) PROVE Types'
  BY <1>19, DoesSweepStray, DoesSweepAdopted, BodiedStays, PointersStay
<1>20. ASSUME NEW r \in Runs, open_lock(r) PROVE Types'
  BY <1>20, DoesOpenLock, BodiedStays DEF Pointers
<1>21. ASSUME NEW r \in Runs, open_dir(r) PROVE Types'
  BY <1>21, DoesOpenDir, BodiedStays, PointersStay
<1>22. ASSUME NEW r \in Runs, NEW v \in Runs, take_over(r, v) PROVE Types'
  BY <1>22, DoesTakeOver, BodiedStays DEF Pointers, SameTaking
<1>23. ASSUME NEW r \in Runs, NEW name \in taking[r].todo, transfer_file(r, name) PROVE Types'
  <2>1. taking[r].of # r
    BY <1>23 DEF Locks, TakersHold, transfer_file
  <2>2. QED
    BY <1>23, <2>1, DoesTransferFile, BodiedStays DEF Pointers, SameTaking
<1>24. ASSUME NEW r \in Runs, retire_begin(r) PROVE Types'
  BY <1>24, DoesRetireBegin, BodiedStays DEF Pointers, Advances, Frees, Untaken
<1>25. ASSUME NEW r \in Runs, retire_inventory(r) PROVE Types'
  BY <1>25, DoesRetireInventory, BodiedStays DEF Pointers, Advances, Frees, Untaken
<1>26. ASSUME NEW r \in Runs, retire_dir(r) PROVE Types'
  BY <1>26, DoesRetireDir, BodiedStays DEF Pointers, Advances, Frees, Untaken
<1>27. ASSUME NEW r \in Runs, retire_lock(r) PROVE Types'
  BY <1>27, DoesRetireLock, BodiedStays DEF Pointers, Frees, Untaken
<1>28. ASSUME NEW r \in Runs, opened(r) PROVE Types'
  BY <1>28, DoesOpened, BodiedStays DEF Pointers, NoTaking
<1>29. ASSUME NEW r \in Runs, Crash(r) PROVE Types'
  <2>1. Bodied'
    BY <1>29, DoesCrash DEF Bodied, Dead, Tracked
  <2>2. Pointers'
    BY <1>29, DoesCrash DEF Pointers, NoTaking, Idle
  <2>3. QED
    BY <1>29, <2>1, <2>2, DoesCrash
<1>30. CASE Tick
  BY <1>30, DoesTick, BodiedStays, PointersStay
<1>31. CASE UNCHANGED vars
  <2>1. Typed'
    BY <1>31 DEF vars, disk, Typed
  <2>2. QED
    BY <1>31, <2>1, BodiedStays, PointersStay DEF vars, disk
<1>32. QED
  BY <1>1, <1>2, <1>3, <1>4, <1>5, <1>6, <1>7, <1>8, <1>9, <1>10, <1>11, <1>12, <1>13, <1>14,
     <1>15, <1>16, <1>17, <1>18, <1>19, <1>20, <1>21, <1>22, <1>23, <1>24, <1>25, <1>26, <1>27,
     <1>28, <1>29, <1>30, <1>31 DEF Next, Write, Lifetime, Maintain, Open

-----------------------------------------------------------------------------
(* The second layer: locks.  Only opening, taking over and dying move them. *)

LEMMA JobFrame ==
  ASSUME Types, NEW id \in Reports, Write(id) \/ Lifetime(id)
  PROVE  \E r \in Runs : Frame(id, r)
<1> USE DEF Types
<1>1. CASE \E r \in Runs, kind \in {"Report", "Dispatch"} : reserve(r, id, kind)
  BY <1>1, DoesReserve
<1>2. ASSUME Frame(id, job[id].run)
      PROVE  \E r \in Runs : Frame(id, r)
  BY <1>2, FrameStays
<1>3. CASE release(id) \/ write_temp(id) \/ write_link(id)
  BY <1>2, <1>3, DoesRelease, DoesWriteTemp, DoesWriteLink
<1>4. CASE write_saved(id) \/ write_failed(id) \/ save_held(id)
  BY <1>2, <1>4, DoesWriteSaved, DoesWriteFailed, DoesSaveHeld
<1>5. CASE retry_held(id) \/ end_held(id) \/ continue_lifetime(id)
  BY <1>2, <1>5, DoesRetryHeld, DoesEndHeld, DoesContinueLifetime
<1>6. CASE accept(id) \/ discard(id)
  BY <1>2, <1>6, DoesAccept, DoesDiscard
<1>7. CASE acknowledged(id) \/ recovered(id)
  BY <1>2, <1>7, SettlingLife, DoesSettle
<1>8. QED
  BY <1>1, <1>3, <1>4, <1>5, <1>6, <1>7 DEF Write, Lifetime

LEMMA MaintainFrame ==
  ASSUME Types, NEW r \in Runs, Maintain(r)
  PROVE  UNCHANGED <<norename, lock, dir, holder, phase, taking, now, promise>>
<1> USE DEF Types
<1>1. CASE flush_inventory(r)
  BY <1>1, DoesFlushInventory
<1>2. CASE \E id \in Reports : sweep_nominate(r, id)
  BY <1>2, DoesSweepNominate
<1>3. CASE sweep_claim(r)
  BY <1>3, DoesSweepClaim
<1>4. CASE sweep_unlink(r)
  BY <1>4, DoesSweepUnlink
<1>5. CASE sweep_drop(r)
  BY <1>5, DoesSweepDrop
<1>6. CASE sweep_stray(r)
  BY <1>6, DoesSweepStray
<1>7. CASE sweep_adopted(r)
  BY <1>7, DoesSweepAdopted
<1>8. QED
  BY <1>1, <1>2, <1>3, <1>4, <1>5, <1>6, <1>7 DEF Maintain

LEMMA LocksStay ==
  ASSUME Locks, lock' = lock, holder' = holder, phase' = phase,
         \A r \in Runs : taking'[r].of = taking[r].of /\ taking'[r].step = taking[r].step
  PROVE  Locks'
<1>1. LocksHeld'
  BY DEF Locks, LocksHeld, Live
<1>2. HoldersTake'
  BY DEF Locks, HoldersTake
<1>3. TakersHold'
  BY DEF Locks, TakersHold
<1>4. QED
  BY <1>1, <1>2, <1>3 DEF Locks

\* A takeover that ends and frees its lock.
LEMMA LocksFree ==
  ASSUME Types, Locks, NEW r \in Runs, taking[r].step # "None", Frees(r), phase' = phase,
         lock' = lock \/ lock' = lock \ {taking[r].of}
  PROVE  Locks'
<1> DEFINE v == taking[r].of
<1>1. /\ v \in Runs /\ v # r /\ v \in lock /\ holder[v] = r /\ phase[v] = "Ended" /\ phase[r] = "Opening"
  BY DEF Types, Pointers, Locks, TakersHold
<1>2. /\ taking'[r].step = "None" /\ holder'[v] = NoRun
      /\ \A o \in Runs : o # r => taking'[o] = taking[o]
      /\ \A o \in Runs : o # v => holder'[o] = holder[o]
      /\ \A o \in Runs : o # v => (o \in lock' <=> o \in lock)
  BY DEF Frees, Untaken
<1> HIDE DEF v
<1>3. LocksHeld'
  BY <1>1, <1>2 DEF Locks, LocksHeld, Live
<1>4. HoldersTake'
  <2> SUFFICES ASSUME NEW w \in Runs, NEW q \in Runs, holder'[w] = q, q # w
               PROVE  phase'[q] = "Opening" /\ taking'[q].step # "None" /\ taking'[q].of = w
    BY DEF HoldersTake
  <2>1. w # v /\ holder[w] = q
    BY <1>1, <1>2, StoreAssumption
  <2>2. phase[q] = "Opening" /\ taking[q].step # "None" /\ taking[q].of = w
    BY <2>1 DEF Locks, HoldersTake
  <2>3. q # r
    BY <2>1, <2>2 DEF v
  <2>4. QED
    BY <1>2, <2>2, <2>3
<1>5. TakersHold'
  <2> SUFFICES ASSUME NEW q \in Runs, taking'[q].step # "None"
               PROVE  /\ phase'[q] = "Opening"
                      /\ taking'[q].of \in lock' /\ taking'[q].of # q
                      /\ holder'[taking'[q].of] = q
                      /\ phase'[taking'[q].of] = "Ended"
    BY DEF TakersHold
  <2>1. q # r /\ taking'[q] = taking[q]
    BY <1>2
  <2>2. /\ phase[q] = "Opening" /\ taking[q].of \in lock /\ taking[q].of # q
        /\ holder[taking[q].of] = q /\ phase[taking[q].of] = "Ended" /\ taking[q].of \in Runs
    BY <2>1 DEF Locks, TakersHold, Types, Pointers
  <2>3. taking[q].of # v
    BY <1>1, <2>1, <2>2
  <2>4. QED
    BY <1>2, <2>1, <2>2, <2>3
<1>6. QED
  BY <1>3, <1>4, <1>5 DEF Locks

LEMMA LocksStep ==
  ASSUME Types, Locks, [Next]_vars
  PROVE  Locks'
<1>1. ASSUME NEW id \in Reports, Write(id) \/ Lifetime(id) PROVE Locks'
  BY <1>1, JobFrame, FrameStays, LocksStay
<1>2. ASSUME NEW r \in Runs, Maintain(r) PROVE Locks'
  BY <1>2, MaintainFrame, LocksStay
<1>3. ASSUME NEW r \in Runs, open_lock(r) PROVE Locks'
  <2>1. /\ phase[r] = "Off" /\ phase'[r] = "Locked" /\ holder'[r] = r /\ lock' = lock \cup {r}
        /\ taking'[r].of = taking[r].of /\ taking'[r].step = taking[r].step
        /\ \A o \in Runs : o # r => /\ phase'[o] = phase[o] /\ holder'[o] = holder[o]
                                    /\ taking'[o] = taking[o]
    BY <1>3, DoesOpenLock DEF Types
  <2>2. taking[r].step = "None"
    BY <2>1 DEF Locks, TakersHold
  <2>3. LocksHeld'
    BY <2>1 DEF Locks, LocksHeld, Live
  <2>4. HoldersTake'
    BY <2>1 DEF Locks, HoldersTake
  <2>5. TakersHold'
    BY <2>1, <2>2 DEF Locks, TakersHold, Types, Pointers
  <2>6. QED
    BY <2>3, <2>4, <2>5 DEF Locks
<1>4. ASSUME NEW r \in Runs, open_dir(r) PROVE Locks'
  <2>1. /\ phase[r] = "Locked" /\ phase'[r] = "Opening" /\ lock' = lock /\ holder' = holder
        /\ taking' = taking /\ \A o \in Runs : o # r => phase'[o] = phase[o]
    BY <1>4, DoesOpenDir DEF Types
  <2>2. LocksHeld'
    BY <2>1 DEF Locks, LocksHeld, Live
  <2>3. HoldersTake'
    BY <2>1 DEF Locks, HoldersTake
  <2>4. TakersHold'
    BY <2>1 DEF Locks, TakersHold, Types, Pointers
  <2>5. QED
    BY <2>2, <2>3, <2>4 DEF Locks
<1>5. ASSUME NEW r \in Runs, NEW v \in Runs, take_over(r, v) PROVE Locks'
  <2>1. /\ phase[r] = "Opening" /\ taking[r].step = "None" /\ v \in lock /\ v # r
        /\ lock' = lock /\ phase' = phase
        /\ \A o \in Runs : o # r => taking'[o] = taking[o]
        /\ \A o \in Runs : o # v => holder'[o] = holder[o]
    BY <1>5, DoesTakeOver DEF Types
  <2>2. CASE SameTaking(r) /\ holder' = holder
    BY <2>1, <2>2, LocksStay DEF SameTaking
  <2>3. CASE /\ holder[v] = NoRun /\ holder'[v] = r /\ taking'[r].of = v /\ taking'[r].step = "Files"
    <3>1. phase[v] = "Ended"
      <4>1. phase[v] \in {"Off", "Locked", "Opening", "Up", "Ended"}
        BY DEF Types, Typed
      <4>2. QED
        BY <2>1, <2>3, <4>1, StoreAssumption DEF Locks, LocksHeld, Live
    <3>2. LocksHeld'
      BY <2>1, <2>3, <3>1 DEF Locks, LocksHeld, Live
    <3>3. HoldersTake'
      <4> SUFFICES ASSUME NEW w \in Runs, NEW q \in Runs, holder'[w] = q, q # w
                   PROVE  phase'[q] = "Opening" /\ taking'[q].step # "None" /\ taking'[q].of = w
        BY DEF HoldersTake
      <4>1. CASE w = v
        BY <2>1, <2>3, <4>1
      <4>2. CASE w # v
        <5>1. phase[q] = "Opening" /\ taking[q].step # "None" /\ taking[q].of = w
          BY <2>1, <4>2 DEF Locks, HoldersTake
        <5>2. QED
          BY <2>1, <5>1
      <4>3. QED
        BY <4>1, <4>2
    <3>4. TakersHold'
      <4> SUFFICES ASSUME NEW q \in Runs, taking'[q].step # "None"
                   PROVE  /\ phase'[q] = "Opening"
                          /\ taking'[q].of \in lock' /\ taking'[q].of # q
                          /\ holder'[taking'[q].of] = q
                          /\ phase'[taking'[q].of] = "Ended"
        BY DEF TakersHold
      <4>1. CASE q = r
        BY <2>1, <2>3, <3>1, <4>1
      <4>2. CASE q # r
        <5>1. /\ phase[q] = "Opening" /\ taking[q].of \in lock /\ taking[q].of # q
              /\ holder[taking[q].of] = q /\ phase[taking[q].of] = "Ended" /\ taking[q].of \in Runs
          BY <2>1, <4>2 DEF Locks, TakersHold, Types, Pointers
        <5>2. taking[q].of # v
          BY <2>3, <5>1, StoreAssumption
        <5>3. QED
          BY <2>1, <4>2, <5>1, <5>2
      <4>3. QED
        BY <4>1, <4>2
    <3>5. QED
      BY <3>2, <3>3, <3>4 DEF Locks
  <2>4. QED
    BY <1>5, <2>2, <2>3, DoesTakeOver DEF Types
<1>6. ASSUME NEW r \in Runs, NEW name \in taking[r].todo, transfer_file(r, name) PROVE Locks'
  <2>1. taking[r].of # r
    BY <1>6 DEF Locks, TakersHold, transfer_file
  <2>2. QED
    BY <1>6, <2>1, DoesTransferFile, LocksStay DEF Types, SameTaking
<1>7. ASSUME NEW r \in Runs, NEW step, step # "None", taking[r].step # "None", Advances(r, step),
             phase' = phase, lock' = lock
      PROVE  Locks'
  <2>1. /\ taking'[r].step # "None" /\ taking'[r].of = taking[r].of /\ holder' = holder
        /\ \A o \in Runs : o # r => taking'[o] = taking[o]
    BY <1>7 DEF Advances
  <2>2. LocksHeld'
    BY <1>7, <2>1 DEF Locks, LocksHeld, Live
  <2>3. HoldersTake'
    BY <1>7, <2>1 DEF Locks, HoldersTake
  <2>4. TakersHold'
    BY <1>7, <2>1 DEF Locks, TakersHold
  <2>5. QED
    BY <2>2, <2>3, <2>4 DEF Locks
<1>8. ASSUME NEW r \in Runs, retire_begin(r) PROVE Locks'
  BY <1>7, <1>8, DoesRetireBegin, LocksFree DEF Types
<1>9. ASSUME NEW r \in Runs, retire_inventory(r) PROVE Locks'
  BY <1>7, <1>9, DoesRetireInventory, LocksFree DEF Types
<1>10. ASSUME NEW r \in Runs, retire_dir(r) PROVE Locks'
  BY <1>7, <1>10, DoesRetireDir, LocksFree DEF Types
<1>11. ASSUME NEW r \in Runs, retire_lock(r) PROVE Locks'
  BY <1>11, DoesRetireLock, LocksFree DEF Types
<1>12. ASSUME NEW r \in Runs, opened(r) PROVE Locks'
  <2>1. /\ phase[r] = "Opening" /\ phase'[r] = "Up" /\ lock' = lock /\ holder' = holder
        /\ taking[r].step = "None" /\ taking'[r].step = "None"
        /\ \A o \in Runs : o # r => phase'[o] = phase[o] /\ taking'[o] = taking[o]
    BY <1>12, DoesOpened DEF Types, NoTaking
  <2>2. LocksHeld'
    BY <2>1 DEF Locks, LocksHeld, Live
  <2>3. HoldersTake'
    BY <2>1 DEF Locks, HoldersTake
  <2>4. TakersHold'
    BY <2>1 DEF Locks, TakersHold, Types, Pointers
  <2>5. QED
    BY <2>2, <2>3, <2>4 DEF Locks
<1>13. ASSUME NEW r \in Runs, Crash(r) PROVE Locks'
  <2>1. /\ phase[r] \in {"Locked", "Opening", "Up"} /\ phase'[r] = "Ended" /\ lock' = lock
        /\ \A o \in Runs : holder'[o] = IF holder[o] = r THEN NoRun ELSE holder[o]
        /\ taking'[r].step = "None"
        /\ \A o \in Runs : o # r => phase'[o] = phase[o] /\ taking'[o] = taking[o]
    BY <1>13, DoesCrash DEF Types, NoTaking
  <2>2. LocksHeld'
    BY <2>1 DEF Locks, LocksHeld, Live
  <2>3. HoldersTake'
    <3> SUFFICES ASSUME NEW w \in Runs, NEW q \in Runs, holder'[w] = q, q # w
                 PROVE  phase'[q] = "Opening" /\ taking'[q].step # "None" /\ taking'[q].of = w
      BY DEF HoldersTake
    <3>1. holder[w] = q /\ q # r
      BY <2>1, StoreAssumption
    <3>2. QED
      BY <2>1, <3>1 DEF Locks, HoldersTake
  <2>4. TakersHold'
    <3> SUFFICES ASSUME NEW q \in Runs, taking'[q].step # "None"
                 PROVE  /\ phase'[q] = "Opening"
                        /\ taking'[q].of \in lock' /\ taking'[q].of # q
                        /\ holder'[taking'[q].of] = q
                        /\ phase'[taking'[q].of] = "Ended"
      BY DEF TakersHold
    <3>1. q # r /\ taking'[q] = taking[q]
      BY <2>1
    <3>2. /\ phase[q] = "Opening" /\ taking[q].of \in lock /\ taking[q].of # q
          /\ holder[taking[q].of] = q /\ phase[taking[q].of] = "Ended" /\ taking[q].of \in Runs
      BY <3>1 DEF Locks, TakersHold, Types, Pointers
    <3>3. QED
      BY <2>1, <3>1, <3>2
  <2>5. QED
    BY <2>2, <2>3, <2>4 DEF Locks
<1>14. CASE Tick
  BY <1>14, DoesTick, LocksStay DEF Types
<1>15. CASE UNCHANGED vars
  BY <1>15, LocksStay DEF vars, disk
<1>16. QED
  BY <1>1, <1>2, <1>3, <1>4, <1>5, <1>6, <1>8, <1>9, <1>10, <1>11, <1>12, <1>13, <1>14, <1>15
     DEF Next, Open

-----------------------------------------------------------------------------
(* The third layer: directories.                                            *)

LEMMA NameFields ==
  /\ \A id : OwnName(id).kind = "own" /\ OwnName(id).id = id
  /\ \A id, n : /\ AdoptedName(id, n).kind = "adopted" /\ AdoptedName(id, n).id = id
                /\ AdoptedName(id, n).n = n
  /\ \A id : TempName(id).kind = "temp" /\ TempName(id).id = id
  BY DEF OwnName, AdoptedName, TempName

\* What a job's step may do to its directory: no name but the job's own two
\* comes or goes there, and its strays are temporary names.
Tidy(id, r) ==
  /\ job[id].run = r \/ job[id].pc = "New"
  /\ job'[id].pc # "New"
  /\ \A name \in files'[r] :
       \/ name \in files[r] \/ name = OwnName(id)
       \/ name.kind = "temp" /\ name.id = id
  /\ \A name \in files[r] : name.id = id \/ name \in files'[r]
  /\ \A s \in st'[r].stray : s.name.kind = "temp"

LEMMA TidyJob ==
  ASSUME Directories, NEW id \in Reports, Frame(id, job[id].run), job'[id].pc # "New",
         \A name \in files'[job[id].run] :
           \/ name \in files[job[id].run] \/ name = OwnName(id) \/ name = TempName(id),
         \A name \in files[job[id].run] :
           \/ name \in files'[job[id].run] \/ name = OwnName(id) \/ name = TempName(id),
         \A s \in st'[job[id].run].stray :
           \/ s \in st[job[id].run].stray \/ s = StrayOf(id, TRUE) \/ s = StrayOf(id, FALSE)
  PROVE  \E r \in Runs : Frame(id, r) /\ Tidy(id, r)
<1>1. job[id].run \in Runs
  BY FrameStays
<1>2. \A s \in st'[job[id].run].stray : s.name.kind = "temp"
  <2> SUFFICES ASSUME NEW s \in st'[job[id].run].stray
               PROVE  s.name.kind = "temp"
    OBVIOUS
  <2>1. CASE s \in st[job[id].run].stray
    BY <1>1, <2>1 DEF Directories, StraysTemp
  <2>2. CASE s = StrayOf(id, TRUE) \/ s = StrayOf(id, FALSE)
    BY <2>2 DEF StrayOf, TempName
  <2>3. QED
    BY <2>1, <2>2
<1>3. Tidy(id, job[id].run)
  BY <1>2, NameFields DEF Tidy
<1>4. QED
  BY <1>1, <1>3

LEMMA JobTidy ==
  ASSUME Types, Directories, NEW id \in Reports, Write(id) \/ Lifetime(id)
  PROVE  \E r \in Runs : Frame(id, r) /\ Tidy(id, r)
<1> USE DEF Types
<1>1. ASSUME NEW r \in Runs, NEW kind \in {"Report", "Dispatch"}, reserve(r, id, kind)
      PROVE  \E q \in Runs : Frame(id, q) /\ Tidy(id, q)
  BY <1>1, DoesReserve DEF Tidy, Directories, StraysTemp
<1>2. CASE release(id)
  <2>1. /\ Frame(id, job[id].run) /\ job'[id].pc # "New"
    BY <1>2, DoesRelease DEF IsOver
  <2>2. /\ \A name \in files'[job[id].run] :
             \/ name \in files[job[id].run] \/ name = OwnName(id) \/ name = TempName(id)
        /\ \A name \in files[job[id].run] :
             \/ name \in files'[job[id].run] \/ name = OwnName(id) \/ name = TempName(id)
    BY <1>2, DoesRelease
  <2>3. \A s \in st'[job[id].run].stray :
          \/ s \in st[job[id].run].stray \/ s = StrayOf(id, TRUE) \/ s = StrayOf(id, FALSE)
    BY <1>2, DoesRelease
  <2>4. QED
    BY <2>1, <2>2, <2>3, TidyJob
<1>3. CASE write_temp(id)
  <2>1. /\ Frame(id, job[id].run) /\ job'[id].pc # "New"
    BY <1>3, DoesWriteTemp
  <2>2. /\ \A name \in files'[job[id].run] :
             \/ name \in files[job[id].run] \/ name = OwnName(id) \/ name = TempName(id)
        /\ \A name \in files[job[id].run] :
             \/ name \in files'[job[id].run] \/ name = OwnName(id) \/ name = TempName(id)
    BY <1>3, DoesWriteTemp
  <2>3. \A s \in st'[job[id].run].stray :
          \/ s \in st[job[id].run].stray \/ s = StrayOf(id, TRUE) \/ s = StrayOf(id, FALSE)
    BY <1>3, DoesWriteTemp
  <2>4. QED
    BY <2>1, <2>2, <2>3, TidyJob
<1>4. CASE write_link(id)
  <2>1. /\ Frame(id, job[id].run) /\ job'[id].pc # "New"
    BY <1>4, DoesWriteLink
  <2>2. /\ \A name \in files'[job[id].run] :
             \/ name \in files[job[id].run] \/ name = OwnName(id) \/ name = TempName(id)
        /\ \A name \in files[job[id].run] :
             \/ name \in files'[job[id].run] \/ name = OwnName(id) \/ name = TempName(id)
    BY <1>4, DoesWriteLink
  <2>3. \A s \in st'[job[id].run].stray :
          \/ s \in st[job[id].run].stray \/ s = StrayOf(id, TRUE) \/ s = StrayOf(id, FALSE)
    BY <1>4, DoesWriteLink
  <2>4. QED
    BY <2>1, <2>2, <2>3, TidyJob
<1>5. CASE write_saved(id)
  <2>1. /\ Frame(id, job[id].run) /\ job'[id].pc # "New"
    BY <1>5, DoesWriteSaved
  <2>2. /\ \A name \in files'[job[id].run] :
             \/ name \in files[job[id].run] \/ name = OwnName(id) \/ name = TempName(id)
        /\ \A name \in files[job[id].run] :
             \/ name \in files'[job[id].run] \/ name = OwnName(id) \/ name = TempName(id)
    BY <1>5, DoesWriteSaved
  <2>3. \A s \in st'[job[id].run].stray :
          \/ s \in st[job[id].run].stray \/ s = StrayOf(id, TRUE) \/ s = StrayOf(id, FALSE)
    <3>1. st'[job[id].run].stray =
            st[job[id].run].stray
              \cup (IF TempName(id) \in files[job[id].run] THEN {StrayOf(id, TRUE)} ELSE {})
      BY <1>5, DoesWriteSaved
    <3>2. QED
      BY <3>1
  <2>4. QED
    BY <2>1, <2>2, <2>3, TidyJob
<1>6. CASE write_failed(id)
  <2>1. /\ Frame(id, job[id].run) /\ job'[id].pc # "New"
    BY <1>6, DoesWriteFailed DEF IsOver
  <2>2. /\ \A name \in files'[job[id].run] :
             \/ name \in files[job[id].run] \/ name = OwnName(id) \/ name = TempName(id)
        /\ \A name \in files[job[id].run] :
             \/ name \in files'[job[id].run] \/ name = OwnName(id) \/ name = TempName(id)
    BY <1>6, DoesWriteFailed
  <2>3. \A s \in st'[job[id].run].stray :
          \/ s \in st[job[id].run].stray \/ s = StrayOf(id, TRUE) \/ s = StrayOf(id, FALSE)
    <3>1. \/ st'[job[id].run].stray = st[job[id].run].stray \cup {StrayOf(id, FALSE)}
          \/ st'[job[id].run].stray = st[job[id].run].stray
      BY <1>6, DoesWriteFailed
    <3>2. QED
      BY <3>1
  <2>4. QED
    BY <2>1, <2>2, <2>3, TidyJob
<1>7. CASE save_held(id)
  <2>1. /\ Frame(id, job[id].run) /\ job'[id].pc # "New"
    BY <1>7, DoesSaveHeld
  <2>2. /\ \A name \in files'[job[id].run] :
             \/ name \in files[job[id].run] \/ name = OwnName(id) \/ name = TempName(id)
        /\ \A name \in files[job[id].run] :
             \/ name \in files'[job[id].run] \/ name = OwnName(id) \/ name = TempName(id)
    BY <1>7, DoesSaveHeld
  <2>3. \A s \in st'[job[id].run].stray :
          \/ s \in st[job[id].run].stray \/ s = StrayOf(id, TRUE) \/ s = StrayOf(id, FALSE)
    BY <1>7, DoesSaveHeld
  <2>4. QED
    BY <2>1, <2>2, <2>3, TidyJob
<1>8. CASE retry_held(id)
  <2>1. /\ Frame(id, job[id].run) /\ job'[id].pc # "New"
    BY <1>8, DoesRetryHeld
  <2>2. /\ \A name \in files'[job[id].run] :
             \/ name \in files[job[id].run] \/ name = OwnName(id) \/ name = TempName(id)
        /\ \A name \in files[job[id].run] :
             \/ name \in files'[job[id].run] \/ name = OwnName(id) \/ name = TempName(id)
    BY <1>8, DoesRetryHeld
  <2>3. \A s \in st'[job[id].run].stray :
          \/ s \in st[job[id].run].stray \/ s = StrayOf(id, TRUE) \/ s = StrayOf(id, FALSE)
    BY <1>8, DoesRetryHeld
  <2>4. QED
    BY <2>1, <2>2, <2>3, TidyJob
<1>9. CASE end_held(id)
  <2>1. /\ Frame(id, job[id].run) /\ job'[id].pc # "New"
    BY <1>9, DoesEndHeld DEF IsOver
  <2>2. /\ \A name \in files'[job[id].run] :
             \/ name \in files[job[id].run] \/ name = OwnName(id) \/ name = TempName(id)
        /\ \A name \in files[job[id].run] :
             \/ name \in files'[job[id].run] \/ name = OwnName(id) \/ name = TempName(id)
    BY <1>9, DoesEndHeld
  <2>3. \A s \in st'[job[id].run].stray :
          \/ s \in st[job[id].run].stray \/ s = StrayOf(id, TRUE) \/ s = StrayOf(id, FALSE)
    BY <1>9, DoesEndHeld
  <2>4. QED
    BY <2>1, <2>2, <2>3, TidyJob
<1>10. CASE continue_lifetime(id)
  <2>1. /\ Frame(id, job[id].run) /\ job'[id].pc # "New"
    BY <1>10, DoesContinueLifetime
  <2>2. /\ \A name \in files'[job[id].run] :
             \/ name \in files[job[id].run] \/ name = OwnName(id) \/ name = TempName(id)
        /\ \A name \in files[job[id].run] :
             \/ name \in files'[job[id].run] \/ name = OwnName(id) \/ name = TempName(id)
    BY <1>10, DoesContinueLifetime
  <2>3. \A s \in st'[job[id].run].stray :
          \/ s \in st[job[id].run].stray \/ s = StrayOf(id, TRUE) \/ s = StrayOf(id, FALSE)
    BY <1>10, DoesContinueLifetime
  <2>4. QED
    BY <2>1, <2>2, <2>3, TidyJob
<1>11. CASE accept(id)
  <2>1. /\ Frame(id, job[id].run) /\ job'[id].pc # "New"
    BY <1>11, DoesAccept
  <2>2. /\ \A name \in files'[job[id].run] :
             \/ name \in files[job[id].run] \/ name = OwnName(id) \/ name = TempName(id)
        /\ \A name \in files[job[id].run] :
             \/ name \in files'[job[id].run] \/ name = OwnName(id) \/ name = TempName(id)
    BY <1>11, DoesAccept
  <2>3. \A s \in st'[job[id].run].stray :
          \/ s \in st[job[id].run].stray \/ s = StrayOf(id, TRUE) \/ s = StrayOf(id, FALSE)
    BY <1>11, DoesAccept
  <2>4. QED
    BY <2>1, <2>2, <2>3, TidyJob
<1>12. CASE discard(id)
  <2>1. /\ Frame(id, job[id].run) /\ job'[id].pc # "New"
    BY <1>12, DoesDiscard DEF IsOver
  <2>2. /\ \A name \in files'[job[id].run] :
             \/ name \in files[job[id].run] \/ name = OwnName(id) \/ name = TempName(id)
        /\ \A name \in files[job[id].run] :
             \/ name \in files'[job[id].run] \/ name = OwnName(id) \/ name = TempName(id)
    BY <1>12, DoesDiscard
  <2>3. \A s \in st'[job[id].run].stray :
          \/ s \in st[job[id].run].stray \/ s = StrayOf(id, TRUE) \/ s = StrayOf(id, FALSE)
    BY <1>12, DoesDiscard
  <2>4. QED
    BY <2>1, <2>2, <2>3, TidyJob
<1>13. CASE acknowledged(id) \/ recovered(id)
  <2>1. PICK life \in Spans, message \in {"Aside", "Acked"}, fromPinned \in BOOLEAN :
          Dated(life) /\ Posted(id) /\ Settles(id, life, message, fromPinned)
    BY <1>13, SettlingLife
  <2>2. /\ Frame(id, job[id].run) /\ job'[id].pc # "New"
        /\ st'[job[id].run] = st[job[id].run] /\ files'[job[id].run] = files[job[id].run]
    BY <2>1, DoesSettle
  <2>3. QED
    BY <2>2, TidyJob
<1>14. QED
  BY <1>1, <1>2, <1>3, <1>4, <1>5, <1>6, <1>7, <1>8, <1>9, <1>10, <1>11, <1>12, <1>13
     DEF Write, Lifetime

LEMMA DirectoriesJob ==
  ASSUME Types, Locks, Directories, NEW id \in Reports, NEW r \in Runs, Frame(id, r), Tidy(id, r)
  PROVE  Directories'
<1>1. /\ taking' = taking /\ sweeping' = sweeping /\ lock' = lock /\ holder' = holder /\ phase' = phase
      /\ \A o \in Reports : o # id => job'[o] = job[o]
      /\ \A o \in Runs : o # r => st'[o] = st[o] /\ files'[o] = files[o]
      /\ phase[r] = "Up" /\ job'[id].run = r
  BY FrameStays
<1>2. /\ job[id].run = r \/ job[id].run = NoRun
      /\ \A o \in Reports : o # id \/ job[id].run = r => job'[o].run = job[o].run
  BY <1>1 DEF Tidy, Directories, JobsHome
<1>3. \A q \in Runs : \A name \in files[q] : name \in Names /\ name.id \in Reports
  BY RunTypes, NameTypes DEF Types
<1>4. \A q \in Runs : \A name \in files[q] : job'[name.id].run = job[name.id].run
  BY <1>1, <1>2, <1>3, StoreAssumption DEF Directories, NamesHome
<1>5. \A q \in Runs : \A name \in files'[q] :
        name \in files[q] \/ (q = r /\ name.id = id /\ (name = OwnName(id) \/ name.kind = "temp"))
  BY <1>1, NameFields DEF Tidy
<1>6. Empties'
  <2>1. r \in lock
    BY <1>1 DEF Locks, LocksHeld, Live
  <2>2. \A q \in Runs : taking[q].step # "None" => taking[q].of \in Runs /\ taking[q].of # r
    BY <1>1 DEF Types, Pointers, Locks, TakersHold
  <2>3. QED
    BY <1>1, <2>1, <2>2 DEF Directories, Empties
<1>7. JobsHome'
  BY <1>1, StoreAssumption DEF Directories, JobsHome, Tidy
<1>8. NamesHome'
  <2> SUFFICES ASSUME NEW q \in Runs, NEW name \in files'[q]
               PROVE  /\ job'[name.id].run \in Runs
                      /\ name.kind # "adopted" => job'[name.id].run = q
                      /\ name.kind = "adopted" => phase'[job'[name.id].run] = "Ended"
    BY DEF NamesHome
  <2>1. CASE name \in files[q]
    BY <1>1, <1>4, <2>1 DEF Directories, NamesHome
  <2>2. CASE name \notin files[q]
    BY <1>1, <1>5, <2>2, NameFields
  <2>3. QED
    BY <2>1, <2>2
<1>9. StraysTemp'
  BY <1>1 DEF Directories, StraysTemp, Tidy
<1>10. Unique'
  <2> SUFFICES ASSUME NEW p \in Runs, NEW q \in Runs, NEW m \in files'[p], NEW n \in files'[q],
                      IsReport(m), IsReport(n), m.id = n.id
               PROVE  p = q /\ m = n
    BY DEF Unique
  \* No other copy of a report that is being written.
  <2>1. ASSUME NEW x \in Runs, NEW c \in files[x], c.id = id, IsReport(c)
        PROVE  x = r /\ c = OwnName(id)
    <3>1. job[id].run \in Runs /\ (c.kind # "adopted" => job[id].run = x)
          /\ (c.kind = "adopted" => phase[job[id].run] = "Ended")
      BY <2>1 DEF Directories, NamesHome
    <3>2. job[id].run = r
      BY <1>2, <3>1, StoreAssumption
    <3>3. c.kind = "own"
      BY <1>1, <1>3, <2>1, <3>1, <3>2, NameTypes DEF IsReport
    <3>4. QED
      BY <1>3, <2>1, <3>1, <3>2, <3>3, NameTypes
  <2>2. m \in files[p] \/ (p = r /\ m = OwnName(id))
    BY <1>5 DEF IsReport
  <2>3. n \in files[q] \/ (q = r /\ n = OwnName(id))
    BY <1>5 DEF IsReport
  <2>4. CASE m.id = id
    BY <2>1, <2>2, <2>3, <2>4
  <2>5. CASE m.id # id
    BY <2>2, <2>3, <2>5, NameFields DEF Directories, Unique
  <2>6. QED
    BY <2>4, <2>5
<1>11. SweepsHome'
  BY <1>1, <1>2, StoreAssumption DEF Directories, SweepsHome, Types, Pointers
<1>12. QED
  BY <1>6, <1>7, <1>8, <1>9, <1>10, <1>11 DEF Directories

\* Names leave a live run's directory, and its entries change.
LEMMA DirectoriesShrink ==
  ASSUME Types, Locks, Directories, NEW r \in Runs, phase[r] = "Up",
         lock' = lock, phase' = phase, taking' = taking,
         \A o \in Runs : o # r => files'[o] = files[o],
         files'[r] \subseteq files[r],
         \A o \in Runs : st'[o].stray \subseteq st[o].stray,
         \A id \in Reports : /\ job'[id].run = job[id].run /\ job'[id].pc = job[id].pc
                             /\ job'[id].own = job[id].own \/ job[id].run = r,
         \A o \in Runs : sweeping'[o].step # "Idle" =>
           phase[o] = "Up" /\ sweeping'[o].id \in Reports /\ job[sweeping'[o].id].run = o
  PROVE  Directories'
<1>1. \A q \in Runs : files'[q] \subseteq files[q]
  OBVIOUS
<1>2. \A q \in Runs : \A name \in files[q] : name.id \in Reports
  BY RunTypes, NameTypes DEF Types
<1>3. Empties'
  <2>1. \A q \in Runs : taking[q].step # "None" => taking[q].of \in Runs /\ taking[q].of # r
    BY DEF Types, Pointers, Locks, TakersHold
  <2>2. QED
    BY <1>1, <2>1 DEF Directories, Empties
<1>4. JobsHome'
  BY DEF Directories, JobsHome
<1>5. NamesHome'
  BY <1>1, <1>2 DEF Directories, NamesHome
<1>6. StraysTemp'
  BY DEF Directories, StraysTemp
<1>7. Unique'
  BY <1>1 DEF Directories, Unique
<1>8. SweepsHome'
  BY DEF Directories, SweepsHome
<1>9. QED
  BY <1>3, <1>4, <1>5, <1>6, <1>7, <1>8 DEF Directories

LEMMA DirectoriesMaintain ==
  ASSUME Types, Locks, Directories, NEW r \in Runs, Maintain(r)
  PROVE  Directories'
<1> USE DEF Types
<1>1. /\ lock' = lock /\ phase' = phase /\ taking' = taking
  BY MaintainFrame
<1>2. \A o \in Runs : sweeping[o].step # "Idle" =>
        phase[o] = "Up" /\ sweeping[o].id \in Reports /\ job[sweeping[o].id].run = o
  BY DEF Directories, SweepsHome, Pointers
<1>3. CASE flush_inventory(r)
  <2>1. phase[r] = "Up" /\ files' = files /\ st' = st /\ sweeping' = sweeping /\ job' = job
    BY <1>3, DoesFlushInventory
  <2>2. QED
    BY <1>1, <1>2, <2>1, DirectoriesShrink
<1>4. ASSUME NEW id \in Reports, sweep_nominate(r, id)
      PROVE  Directories'
  <2>1. /\ phase[r] = "Up" /\ job[id].run = r /\ files' = files /\ st' = st /\ job' = job
        /\ sweeping'[r] = [id |-> id, step |-> "Nominated"]
        /\ \A o \in Runs : o # r => sweeping'[o] = sweeping[o]
    BY <1>4, DoesSweepNominate
  <2>2. \A o \in Runs : sweeping'[o].step # "Idle" =>
          phase[o] = "Up" /\ sweeping'[o].id \in Reports /\ job[sweeping'[o].id].run = o
    BY <1>2, <2>1
  <2>3. QED
    BY <1>1, <2>1, <2>2, DirectoriesShrink
<1>5. CASE sweep_claim(r)
  <2> DEFINE id == sweeping[r].id
  <2>1. /\ sweeping[r].step = "Nominated" /\ id \in Reports /\ files' = files /\ st' = st
        /\ \A o \in Runs : o # r => sweeping'[o] = sweeping[o]
        /\ \A o \in Reports : o # id => job'[o] = job[o]
        /\ job'[id].run = job[id].run /\ job'[id].pc = job[id].pc
        /\ sweeping'[r] = Idle \/ sweeping'[r] = [id |-> id, step |-> "Claimed"]
    BY <1>5, DoesSweepClaim DEF SameBut
  <2>2. phase[r] = "Up" /\ job[id].run = r
    BY <1>2, <2>1
  <2> HIDE DEF id
  <2>3. \A o \in Runs : sweeping'[o].step # "Idle" =>
          phase[o] = "Up" /\ sweeping'[o].id \in Reports /\ job[sweeping'[o].id].run = o
    BY <1>2, <2>1, <2>2 DEF Idle
  <2>4. \A o \in Reports : /\ job'[o].run = job[o].run /\ job'[o].pc = job[o].pc
                           /\ job'[o].own = job[o].own \/ job[o].run = r
    BY <2>1, <2>2
  <2>5. QED
    BY <1>1, <2>1, <2>2, <2>3, <2>4, DirectoriesShrink
<1>6. CASE sweep_unlink(r)
  <2> DEFINE id == sweeping[r].id
  <2>1. /\ sweeping[r].step = "Claimed" /\ id \in Reports /\ job' = job /\ st' = st
        /\ \A o \in Runs : o # r => sweeping'[o] = sweeping[o] /\ files'[o] = files[o]
        /\ files'[r] \subseteq files[r]
        /\ sweeping'[r] = Idle \/ sweeping'[r] = [id |-> id, step |-> "Unlinked"]
    BY <1>6, DoesSweepUnlink
  <2>2. phase[r] = "Up" /\ job[id].run = r
    BY <1>2, <2>1
  <2> HIDE DEF id
  <2>3. \A o \in Runs : sweeping'[o].step # "Idle" =>
          phase[o] = "Up" /\ sweeping'[o].id \in Reports /\ job[sweeping'[o].id].run = o
    BY <1>2, <2>1, <2>2 DEF Idle
  <2>4. QED
    BY <1>1, <2>1, <2>2, <2>3, DirectoriesShrink
<1>7. CASE sweep_drop(r)
  <2> DEFINE id == sweeping[r].id
  <2>1. /\ sweeping[r].step = "Unlinked" /\ id \in Reports /\ files' = files
        /\ \A o \in Runs : o # r => sweeping'[o] = sweeping[o] /\ st'[o] = st[o]
        /\ \A o \in Reports : o # id => job'[o] = job[o]
        /\ job'[id].run = job[id].run /\ job'[id].pc = job[id].pc
        /\ sweeping'[r] = Idle /\ st'[r].stray = st[r].stray
    BY <1>7, DoesSweepDrop DEF SameBut
  <2>2. phase[r] = "Up" /\ job[id].run = r
    BY <1>2, <2>1
  <2> HIDE DEF id
  <2>3. \A o \in Runs : sweeping'[o].step # "Idle" =>
          phase[o] = "Up" /\ sweeping'[o].id \in Reports /\ job[sweeping'[o].id].run = o
    BY <1>2, <2>1, <2>2 DEF Idle
  <2>4. \A o \in Reports : /\ job'[o].run = job[o].run /\ job'[o].pc = job[o].pc
                           /\ job'[o].own = job[o].own \/ job[o].run = r
    BY <2>1, <2>2
  <2>5. \A o \in Runs : st'[o].stray \subseteq st[o].stray
    BY <2>1
  <2>6. QED
    BY <1>1, <2>1, <2>2, <2>3, <2>4, <2>5, DirectoriesShrink
<1>8. CASE sweep_stray(r)
  <2>1. /\ phase[r] = "Up" /\ job' = job /\ sweeping' = sweeping
        /\ \A o \in Runs : o # r => st'[o] = st[o] /\ files'[o] = files[o]
        /\ files'[r] \subseteq files[r] /\ st'[r].stray \subseteq st[r].stray
    BY <1>8, DoesSweepStray
  <2>2. \A o \in Runs : st'[o].stray \subseteq st[o].stray
    BY <2>1
  <2>3. QED
    BY <1>1, <1>2, <2>1, <2>2, DirectoriesShrink
<1>9. CASE sweep_adopted(r)
  <2>1. /\ phase[r] = "Up" /\ job' = job /\ sweeping' = sweeping
        /\ \A o \in Runs : o # r => st'[o] = st[o] /\ files'[o] = files[o]
        /\ files'[r] \subseteq files[r] /\ st'[r].stray = st[r].stray
    BY <1>9, DoesSweepAdopted DEF Adopts
  <2>2. \A o \in Runs : st'[o].stray \subseteq st[o].stray
    BY <2>1
  <2>3. QED
    BY <1>1, <1>2, <2>1, <2>2, DirectoriesShrink
<1>10. QED
  BY <1>3, <1>4, <1>5, <1>6, <1>7, <1>8, <1>9 DEF Maintain

\* Files, jobs and counters as they were: locks, phases and takeovers move on.
LEMMA DirectoriesOpen ==
  ASSUME Types, Directories, files' = files, job' = job, st' = st, sweeping' = sweeping,
         Empties',
         \A r \in Runs : phase[r] \in {"Up", "Ended"} => phase'[r] = phase[r]
  PROVE  Directories'
<1>1. JobsHome'
  BY DEF Directories, JobsHome
<1>2. NamesHome'
  BY DEF Directories, NamesHome
<1>3. StraysTemp' /\ Unique'
  BY DEF Directories, StraysTemp, Unique
<1>4. SweepsHome'
  BY DEF Directories, SweepsHome
<1>5. QED
  BY <1>1, <1>2, <1>3, <1>4 DEF Directories

LEMMA DirectoriesTransfer ==
  ASSUME Types, Locks, Directories, NEW r \in Runs, NEW name \in taking[r].todo, transfer_file(r, name)
  PROVE  Directories'
<1> USE DEF Types
<1> DEFINE v == taking[r].of
           target == AdoptedName(name.id, Deadline(r, name))
<1>1. /\ taking[r].step = "Files" /\ v # r /\ v \in Runs /\ holder[v] = r /\ phase[v] = "Ended"
      /\ phase[r] = "Opening" /\ r \in lock /\ v \in lock
  BY DEF transfer_file, Locks, TakersHold, LocksHeld, Live, Pointers
<1>2. /\ SameTaking(r) /\ taking'[r].todo \subseteq taking[r].todo
      /\ \A o \in Runs : o # r => taking'[o] = taking[o]
      /\ lock' = lock /\ phase' = phase /\ job' = job /\ sweeping' = sweeping
      /\ \A o \in Runs \ {r, v} : files'[o] = files[o]
      /\ \A o \in Runs : o # r => st'[o] = st[o]
      /\ name \in Names
  BY <1>1, DoesTransferFile
<1>3. st'[r].stray = st[r].stray
  BY <1>1, DoesTransferFile DEF Adopts
<1>4. \/ /\ files'[v] = files[v] \ {name} /\ files'[r] = files[r]
         /\ taking'[r].todo = taking[r].todo \ {name}
      \/ /\ IsReport(name) /\ files'[v] = files[v] \ {name} /\ files'[r] = files[r] \cup {target}
         /\ taking'[r].todo = taking[r].todo \ {name}
      \/ files' = files
  BY <1>1, DoesTransferFile
<1>5. name \in files[v]
  BY <1>1 DEF Directories, Empties
<1>6. /\ target.kind = "adopted" /\ target.id = name.id /\ name.id \in Reports
  BY <1>2, NameFields, NameTypes
<1>7. \A q \in Runs : taking[q].step # "None" =>
        taking[q].of \in Runs /\ taking[q].of # r /\ (taking[q].of = v => q = r)
  BY <1>1 DEF Locks, TakersHold, Pointers
<1> HIDE DEF v, target
<1>8. Empties'
  <2>1. \A q \in Runs : phase[q] \in {"Off", "Locked"} => files'[q] = {}
    BY <1>1, <1>2 DEF Directories, Empties
  <2>2. \A q \in Runs : files'[q] # {} => q \in lock
    BY <1>1, <1>2 DEF Directories, Empties
  <2>3. \A q \in Runs : taking'[q].step = "Files" => taking'[q].todo \subseteq files'[taking'[q].of]
    <3> SUFFICES ASSUME NEW q \in Runs, taking'[q].step = "Files"
                 PROVE  taking'[q].todo \subseteq files'[taking'[q].of]
      OBVIOUS
    <3>1. CASE q = r
      <4>1. taking'[q].of = v /\ taking[r].todo \subseteq files[v]
        BY <1>1, <1>2, <3>1 DEF SameTaking, Directories, Empties, v
      <4>2. QED
        BY <1>2, <1>4, <3>1, <4>1
    <3>2. CASE q # r
      <4>1. taking'[q] = taking[q] /\ taking[q].of \in Runs \ {r, v}
        BY <1>2, <1>7, <3>2
      <4>2. QED
        BY <1>2, <4>1 DEF Directories, Empties
    <3>3. QED
      BY <3>1, <3>2
  <2>4. \A q \in Runs : taking'[q].step \in {"Inventory", "Dir", "Lock"} => files'[taking'[q].of] = {}
    <3> SUFFICES ASSUME NEW q \in Runs, taking'[q].step \in {"Inventory", "Dir", "Lock"}
                 PROVE  files'[taking'[q].of] = {}
      OBVIOUS
    <3>1. q # r
      BY <1>1, <1>2 DEF SameTaking
    <3>2. taking'[q] = taking[q] /\ taking[q].of \in Runs \ {r, v}
      BY <1>2, <1>7, <3>1
    <3>3. QED
      BY <1>2, <3>2 DEF Directories, Empties
  <2>5. QED
    BY <1>2, <2>1, <2>2, <2>3, <2>4 DEF Empties
<1>9. JobsHome'
  BY <1>2 DEF Directories, JobsHome
<1>10. \A q \in Runs : \A m \in files'[q] :
         m \in files[q] \/ (q = r /\ m = target /\ IsReport(name) /\ name \notin files'[v])
  BY <1>1, <1>2, <1>4
<1>11. NamesHome'
  <2> SUFFICES ASSUME NEW q \in Runs, NEW m \in files'[q]
               PROVE  /\ job[m.id].run \in Runs
                      /\ m.kind # "adopted" => job[m.id].run = q
                      /\ m.kind = "adopted" => phase[job[m.id].run] = "Ended"
    BY <1>2 DEF NamesHome
  <2>1. CASE m \in files[q]
    BY <2>1 DEF Directories, NamesHome
  <2>2. CASE m = target
    BY <1>1, <1>5, <1>6, <2>2 DEF Directories, NamesHome
  <2>3. QED
    BY <1>10, <2>1, <2>2
<1>12. StraysTemp'
  BY <1>2, <1>3 DEF Directories, StraysTemp
<1>13. Unique'
  <2> SUFFICES ASSUME NEW p \in Runs, NEW q \in Runs, NEW m \in files'[p], NEW n \in files'[q],
                      IsReport(m), IsReport(n), m.id = n.id
               PROVE  p = q /\ m = n
    BY DEF Unique
  <2>1. ASSUME NEW x \in Runs, NEW c \in files'[x], c.id = name.id, IsReport(c), IsReport(name),
               name \notin files'[v]
        PROVE  c \notin files[x]
    <3>1. c \in files[x] => x = v /\ c = name
      BY <1>1, <1>5, <2>1 DEF Directories, Unique
    <3>2. QED
      BY <2>1, <3>1
  <2>2. CASE m \in files[p] /\ n \in files[q]
    BY <2>2 DEF Directories, Unique
  <2>3. CASE m \notin files[p]
    <3>1. p = r /\ m = target /\ IsReport(name) /\ name \notin files'[v]
      BY <1>10, <2>3
    <3>2. n \notin files[q]
      BY <1>6, <2>1, <3>1
    <3>3. q = r /\ n = target
      BY <1>10, <3>2
    <3>4. QED
      BY <3>1, <3>3
  <2>4. CASE n \notin files[q]
    <3>1. q = r /\ n = target /\ IsReport(name) /\ name \notin files'[v]
      BY <1>10, <2>4
    <3>2. m \notin files[p]
      BY <1>6, <2>1, <3>1
    <3>3. p = r /\ m = target
      BY <1>10, <3>2
    <3>4. QED
      BY <3>1, <3>3
  <2>5. QED
    BY <2>2, <2>3, <2>4
<1>14. SweepsHome'
  BY <1>2 DEF Directories, SweepsHome
<1>15. QED
  BY <1>8, <1>9, <1>11, <1>12, <1>13, <1>14 DEF Directories

LEMMA DirectoriesCrash ==
  ASSUME Types, Locks, Directories, NEW r \in Runs, Crash(r)
  PROVE  Directories'
<1> USE DEF Types
<1>1. /\ phase[r] \in {"Locked", "Opening", "Up"} /\ phase'[r] = "Ended"
      /\ lock' = lock /\ files' = files
      /\ st'[r] = NoCounts /\ taking'[r] = NoTaking /\ sweeping'[r] = Idle
      /\ \A o \in Runs : o # r => /\ phase'[o] = phase[o] /\ st'[o] = st[o]
                                  /\ taking'[o] = taking[o] /\ sweeping'[o] = sweeping[o]
      /\ \A id \in Reports : IF job[id].run = r THEN Dead(id, r) ELSE job'[id] = job[id]
  BY DoesCrash
<1>2. \A id \in Reports : job'[id].run = job[id].run
  BY <1>1 DEF Dead
<1>3. \A o \in Runs : phase[o] \in {"Up", "Ended"} => phase'[o] \in {"Up", "Ended"}
  BY <1>1
<1>4. \A o \in Runs : phase[o] = "Ended" => o # r /\ phase'[o] = "Ended"
  BY <1>1
<1>5. taking'[r].step = "None" /\ sweeping'[r].step = "Idle"
  BY <1>1 DEF NoTaking, Idle
<1>6. Empties'
  BY <1>1, <1>5 DEF Directories, Empties
<1>7. JobsHome'
  <2> SUFFICES ASSUME NEW id \in Reports
               PROVE  /\ job'[id].pc = "New" <=> job'[id].run = NoRun
                      /\ job'[id].run \in Runs => phase'[job'[id].run] \in {"Up", "Ended"}
                      /\ job'[id].run \in Runs /\ phase'[job'[id].run] = "Ended" =>
                           job'[id].pc = "Gone" /\ job'[id].own = Nothing
    BY DEF JobsHome
  <2>1. CASE job[id].run = r
    BY <1>1, <1>2, <2>1, StoreAssumption DEF Dead
  <2>2. CASE job[id].run # r
    BY <1>1, <2>2 DEF Directories, JobsHome
  <2>3. QED
    BY <2>1, <2>2
<1>8. NamesHome'
  <2>1. \A q \in Runs : \A name \in files[q] : name.id \in Reports
    BY RunTypes, NameTypes
  <2>2. QED
    BY <1>1, <1>2, <1>4, <2>1 DEF Directories, NamesHome
<1>9. StraysTemp'
  BY <1>1 DEF Directories, StraysTemp, NoCounts
<1>10. Unique'
  BY <1>1 DEF Directories, Unique
<1>11. SweepsHome'
  BY <1>1, <1>2, <1>5 DEF Directories, SweepsHome, Pointers
<1>12. QED
  BY <1>6, <1>7, <1>8, <1>9, <1>10, <1>11 DEF Directories

LEMMA DirectoriesStep ==
  ASSUME Types, Locks, Directories, [Next]_vars
  PROVE  Directories'
<1> USE DEF Types
<1>1. ASSUME NEW id \in Reports, Write(id) \/ Lifetime(id) PROVE Directories'
  BY <1>1, JobTidy, DirectoriesJob
<1>2. ASSUME NEW r \in Runs, Maintain(r) PROVE Directories'
  BY <1>2, DirectoriesMaintain
<1>3. ASSUME NEW r \in Runs, open_lock(r) PROVE Directories'
  <2>1. /\ phase[r] = "Off" /\ phase'[r] = "Locked" /\ lock' = lock \cup {r}
        /\ taking'[r].of = taking[r].of /\ taking'[r].step = taking[r].step
        /\ taking'[r].todo = taking[r].todo
        /\ \A o \in Runs : o # r => phase'[o] = phase[o] /\ taking'[o] = taking[o]
        /\ files' = files /\ job' = job /\ st' = st /\ sweeping' = sweeping
    BY <1>3, DoesOpenLock
  <2>2. Empties'
    BY <2>1 DEF Directories, Empties
  <2>3. QED
    BY <2>1, <2>2, DirectoriesOpen
<1>4. ASSUME NEW r \in Runs, open_dir(r) PROVE Directories'
  <2>1. /\ phase[r] = "Locked" /\ phase'[r] = "Opening" /\ lock' = lock /\ taking' = taking
        /\ \A o \in Runs : o # r => phase'[o] = phase[o]
        /\ files' = files /\ job' = job /\ st' = st /\ sweeping' = sweeping
    BY <1>4, DoesOpenDir
  <2>2. Empties'
    BY <2>1 DEF Directories, Empties
  <2>3. QED
    BY <2>1, <2>2, DirectoriesOpen
<1>5. ASSUME NEW r \in Runs, NEW v \in Runs, take_over(r, v) PROVE Directories'
  <2>1. /\ taking[r].step = "None" /\ lock' = lock /\ phase' = phase
        /\ \A o \in Runs : o # r => taking'[o] = taking[o]
        /\ files' = files /\ job' = job /\ st' = st /\ sweeping' = sweeping
        /\ \/ taking'[r].step = "None"
           \/ taking'[r].step = "Files" /\ taking'[r].of = v /\ taking'[r].todo = files[v]
    BY <1>5, DoesTakeOver DEF SameTaking
  <2>2. Empties'
    BY <2>1 DEF Directories, Empties
  <2>3. QED
    BY <2>1, <2>2, DirectoriesOpen
<1>6. ASSUME NEW r \in Runs, NEW name \in taking[r].todo, transfer_file(r, name) PROVE Directories'
  BY <1>6, DirectoriesTransfer
<1>7. ASSUME NEW r \in Runs, Frees(r), phase' = phase,
             lock' = lock \/ (lock' = lock \ {taking[r].of} /\ files[taking[r].of] = {}),
             files' = files, job' = job, st' = st, sweeping' = sweeping
      PROVE  Directories'
  <2>1. taking'[r].step = "None" /\ \A o \in Runs : o # r => taking'[o] = taking[o]
    BY <1>7 DEF Frees, Untaken
  <2>2. Empties'
    BY <1>7, <2>1 DEF Directories, Empties
  <2>3. QED
    BY <1>7, <2>2, DirectoriesOpen
<1>8. ASSUME NEW r \in Runs, NEW step \in {"Inventory", "Dir", "Lock"}, Advances(r, step), phase' = phase,
             files[taking[r].of] = {}, lock' = lock,
             files' = files, job' = job, st' = st, sweeping' = sweeping
      PROVE  Directories'
  <2>1. /\ taking'[r].step = step /\ taking'[r].of = taking[r].of
        /\ \A o \in Runs : o # r => taking'[o] = taking[o]
    BY <1>8 DEF Advances
  <2>2. Empties'
    BY <1>8, <2>1 DEF Directories, Empties
  <2>3. QED
    BY <1>8, <2>2, DirectoriesOpen
<1>9. ASSUME NEW r \in Runs, retire_begin(r) PROVE Directories'
  BY <1>7, <1>8, <1>9, DoesRetireBegin
<1>10. ASSUME NEW r \in Runs, retire_inventory(r) PROVE Directories'
  <2>1. taking[r].step = "Inventory" /\ files[taking[r].of] = {}
    BY <1>10, DoesRetireInventory DEF Directories, Empties
  <2>2. QED
    BY <1>7, <1>8, <1>10, <2>1, DoesRetireInventory
<1>11. ASSUME NEW r \in Runs, retire_dir(r) PROVE Directories'
  <2>1. taking[r].step = "Dir" /\ files[taking[r].of] = {}
    BY <1>11, DoesRetireDir DEF Directories, Empties
  <2>2. QED
    BY <1>7, <1>8, <1>11, <2>1, DoesRetireDir
<1>12. ASSUME NEW r \in Runs, retire_lock(r) PROVE Directories'
  <2>1. taking[r].step = "Lock" /\ files[taking[r].of] = {}
    BY <1>12, DoesRetireLock DEF Directories, Empties
  <2>2. QED
    BY <1>7, <1>12, <2>1, DoesRetireLock
<1>13. ASSUME NEW r \in Runs, opened(r) PROVE Directories'
  <2>1. /\ phase[r] = "Opening" /\ phase'[r] = "Up" /\ lock' = lock /\ taking'[r].step = "None"
        /\ \A o \in Runs : o # r => phase'[o] = phase[o] /\ taking'[o] = taking[o]
        /\ files' = files /\ job' = job /\ st' = st /\ sweeping' = sweeping
    BY <1>13, DoesOpened DEF NoTaking
  <2>2. Empties'
    BY <2>1 DEF Directories, Empties
  <2>3. QED
    BY <2>1, <2>2, DirectoriesOpen
<1>14. ASSUME NEW r \in Runs, Crash(r) PROVE Directories'
  BY <1>14, DirectoriesCrash
<1>15. CASE Tick \/ UNCHANGED vars
  <2>1. /\ lock' = lock /\ phase' = phase /\ taking' = taking /\ files' = files /\ job' = job
        /\ st' = st /\ sweeping' = sweeping
    BY <1>15, DoesTick DEF vars, disk
  <2>2. Empties'
    BY <2>1 DEF Directories, Empties
  <2>3. QED
    BY <2>1, <2>2, DirectoriesOpen
<1>16. QED
  BY <1>1, <1>2, <1>3, <1>4, <1>5, <1>6, <1>9, <1>10, <1>11, <1>12, <1>13, <1>14, <1>15
     DEF Next, Open

-----------------------------------------------------------------------------
(* The fourth layer: entries.                                               *)

Entry(id) == Kinds(id) /\ Owns(id) /\ Files(id)

LEMMA EntriesByOne ==
  /\ Entries <=> \A id \in Reports : Entry(id)
  /\ Entries' <=> \A id \in Reports : Entry(id)'
  BY DEF Entries, Entry

\* An entry whose job, sweep and file are as they were.
LEMMA EntryFrame ==
  ASSUME NEW id \in Reports, Entry(id), job'[id] = job[id],
         Swept(id, "Claimed")' <=> Swept(id, "Claimed"),
         Swept(id, "Unlinked")' <=> Swept(id, "Unlinked"),
         \/ OwnName(id) \in files'[job[id].run] <=> OwnName(id) \in files[job[id].run]
         \/ job[id].pc = "Gone" /\ job[id].own = Nothing
  PROVE  Entry(id)'
<1>1. Kinds(id)'
  BY DEF Entry, Kinds
<1>2. Owns(id)'
  <2>1. Owns(id)
    BY DEF Entry
  <2> HIDE DEF Swept
  <2>2. QED
    BY <2>1 DEF Owns
<1>3. Files(id)'
  <2>1. Files(id)
    BY DEF Entry
  <2>2. CASE OwnName(id) \in files'[job[id].run] <=> OwnName(id) \in files[job[id].run]
    BY <2>1, <2>2 DEF Files, OwnName
  <2>3. CASE job[id].pc = "Gone" /\ job[id].own = Nothing
    BY <2>3, SpanTypes DEF Files, Tracked, Orphan, Nothing
  <2>4. QED
    BY <2>2, <2>3
<1>4. QED
  BY <1>1, <1>2, <1>3 DEF Entry

\* A job's step leaves the other entries alone.
LEMMA EntriesOthers ==
  ASSUME Types, Directories, Entries, NEW id \in Reports, NEW r \in Runs, Frame(id, r), Tidy(id, r),
         Entry(id)'
  PROVE  Entries'
<1> SUFFICES ASSUME NEW o \in Reports, o # id
             PROVE  Entry(o)'
  BY EntriesByOne
<1>1. /\ sweeping' = sweeping /\ job'[o] = job[o]
      /\ \A q \in Runs : q # r => files'[q] = files[q]
  BY FrameStays
<1>2. /\ Swept(o, "Claimed")' <=> Swept(o, "Claimed")
      /\ Swept(o, "Unlinked")' <=> Swept(o, "Unlinked")
  BY <1>1 DEF Swept
<1>3. job[o].run = NoRun => job[o].pc = "New"
  BY DEF Directories, JobsHome
<1>4. CASE job[o].run \in Runs
  <2>1. OwnName(o) \in files'[job[o].run] <=> OwnName(o) \in files[job[o].run]
    BY <1>1, <1>4, NameFields DEF Tidy
  <2>2. QED
    BY <1>1, <1>2, <2>1, EntryFrame, EntriesByOne
<1>5. CASE job[o].run \notin Runs
  <2>1. job[o].pc = "New" /\ job[o] = NoJob
    BY <1>3, <1>5, JobTypes, EntriesByOne DEF Types, Entry, Kinds
  <2>2. job'[o].pc = "New" /\ job'[o].kind = "None" /\ job'[o].own = Nothing /\ job'[o].run \notin Runs
        /\ job'[o] = NoJob /\ ~job'[o].again
    BY <1>1, <1>5, <2>1 DEF NoJob
  <2>3. QED
    BY <2>2, SpanTypes DEF Entry, Kinds, Owns, Files, Swept, Trying, Tracked, Orphan, Nothing
<1>6. QED
  BY <1>4, <1>5

LEMMA SpanFacts ==
  /\ Nothing # Orphan /\ Nothing # Pinned /\ Orphan # Pinned
  /\ ~Tracked(Nothing) /\ ~Tracked(Orphan) /\ Tracked(Pinned)
  /\ ~Dated(Nothing) /\ ~Dated(Orphan) /\ ~Dated(Pinned)
  BY DEF Nothing, Orphan, Pinned, Tracked, Dated

LEMMA SweptStays ==
  ASSUME NEW id \in Reports, sweeping' = sweeping, job'[id].run = job[id].run, NEW step
  PROVE  Swept(id, step)' <=> Swept(id, step)
  BY DEF Swept

\* Files that stay, with the entry that names them, of a save not at its link.
LEMMA FilesStay ==
  ASSUME NEW id \in Reports, Files(id),
         job'[id].run = job[id].run, job'[id].own = job[id].own, job'[id].pc # "Linked",
         files'[job[id].run] = files[job[id].run],
         Swept(id, "Unlinked")' <=> Swept(id, "Unlinked")
  PROVE  Files(id)'
  BY DEF Files

\* The entry of the job that moved.
LEMMA EntryStep ==
  ASSUME Types, Directories, Entries, NEW id \in Reports, Write(id) \/ Lifetime(id)
  PROVE  Entry(id)'
<1> USE DEF Types
<1>1. Kinds(id) /\ Owns(id) /\ Files(id)
  BY DEF Entries
<1>2. ASSUME Frame(id, job[id].run)
      PROVE  /\ Swept(id, "Claimed")' <=> Swept(id, "Claimed")
             /\ Swept(id, "Unlinked")' <=> Swept(id, "Unlinked")
             /\ job'[id].run = job[id].run
  BY <1>2, FrameStays, SweptStays
<1>3. ASSUME NEW r \in Runs, NEW kind \in {"Report", "Dispatch"}, reserve(r, id, kind)
      PROVE  Entry(id)'
  <2>1. /\ job[id].pc = "New" /\ job'[id].pc = "Reserved" /\ job'[id].kind = kind
        /\ job'[id].again = job[id].again /\ job'[id].own = job[id].own /\ job'[id].run = r
        /\ sweeping' = sweeping
    BY <1>3, DoesReserve, FrameStays DEF SameLife
  <2>2. job'[id].own = Nothing /\ ~job'[id].again /\ job[id].run = NoRun
    BY <1>1, <2>1 DEF Kinds, NoJob
  <2>3. \A step : step # "Idle" => ~Swept(id, step)'
    <3>1. sweeping[r].step # "Idle" => job[sweeping[r].id].run = r
      BY DEF Directories, SweepsHome
    <3>2. QED
      BY <2>1, <2>2, <3>1, StoreAssumption DEF Swept
  <2>4. Kinds(id)'
    BY <2>1, <2>2 DEF Kinds
  <2>5. Owns(id)'
    BY <2>1, <2>2, <2>3 DEF Owns
  <2>6. Files(id)'
    BY <2>1, <2>2, SpanFacts DEF Files
  <2>7. QED
    BY <2>4, <2>5, <2>6 DEF Entry
<1>4. CASE release(id)
  <2>1. /\ Swept(id, "Claimed")' <=> Swept(id, "Claimed")
        /\ Swept(id, "Unlinked")' <=> Swept(id, "Unlinked")
        /\ job'[id].run = job[id].run
    BY <1>2, <1>4, DoesRelease
  <2>2. Kinds(id)'
    BY <1>1, <1>4, DoesRelease DEF Kinds, Trying, IsOver
  <2>3. Owns(id)'
    BY <1>1, <1>4, <2>1, DoesRelease, SpanFacts DEF Owns, Kinds, Files, Trying, IsOver
  <2>4. Files(id)'
    <3>1. /\ job'[id].own = job[id].own /\ job'[id].pc # "Linked"
          /\ files'[job[id].run] = files[job[id].run]
      BY <1>4, DoesRelease DEF IsOver
    <3>2. QED
      BY <1>1, <2>1, <3>1, FilesStay
  <2>5. QED
    BY <2>2, <2>3, <2>4 DEF Entry
<1>5. CASE write_temp(id)
  <2>1. /\ Swept(id, "Claimed")' <=> Swept(id, "Claimed")
        /\ Swept(id, "Unlinked")' <=> Swept(id, "Unlinked")
        /\ job'[id].run = job[id].run
    BY <1>2, <1>5, DoesWriteTemp
  <2>2. Kinds(id)'
    BY <1>1, <1>5, DoesWriteTemp DEF Kinds, Trying, SameLife, SameTry
  <2>3. Owns(id)'
    BY <1>1, <1>5, <2>1, DoesWriteTemp, SpanFacts DEF Owns, Kinds, Files, Trying, SameLife, SameTry
  <2>4. Files(id)'
    BY <1>1, <1>5, <2>1, DoesWriteTemp, SpanFacts, NameFields DEF Owns, Kinds, Files, Trying, SameLife, SameTry
  <2>5. QED
    BY <2>2, <2>3, <2>4 DEF Entry
<1>6. CASE write_link(id)
  <2>1. /\ Swept(id, "Claimed")' <=> Swept(id, "Claimed")
        /\ Swept(id, "Unlinked")' <=> Swept(id, "Unlinked")
        /\ job'[id].run = job[id].run
    BY <1>2, <1>6, DoesWriteLink
  <2>2. Kinds(id)'
    BY <1>1, <1>6, DoesWriteLink DEF Kinds, Trying, SameLife, SameTry
  <2>3. Owns(id)'
    BY <1>1, <1>6, <2>1, DoesWriteLink, SpanFacts DEF Owns, Kinds, Files, Trying, SameLife, SameTry
  <2>4. Files(id)'
    BY <1>1, <1>6, <2>1, DoesWriteLink, SpanFacts, NameFields DEF Owns, Kinds, Files, Trying, SameLife, SameTry
  <2>5. QED
    BY <2>2, <2>3, <2>4 DEF Entry
<1>7. CASE write_saved(id)
  <2>1. /\ Swept(id, "Claimed")' <=> Swept(id, "Claimed")
        /\ Swept(id, "Unlinked")' <=> Swept(id, "Unlinked")
        /\ job'[id].run = job[id].run
    BY <1>2, <1>7, DoesWriteSaved
  <2>2. Kinds(id)'
    BY <1>1, <1>7, DoesWriteSaved DEF Kinds, Trying
  <2>3. Owns(id)'
    <3>1. ~Swept(id, "Claimed")
      <4>1. Swept(id, "Claimed") => ~Swept(id, "Unlinked")
        BY DEF Swept
      <4>2. job[id].pc = "Linked"
        BY <1>7, DoesWriteSaved
      <4>3. QED
        BY <1>1, <4>1, <4>2, SpanFacts DEF Owns, Files
    <3>2. QED
      BY <1>1, <1>7, <2>1, <3>1, DoesWriteSaved, SpanFacts DEF Owns, Kinds, Trying
  <2>4. Files(id)'
    <3>1. /\ job[id].pc = "Linked" /\ job'[id].own = Pinned /\ job'[id].pc # "Linked"
          /\ files'[job[id].run] = files[job[id].run]
      BY <1>7, DoesWriteSaved
    <3>2. QED
      BY <1>1, <2>1, <3>1, SpanFacts DEF Files
  <2>5. QED
    BY <2>2, <2>3, <2>4 DEF Entry
<1>8. CASE write_failed(id)
  <2>1. /\ Swept(id, "Claimed")' <=> Swept(id, "Claimed")
        /\ Swept(id, "Unlinked")' <=> Swept(id, "Unlinked")
        /\ job'[id].run = job[id].run
    BY <1>2, <1>8, DoesWriteFailed
  <2>2. Kinds(id)'
    BY <1>1, <1>8, DoesWriteFailed DEF Kinds, Trying, IsOver, SameTry
  <2>3. Owns(id)'
    BY <1>1, <1>8, <2>1, DoesWriteFailed, SpanFacts DEF Owns, Kinds, Files, Trying, IsOver, SameTry
  <2>4. Files(id)'
    <3>1. PICK ownStays \in BOOLEAN :
            /\ ownStays => job[id].pc = "Linked"
            /\ OwnName(id) \in files[job[id].run] /\ (job[id].pc = "Linked" => ownStays) =>
                 OwnName(id) \in files'[job[id].run]
            /\ job'[id].own = (IF ownStays THEN Orphan ELSE job[id].own)
      <4>1. PICK tempStays, ownStays \in BOOLEAN :
              /\ ownStays => job[id].pc = "Linked"
              /\ files'[job[id].run] =
                   files[job[id].run]
                     \ ((IF tempStays THEN {} ELSE {TempName(id)})
                          \cup (IF job[id].pc = "Linked" /\ ~ownStays THEN {OwnName(id)} ELSE {}))
              /\ job'[id].own = (IF ownStays THEN Orphan ELSE job[id].own)
        BY <1>8, DoesWriteFailed
      <4>2. OwnName(id) # TempName(id)
        BY NameFields
      <4>3. QED
        BY <4>1, <4>2
    <3>2. job[id].pc \in {"Reserved", "Temp", "Linked"} /\ job'[id].pc # "Linked"
      BY <1>8, DoesWriteFailed DEF IsOver
    <3>3. job[id].own \in {Nothing, Orphan}
      BY <1>1, <3>2 DEF Owns, Trying
    <3>4. CASE ownStays
      BY <1>1, <2>1, <3>1, <3>2, <3>4, SpanFacts DEF Files
    <3>5. CASE ~ownStays
      BY <1>1, <2>1, <3>1, <3>2, <3>3, <3>5, SpanFacts DEF Files
    <3>6. QED
      BY <3>4, <3>5
  <2>5. QED
    BY <2>2, <2>3, <2>4 DEF Entry
<1>9. CASE save_held(id)
  <2>1. /\ Swept(id, "Claimed")' <=> Swept(id, "Claimed")
        /\ Swept(id, "Unlinked")' <=> Swept(id, "Unlinked")
        /\ job'[id].run = job[id].run
    BY <1>2, <1>9, DoesSaveHeld
  <2>2. Kinds(id)'
    BY <1>1, <1>9, DoesSaveHeld DEF Kinds, Trying, SameTry
  <2>3. Owns(id)'
    BY <1>1, <1>9, <2>1, DoesSaveHeld, SpanFacts DEF Owns, Kinds, Files, Trying, SameTry
  <2>4. Files(id)'
    <3>1. /\ job'[id].own = job[id].own /\ job'[id].pc # "Linked"
          /\ files'[job[id].run] = files[job[id].run]
      BY <1>9, DoesSaveHeld
    <3>2. QED
      BY <1>1, <2>1, <3>1, FilesStay
  <2>5. QED
    BY <2>2, <2>3, <2>4 DEF Entry
<1>10. CASE retry_held(id)
  <2>1. /\ Swept(id, "Claimed")' <=> Swept(id, "Claimed")
        /\ Swept(id, "Unlinked")' <=> Swept(id, "Unlinked")
        /\ job'[id].run = job[id].run
    BY <1>2, <1>10, DoesRetryHeld
  <2>2. Kinds(id)'
    BY <1>1, <1>10, DoesRetryHeld DEF Kinds, Trying, SameLife
  <2>3. Owns(id)'
    BY <1>1, <1>10, <2>1, DoesRetryHeld, SpanFacts DEF Owns, Kinds, Files, Trying, SameLife
  <2>4. Files(id)'
    <3>1. /\ job'[id].own = job[id].own /\ job'[id].pc # "Linked"
          /\ files'[job[id].run] = files[job[id].run]
      BY <1>10, DoesRetryHeld DEF SameLife
    <3>2. QED
      BY <1>1, <2>1, <3>1, FilesStay
  <2>5. QED
    BY <2>2, <2>3, <2>4 DEF Entry
<1>11. CASE end_held(id)
  <2>1. /\ Swept(id, "Claimed")' <=> Swept(id, "Claimed")
        /\ Swept(id, "Unlinked")' <=> Swept(id, "Unlinked")
        /\ job'[id].run = job[id].run
    BY <1>2, <1>11, DoesEndHeld
  <2>2. Kinds(id)'
    BY <1>1, <1>11, DoesEndHeld DEF Kinds, Trying, IsOver
  <2>3. Owns(id)'
    BY <1>1, <1>11, <2>1, DoesEndHeld, SpanFacts DEF Owns, Kinds, Files, Trying, IsOver
  <2>4. Files(id)'
    <3>1. /\ job'[id].own = job[id].own /\ job'[id].pc # "Linked"
          /\ files'[job[id].run] = files[job[id].run]
      BY <1>11, DoesEndHeld DEF IsOver
    <3>2. QED
      BY <1>1, <2>1, <3>1, FilesStay
  <2>5. QED
    BY <2>2, <2>3, <2>4 DEF Entry
<1>12. CASE continue_lifetime(id)
  <2>1. /\ Swept(id, "Claimed")' <=> Swept(id, "Claimed")
        /\ Swept(id, "Unlinked")' <=> Swept(id, "Unlinked")
        /\ job'[id].run = job[id].run
    BY <1>2, <1>12, DoesContinueLifetime
  <2>2. Kinds(id)'
    BY <1>1, <1>12, DoesContinueLifetime DEF Kinds, Trying
  <2>3. Owns(id)'
    BY <1>1, <1>12, <2>1, DoesContinueLifetime, SpanFacts DEF Owns, Kinds, Files, Trying
  <2>4. Files(id)'
    <3>1. /\ job'[id].pc # "Linked" /\ files'[job[id].run] = files[job[id].run]
          /\ Tracked(job[id].own) \/ job'[id].own = job[id].own
      BY <1>12, DoesContinueLifetime
    <3>2. CASE Tracked(job[id].own)
      BY <1>1, <2>1, <3>1, <3>2 DEF Files
    <3>3. CASE job'[id].own = job[id].own
      BY <1>1, <2>1, <3>1, <3>3, FilesStay
    <3>4. QED
      BY <3>1, <3>2, <3>3
  <2>5. QED
    BY <2>2, <2>3, <2>4 DEF Entry
<1>13. CASE accept(id)
  <2>1. /\ Swept(id, "Claimed")' <=> Swept(id, "Claimed")
        /\ Swept(id, "Unlinked")' <=> Swept(id, "Unlinked")
        /\ job'[id].run = job[id].run
    BY <1>2, <1>13, DoesAccept
  <2>2. Kinds(id)'
    BY <1>1, <1>13, DoesAccept DEF Kinds, Trying, SameLife, SameTry
  <2>3. Owns(id)'
    BY <1>1, <1>13, <2>1, DoesAccept, SpanFacts DEF Owns, Kinds, Files, Trying, SameLife, SameTry
  <2>4. Files(id)'
    BY <1>1, <1>13, <2>1, DoesAccept, SpanFacts, NameFields DEF Owns, Kinds, Files, Trying, SameLife, SameTry
  <2>5. QED
    BY <2>2, <2>3, <2>4 DEF Entry
<1>14. CASE discard(id)
  <2>1. /\ Swept(id, "Claimed")' <=> Swept(id, "Claimed")
        /\ Swept(id, "Unlinked")' <=> Swept(id, "Unlinked")
        /\ job'[id].run = job[id].run
    BY <1>2, <1>14, DoesDiscard
  <2>2. Kinds(id)'
    BY <1>1, <1>14, DoesDiscard DEF Kinds, Trying, IsOver
  <2>3. Owns(id)'
    BY <1>1, <1>14, <2>1, DoesDiscard, SpanFacts DEF Owns, Kinds, Files, Trying, IsOver
  <2>4. Files(id)'
    <3>1. /\ job[id].pc = "Saved" /\ job'[id].pc = "Gone"
          /\ job'[id].own = Nothing
               \/ (job'[id].own = Orphan /\ files'[job[id].run] = files[job[id].run])
      BY <1>14, DoesDiscard DEF IsOver
    <3>2. QED
      BY <1>1, <2>1, <3>1, SpanFacts DEF Owns, Files
  <2>5. QED
    BY <2>2, <2>3, <2>4 DEF Entry
<1>15. CASE acknowledged(id) \/ recovered(id)
  <2>1. PICK life \in Spans, message \in {"Aside", "Acked"}, fromPinned \in BOOLEAN :
          /\ Dated(life) /\ Posted(id) /\ Settles(id, life, message, fromPinned)
    BY <1>15, SettlingLife
  <2>2. /\ Frame(id, job[id].run) /\ SameTry(id) /\ job'[id].pc = job[id].pc
        /\ job[id].pc \in {"Kept", "Held", "Resaved", "Reserved", "Temp", "Linked", "Failed"}
        /\ files'[job[id].run] = files[job[id].run]
        /\ job'[id].own = job[id].own \/ (job'[id].own = life /\ Tracked(job[id].own))
    BY <2>1, DoesSettle DEF Tracked
  <2>3. /\ Swept(id, "Claimed")' <=> Swept(id, "Claimed")
        /\ Swept(id, "Unlinked")' <=> Swept(id, "Unlinked")
        /\ job'[id].run = job[id].run
    BY <1>2, <2>2
  <2>4. life # Orphan /\ life # Nothing /\ Tracked(life)
    BY <2>1, SpanFacts, SpanCases
  <2>5. Kinds(id)'
    BY <1>1, <2>2 DEF Kinds, Trying, SameTry
  <2>6. Owns(id)'
    BY <1>1, <2>2, <2>3, <2>4, SpanFacts DEF Owns, Kinds, Trying, SameTry
  <2>7. Files(id)'
    BY <1>1, <2>2, <2>3, <2>4, SpanFacts DEF Files, Owns, Trying
  <2>8. QED
    BY <2>5, <2>6, <2>7 DEF Entry
<1>16. QED
  BY <1>3, <1>4, <1>5, <1>6, <1>7, <1>8, <1>9, <1>10, <1>11, <1>12, <1>13, <1>14, <1>15
     DEF Write, Lifetime

\* Jobs as they were: what keeps every entry.
LEMMA EntriesStay ==
  ASSUME Types, Entries, job' = job, sweeping' = sweeping,
         \A id \in Reports : job[id].run \in Runs =>
           \/ OwnName(id) \in files'[job[id].run] <=> OwnName(id) \in files[job[id].run]
           \/ job[id].pc = "Gone" /\ job[id].own = Nothing,
         Directories
  PROVE  Entries'
<1> SUFFICES ASSUME NEW o \in Reports
             PROVE  Entry(o)'
  BY EntriesByOne
<1>1. /\ Swept(o, "Claimed")' <=> Swept(o, "Claimed")
      /\ Swept(o, "Unlinked")' <=> Swept(o, "Unlinked")
  BY SweptStays
<1>2. CASE job[o].run \in Runs
  BY <1>1, <1>2, EntryFrame, EntriesByOne
<1>3. CASE job[o].run \notin Runs
  <2>1. job[o].pc = "New" /\ job[o] = NoJob
    BY <1>3, JobTypes, EntriesByOne DEF Types, Entry, Kinds, Directories, JobsHome
  <2>2. job'[o].pc = "New" /\ job'[o].kind = "None" /\ job'[o].own = Nothing /\ job'[o].run \notin Runs
        /\ job'[o] = NoJob /\ ~job'[o].again
    BY <1>3, <2>1 DEF NoJob
  <2>3. QED
    BY <2>2, SpanFacts DEF Entry, Kinds, Owns, Files, Swept, Trying
<1>4. QED
  BY <1>2, <1>3

\* A sweep moves on at its own entry: the others do not notice.
LEMMA EntriesSweep ==
  ASSUME Types, Directories, Entries, NEW r \in Runs, NEW id \in Reports, job[id].run = r,
         \A o \in Reports : o # id => job'[o] = job[o],
         \A o \in Runs : o # r => sweeping'[o] = sweeping[o] /\ files'[o] = files[o],
         sweeping[r].step # "Idle" => sweeping[r].id = id,
         sweeping'[r].step # "Idle" => sweeping'[r].id = id,
         \A name \in Names : name # OwnName(id) => (name \in files'[r] <=> name \in files[r]),
         Entry(id)'
  PROVE  Entries'
<1> SUFFICES ASSUME NEW o \in Reports, o # id
             PROVE  Entry(o)'
  BY EntriesByOne
<1>1. job'[o] = job[o] /\ OwnName(o) # OwnName(id) /\ OwnName(o) \in Names
  BY NameFields, NameTypes
<1>2. /\ Swept(o, "Claimed")' <=> Swept(o, "Claimed")
      /\ Swept(o, "Unlinked")' <=> Swept(o, "Unlinked")
  BY <1>1 DEF Swept
<1>3. CASE job[o].run \in Runs
  <2>1. OwnName(o) \in files'[job[o].run] <=> OwnName(o) \in files[job[o].run]
    BY <1>1, <1>3
  <2>2. QED
    BY <1>1, <1>2, <2>1, EntryFrame, EntriesByOne
<1>4. CASE job[o].run \notin Runs
  <2>1. job[o].pc = "New" /\ job[o] = NoJob
    BY <1>4, JobTypes, EntriesByOne DEF Types, Entry, Kinds, Directories, JobsHome
  <2>2. job'[o].pc = "New" /\ job'[o].kind = "None" /\ job'[o].own = Nothing /\ job'[o].run \notin Runs
        /\ job'[o] = NoJob /\ ~job'[o].again
    BY <1>1, <1>4, <2>1 DEF NoJob
  <2>3. QED
    BY <2>2, SpanFacts DEF Entry, Kinds, Owns, Files, Swept, Trying
<1>5. QED
  BY <1>3, <1>4

LEMMA EntriesMaintain ==
  ASSUME Types, Directories, Entries, NEW r \in Runs, Maintain(r)
  PROVE  Entries'
<1> USE DEF Types
<1>1. \A o \in Runs : sweeping[o].step # "Idle" =>
        phase[o] = "Up" /\ sweeping[o].id \in Reports /\ job[sweeping[o].id].run = o
  BY DEF Directories, SweepsHome, Pointers
<1>2. \A id \in Reports : Kinds(id) /\ Owns(id) /\ Files(id)
  BY DEF Entries
<1>3. CASE flush_inventory(r)
  BY <1>3, DoesFlushInventory, EntriesStay
<1>4. ASSUME NEW id \in Reports, sweep_nominate(r, id)
      PROVE  Entries'
  <2>1. /\ job[id].run = r /\ files' = files /\ job' = job
        /\ sweeping[r] = Idle /\ sweeping'[r] = [id |-> id, step |-> "Nominated"]
        /\ \A o \in Runs : o # r => sweeping'[o] = sweeping[o]
    BY <1>4, DoesSweepNominate
  <2>2. sweeping[r].step = "Idle" /\ sweeping'[r].id = id /\ sweeping'[r].step = "Nominated"
    BY <2>1 DEF Idle
  <2>3. /\ Swept(id, "Claimed")' <=> Swept(id, "Claimed")
        /\ Swept(id, "Unlinked")' <=> Swept(id, "Unlinked")
    BY <2>1, <2>2 DEF Swept
  <2>4. Entry(id)'
    BY <2>1, <2>3, EntryFrame, EntriesByOne
  <2>5. QED
    BY <2>1, <2>2, <2>4, EntriesSweep
<1>5. CASE sweep_claim(r)
  <2>0. PICK id \in Reports : sweeping[r].id = id
    BY <1>1, <1>5 DEF sweep_claim
  <2>1. /\ sweeping[r].step = "Nominated" /\ id \in Reports /\ files' = files
        /\ \A o \in Runs : o # r => sweeping'[o] = sweeping[o]
        /\ \/ /\ due(job[id].own) /\ SameBut(id)
              /\ sweeping'[r] = [id |-> id, step |-> "Claimed"] /\ job'[id].own = Orphan
           \/ sweeping'[r] = Idle /\ job' = job
    BY <1>5, <2>0, DoesSweepClaim
  <2>2. job[id].run = r
    BY <1>1, <2>0, <2>1
  <2>3. /\ ~Swept(id, "Claimed") /\ ~Swept(id, "Unlinked") /\ sweeping[r].id = id
    BY <2>0, <2>1, <2>2 DEF Swept
  <2>4. CASE sweeping'[r] = Idle /\ job' = job
    <3>1. sweeping'[r].step = "Idle"
      BY <2>4 DEF Idle
    <3>2. ~Swept(id, "Claimed")' /\ ~Swept(id, "Unlinked")'
      BY <2>2, <2>4, <3>1 DEF Swept
    <3>3. Entry(id)'
      BY <2>1, <2>3, <2>4, <3>2, EntryFrame, EntriesByOne
    <3>4. QED
      BY <2>1, <2>2, <2>3, <2>4, <3>1, <3>3, EntriesSweep
  <2>5. CASE /\ due(job[id].own) /\ SameBut(id)
             /\ sweeping'[r] = [id |-> id, step |-> "Claimed"] /\ job'[id].own = Orphan
    <3>1. sweeping'[r].id = id /\ sweeping'[r].step = "Claimed"
      BY <2>5
    <3>2. /\ \A o \in Reports : o # id => job'[o] = job[o]
          /\ job'[id].run = r /\ job'[id].pc = job[id].pc /\ job'[id].kind = job[id].kind
          /\ job'[id].again = job[id].again
      BY <2>2, <2>5 DEF SameBut, SameTry
    <3>3. ~Swept(id, "Unlinked")'
      BY <3>1, <3>2 DEF Swept
    <3>4. job[id].own # Nothing /\ job[id].own # Pinned
      BY <2>5, SpanTypes DEF due
    <3>5. job[id].own = Orphan \/ Tracked(job[id].own)
      BY <2>1, <3>4, SpanCases, JobTypes
    <3>6. Kinds(id) /\ Owns(id) /\ Files(id)
      BY <1>2, <2>1
    <3>7. job[id].pc # "Linked" /\ job[id].pc # "New"
      BY <2>3, <3>4, <3>6, SpanFacts DEF Files, Kinds, NoJob
    <3>8. OwnName(id) \in files'[r]
      BY <2>1, <2>2, <2>3, <3>5, <3>6 DEF Files
    <3>9. Kinds(id)'
      BY <3>2, <3>6, <3>7 DEF Kinds
    <3>10. Owns(id)'
      BY <2>5, <3>2, <3>4, <3>6 DEF Owns, Trying
    <3>11. Files(id)'
      BY <2>5, <3>2, <3>7, <3>8, SpanFacts DEF Files
    <3>12. Entry(id)'
      BY <3>9, <3>10, <3>11 DEF Entry
    <3>13. QED
      BY <2>1, <2>2, <2>3, <3>1, <3>2, <3>12, EntriesSweep
  <2>6. QED
    BY <2>1, <2>4, <2>5
<1>6. CASE sweep_unlink(r)
  <2>0. PICK id \in Reports : sweeping[r].id = id
    BY <1>1, <1>6 DEF sweep_unlink
  <2>1. /\ sweeping[r].step = "Claimed" /\ id \in Reports /\ job' = job
        /\ \A o \in Runs : o # r => sweeping'[o] = sweeping[o] /\ files'[o] = files[o]
        /\ \/ /\ files'[r] = files[r] \ {OwnName(id)}
              /\ sweeping'[r] = [id |-> id, step |-> "Unlinked"]
           \/ files'[r] = files[r] /\ sweeping'[r] = Idle
    BY <1>6, <2>0, DoesSweepUnlink
  <2>2. job[id].run = r
    BY <1>1, <2>0, <2>1
  <2>3. /\ Swept(id, "Claimed") /\ ~Swept(id, "Unlinked") /\ sweeping[r].id = id
    BY <2>0, <2>1, <2>2 DEF Swept
  <2>4. Kinds(id) /\ Owns(id) /\ Files(id)
    BY <1>2, <2>1
  <2>5. job[id].own = Orphan /\ job[id].pc # "Linked"
    BY <2>3, <2>4, SpanFacts DEF Owns, Files
  <2>6. ~Swept(id, "Claimed")' /\ (sweeping'[r].step # "Idle" => sweeping'[r].id = id)
        /\ (OwnName(id) \in files'[r] \/ Swept(id, "Unlinked")')
        /\ (sweeping'[r].step = "Idle" => ~Swept(id, "Unlinked")')
        /\ (sweeping'[r].step # "Idle" => Swept(id, "Unlinked")')
    <3>1. CASE /\ files'[r] = files[r] \ {OwnName(id)} /\ sweeping'[r] = [id |-> id, step |-> "Unlinked"]
      BY <2>1, <2>2, <3>1 DEF Swept
    <3>2. CASE files'[r] = files[r] /\ sweeping'[r] = Idle
      BY <2>1, <2>2, <2>3, <2>4, <2>5, <3>2 DEF Swept, Idle, Files
    <3>3. QED
      BY <2>1, <3>1, <3>2
  <2>7. Kinds(id)'
    BY <2>1, <2>4 DEF Kinds
  <2>8. Owns(id)'
    BY <2>1, <2>3, <2>4, <2>5, <2>6 DEF Owns
  <2>9. Files(id)'
    BY <2>1, <2>2, <2>5, <2>6, SpanFacts DEF Files
  <2>10. Entry(id)'
    BY <2>7, <2>8, <2>9 DEF Entry
  <2>11. \A name \in Names : name # OwnName(id) => (name \in files'[r] <=> name \in files[r])
    BY <2>1
  <2>12. QED
    BY <2>1, <2>2, <2>3, <2>6, <2>10, <2>11, EntriesSweep
<1>7. CASE sweep_drop(r)
  <2>0. PICK id \in Reports : sweeping[r].id = id
    BY <1>1, <1>7 DEF sweep_drop
  <2>1. /\ sweeping[r].step = "Unlinked" /\ id \in Reports /\ files' = files
        /\ \A o \in Runs : o # r => sweeping'[o] = sweeping[o]
        /\ SameBut(id) /\ job'[id].own = Nothing /\ sweeping'[r] = Idle
    BY <1>7, <2>0, DoesSweepDrop
  <2>2. job[id].run = r
    BY <1>1, <2>0, <2>1
  <2>3. /\ Swept(id, "Unlinked") /\ sweeping[r].id = id
    BY <2>0, <2>1, <2>2 DEF Swept
  <2>4. Kinds(id) /\ Owns(id) /\ Files(id)
    BY <1>2, <2>1
  <2>5. /\ \A o \in Reports : o # id => job'[o] = job[o]
        /\ job'[id].run = r /\ job'[id].pc = job[id].pc /\ job'[id].kind = job[id].kind
        /\ job'[id].again = job[id].again
    BY <2>1, <2>2 DEF SameBut, SameTry
  <2>6. sweeping'[r].step = "Idle"
    BY <2>1 DEF Idle
  <2>7. ~Swept(id, "Claimed")' /\ ~Swept(id, "Unlinked")'
    BY <2>5, <2>6 DEF Swept
  <2>8. job[id].pc # "New" /\ job[id].pc # "Saved"
    <3>1. job[id].pc # "New"
      BY <2>2, <2>4, StoreAssumption DEF Kinds, NoJob
    <3>2. job[id].pc # "Saved"
      BY <2>3, <2>4 DEF Kinds, Owns
    <3>3. QED
      BY <3>1, <3>2
  <2>9. Kinds(id)'
    BY <2>4, <2>5, <2>8 DEF Kinds
  <2>10. Owns(id)'
    BY <2>1, <2>4, <2>5, <2>7, <2>8 DEF Owns
  <2>11. Files(id)'
    BY <2>1, <2>2, <2>4, <2>5, SpanFacts DEF Files
  <2>12. Entry(id)'
    BY <2>9, <2>10, <2>11 DEF Entry
  <2>13. QED
    BY <2>1, <2>2, <2>3, <2>5, <2>6, <2>12, EntriesSweep
<1>8. CASE sweep_stray(r)
  <2>1. PICK s \in st[r].stray : files'[r] = files[r] \ {s.name}
    BY <1>8, DoesSweepStray
  <2>2. s.name.kind = "temp"
    BY <2>1 DEF Directories, StraysTemp
  <2>3. \A id \in Reports : OwnName(id) # s.name
    BY <2>2, NameFields
  <2>4. QED
    BY <1>8, <2>1, <2>3, DoesSweepStray, EntriesStay
<1>9. CASE sweep_adopted(r)
  <2>1. PICK name \in files[r] : name.kind = "adopted" /\ files'[r] = files[r] \ {name}
    BY <1>9, DoesSweepAdopted
  <2>2. \A id \in Reports : OwnName(id) # name
    BY <2>1, NameFields
  <2>3. QED
    BY <1>9, <2>1, <2>2, DoesSweepAdopted, EntriesStay
<1>10. QED
  BY <1>3, <1>4, <1>5, <1>6, <1>7, <1>8, <1>9 DEF Maintain

LEMMA EntriesStep ==
  ASSUME Types, Locks, Directories, Entries, [Next]_vars
  PROVE  Entries'
<1> USE DEF Types
<1>1. ASSUME NEW id \in Reports, Write(id) \/ Lifetime(id) PROVE Entries'
  <2>1. Entry(id)'
    BY <1>1, EntryStep
  <2>2. QED
    BY <1>1, <2>1, JobTidy, EntriesOthers
<1>2. ASSUME NEW r \in Runs, Maintain(r) PROVE Entries'
  BY <1>2, EntriesMaintain
<1>3. ASSUME NEW r \in Runs, open_lock(r) \/ open_dir(r) \/ opened(r) PROVE Entries'
  BY <1>3, DoesOpenLock, DoesOpenDir, DoesOpened, EntriesStay
<1>4. ASSUME NEW r \in Runs, NEW v \in Runs, take_over(r, v) PROVE Entries'
  BY <1>4, DoesTakeOver, EntriesStay
<1>5. ASSUME NEW r \in Runs, NEW name \in taking[r].todo, transfer_file(r, name) PROVE Entries'
  <2> DEFINE v == taking[r].of
             target == AdoptedName(name.id, Deadline(r, name))
  <2>1. taking[r].step = "Files" /\ v # r /\ v \in Runs /\ phase[v] = "Ended"
    BY <1>5 DEF transfer_file, Locks, TakersHold, Pointers
  <2>2. /\ job' = job /\ sweeping' = sweeping
        /\ \A o \in Runs \ {r, v} : files'[o] = files[o]
        /\ files'[r] = files[r] \/ files'[r] = files[r] \cup {target}
    BY <1>5, <2>1, DoesTransferFile
  <2>3. \A id \in Reports : OwnName(id) # target
    BY NameFields
  <2> HIDE DEF v, target
  <2>4. \A id \in Reports : job[id].run = v => job[id].pc = "Gone" /\ job[id].own = Nothing
    BY <2>1 DEF Directories, JobsHome
  <2>5. \A id \in Reports : job[id].run = r =>
          (OwnName(id) \in files'[r] <=> OwnName(id) \in files[r])
    BY <2>2, <2>3
  <2>6. QED
    BY <2>2, <2>4, <2>5, EntriesStay
<1>6. ASSUME NEW r \in Runs, retire_begin(r) \/ retire_inventory(r) \/ retire_dir(r) \/ retire_lock(r)
      PROVE  Entries'
  BY <1>6, DoesRetireBegin, DoesRetireInventory, DoesRetireDir, DoesRetireLock, EntriesStay
<1>7. ASSUME NEW r \in Runs, Crash(r) PROVE Entries'
  <2>1. /\ files' = files /\ sweeping'[r] = Idle
        /\ \A o \in Runs : o # r => sweeping'[o] = sweeping[o]
        /\ \A id \in Reports : IF job[id].run = r THEN Dead(id, r) ELSE job'[id] = job[id]
    BY <1>7, DoesCrash
  <2> SUFFICES ASSUME NEW id \in Reports
               PROVE  Entry(id)'
    BY EntriesByOne
  <2>2. CASE job[id].run = r
    <3>1. Dead(id, r)
      BY <2>1, <2>2
    <3>2. \A step : step # "Idle" => ~Swept(id, step)'
      BY <2>1, <3>1 DEF Swept, Idle, Dead
    <3>3. QED
      BY <3>1, <3>2, SpanFacts DEF Entry, Kinds, Owns, Files, Dead, Trying
  <2>3. CASE job[id].run # r
    <3>1. job'[id] = job[id]
      BY <2>1, <2>3
    <3>2. /\ Swept(id, "Claimed")' <=> Swept(id, "Claimed")
          /\ Swept(id, "Unlinked")' <=> Swept(id, "Unlinked")
      BY <2>1, <2>3, <3>1 DEF Swept
    <3>3. QED
      BY <2>1, <3>1, <3>2, EntryFrame, EntriesByOne
  <2>4. QED
    BY <2>2, <2>3
<1>8. CASE Tick \/ UNCHANGED vars
  BY <1>8, DoesTick, EntriesStay DEF vars, disk
<1>9. QED
  BY <1>1, <1>2, <1>3, <1>4, <1>5, <1>6, <1>7, <1>8 DEF Next, Open

-----------------------------------------------------------------------------
(* The fifth layer: promises.                                               *)

LEMMA SpanEnds ==
  ASSUME NEW life \in Spans, Dated(life)
  PROVE  /\ Ends(life) = life.since + Retention(life.state) /\ Ends(life) \in Nat
         /\ life.since \in Times /\ life.state # "Pinned"
         /\ life.state = "Recovered" => Ends(life) = life.since + RecoveryRetention
<1>1. life.since \in Times /\ life.state # "Pinned"
  BY SpanCases DEF Dated
<1>2. QED
  BY <1>1, TimeTypes, StoreAssumption DEF Ends, Retention, Dated

LEMMA PromiseTypes ==
  ASSUME Typed, NEW id \in Reports
  PROVE  promise[id] \in Nat /\ now \in Times /\ now \in Nat
  BY JobTypes, TimeTypes DEF Typed

LEMMA PromiseTypesNext ==
  ASSUME Typed', NEW id \in Reports
  PROVE  promise'[id] \in Nat /\ now' \in Times /\ now' \in Nat
<1>1. promise' \in [Reports -> Deadlines \cup {Forever}] /\ now' \in Times
  BY DEF Typed
<1>2. QED
  BY <1>1, TimeTypes

\* A promise whose job, inventory and copies are as they were, at the same
\* time or later.
LEMMA PromiseFrame ==
  ASSUME Types, NEW id \in Reports, Promised(id), JobsHome,
         job'[id] = job[id], promise'[id] = promise[id],
         now <= now', now' \in Nat,
         \A r \in Runs : inventory'[r][id] = inventory[r][id] \/ ~Dated(inventory'[r][id]),
         job[id].run \in Runs => phase'[job[id].run] = phase[job[id].run],
         \A r \in Runs : phase'[r] \in {"Locked", "Opening"} =>
           \/ phase[r] \in {"Locked", "Opening"} /\ taking'[r].at = taking[r].at
           \/ taking'[r].at = now,
         \A r \in Runs : \A name \in files'[r] :
           IsReport(name) /\ name.id = id => name \in files[r],
         promise[id] > now' => \A r \in Runs : \A name \in files[r] :
           IsReport(name) /\ name.id = id => name \in files'[r]
  PROVE  Promised(id)'
<1>1. promise[id] \in Nat /\ now \in Nat
  BY PromiseTypes DEF Types
<1>2. job[id] = NoJob \/ job[id].run \in Runs \/ job[id].pc = "New"
  BY JobTypes DEF Types, JobsHome
<1>3. Ended(id)' <=> Ended(id)
  BY DEF Ended
<1>4. Unpromised(id)'
  BY <1>3 DEF Promised, Unpromised
<1>5. Covered(id)'
  BY <1>1 DEF Promised, Covered, Ends
<1>6. Settled(id)'
  <2>1. Settled(id)
    BY DEF Promised
  <2>2. QED
    BY <2>1 DEF Settled, Agrees
<1>7. Written(id)'
  <2> SUFFICES ASSUME NEW r \in Runs, Dated(inventory'[r][id])
               PROVE  job'[id].run = r /\ Wrote(id, inventory[r][id])'
    BY DEF Written, Dated
  <2> DEFINE life == inventory[r][id]
  <2>1. inventory'[r][id] = life /\ job[id].run = r /\ Wrote(id, life)
    BY DEF Promised, Written
  <2>2. OwnName(id) \in files'[r] => OwnName(id) \in files[r]
    BY NameFields DEF IsReport
  <2> HIDE DEF life
  <2>3. phase'[job'[id].run] = phase[job[id].run]
    BY <2>1
  <2>4. QED
    BY <1>3, <2>1, <2>2, <2>3 DEF Wrote, Agrees, Ends, OwnName
<1>8. Honoured(id)'
  <2>1. Honoured(id)
    BY DEF Promised
  <2>2. Ended(id) => /\ promise[id] <= now' + RecoveryRetention
                     /\ \A r \in Runs : phase'[r] \in {"Locked", "Opening"} =>
                          promise[id] <= taking'[r].at + RecoveryRetention
    BY <1>1, <2>1, StoreAssumption DEF Honoured
  <2>3. \A r \in Runs : \A name \in files'[r] :
          name.kind = "adopted" /\ name.id = id => promise[id] <= name.n
    BY <2>1 DEF Honoured, IsReport
  <2>4. QED
    BY <1>3, <2>2, <2>3 DEF Honoured
<1>9. OnDisk(id)'
  <2>1. OnDisk(id)
    BY DEF Promised
  <2>2. QED
    BY <1>1, <2>1 DEF OnDisk, IsReport
<1>10. QED
  BY <1>4, <1>5, <1>6, <1>7, <1>8, <1>9 DEF Promised

\* Every job as it was.
LEMMA PromisesStay ==
  ASSUME Types, Directories, Promises, job' = job, promise' = promise,
         now <= now', now' \in Nat,
         \A r \in Runs : taking'[r].at <= now',
         \A r \in Runs, id \in Reports :
           inventory'[r][id] = inventory[r][id] \/ ~Dated(inventory'[r][id]),
         \A r \in Runs : phase[r] \in {"Up", "Ended"} => phase'[r] = phase[r],
         \A r \in Runs : phase'[r] \in {"Locked", "Opening"} =>
           \/ phase[r] \in {"Locked", "Opening"} /\ taking'[r].at = taking[r].at
           \/ taking'[r].at = now,
         \A r \in Runs : \A name \in files'[r] : IsReport(name) => name \in files[r],
         \A r \in Runs : \A name \in files[r] :
           IsReport(name) /\ promise[name.id] > now' => name \in files'[r]
  PROVE  Promises'
<1> SUFFICES ASSUME NEW id \in Reports
             PROVE  Promised(id)'
  BY DEF Promises
<1>1. job[id].run \in Runs => phase'[job[id].run] = phase[job[id].run]
  BY DEF Directories, JobsHome
<1>2. Promised(id) /\ JobsHome
  BY DEF Promises, Directories
<1>3. QED
  BY <1>1, <1>2, PromiseFrame

\* A job's step leaves the promises of the others alone.
LEMMA PromisesOthers ==
  ASSUME Types, Directories, Promises, NEW id \in Reports, NEW r \in Runs, Frame(id, r), Tidy(id, r),
         Promised(id)'
  PROVE  Promises'
<1>1. /\ taking' = taking /\ phase' = phase /\ inventory' = inventory /\ now' = now
      /\ \A o \in Reports : o # id => job'[o] = job[o] /\ promise'[o] = promise[o]
      /\ \A o \in Runs : o # r => files'[o] = files[o]
  BY FrameStays
<1>2. now \in Nat
  BY TimeTypes DEF Types, Typed
<1>3. \A q \in Runs : taking'[q].at <= now'
  BY <1>1 DEF Promises
<1>4. ASSUME NEW o \in Reports, o # id PROVE Promised(o)'
  <2>1. \A q \in Runs : \A name \in files'[q] : IsReport(name) /\ name.id = o => name \in files[q]
    BY <1>1, <1>4, NameFields DEF Tidy
  <2>2. \A q \in Runs : \A name \in files[q] : IsReport(name) /\ name.id = o => name \in files'[q]
    BY <1>1, <1>4 DEF Tidy
  <2>3. Promised(o) /\ JobsHome
    BY DEF Promises, Directories
  <2>4. \A q \in Runs : phase'[q] \in {"Locked", "Opening"} =>
           phase[q] \in {"Locked", "Opening"} /\ taking'[q].at = taking[q].at
    BY <1>1
  <2>5. QED
    BY <1>1, <1>2, <1>4, <2>1, <2>2, <2>3, <2>4, PromiseFrame
<1>5. QED
  BY <1>3, <1>4 DEF Promises

\* After a step of a live run's job, no name of the report is another run's.
LEMMA LiveHonoured ==
  ASSUME Directories', NEW id \in Reports, NEW r \in Runs, job'[id].run = r, phase'[r] = "Up"
  PROVE  Honoured(id)' /\ ~Ended(id)'
<1>1. ~Ended(id)'
  BY DEF Ended
<1>2. \A q \in Runs : \A name \in files'[q] : ~(name.kind = "adopted" /\ name.id = id)
  BY DEF Directories, NamesHome
<1>3. QED
  BY <1>1, <1>2 DEF Honoured

\* A job that has no save behind it is in no inventory.
LEMMA Unwritten ==
  ASSUME Directories, NEW id \in Reports, Promised(id), job[id].pc \notin {"Resaved", "Kept"}, ~Ended(id)
  PROVE  \A r \in Runs : ~Dated(inventory[r][id])
<1> SUFFICES ASSUME NEW r \in Runs, Dated(inventory[r][id])
             PROVE  FALSE
  OBVIOUS
<1>1. job[id].run = r /\ Wrote(id, inventory[r][id])
  BY DEF Promised, Written
<1>2. phase[r] = "Up"
  BY <1>1 DEF Directories, JobsHome, Ended
<1>3. QED
  BY <1>1, <1>2 DEF Wrote

LEMMA UnwrittenNext ==
  ASSUME NEW id \in Reports, inventory' = inventory, \A r \in Runs : ~Dated(inventory[r][id])
  PROVE  Written(id)'
  BY DEF Written, Dated

\* A step between two states in which nothing is promised.
LEMMA QuietPromise ==
  ASSUME Types, Types', Directories, Directories', Entries', NEW id \in Reports, Promised(id),
         NEW r \in Runs, Frame(id, r), job[id].run = r \/ job[id].pc = "New",
         job[id].pc \notin {"Resaved", "Kept"}, job'[id].pc \notin {"Resaved", "Kept", "New"},
         promise'[id] = promise[id],
         \/ job'[id].body \in {Nothing, Pinned}
         \/ /\ job'[id].body = job[id].body /\ job'[id].message = job[id].message
            /\ job'[id].recovered = job[id].recovered
  PROVE  Promised(id)'
<1>1. /\ phase' = phase /\ inventory' = inventory /\ now' = now
      /\ phase[r] = "Up" /\ job'[id].run = r
  BY FrameStays
<1>2. ~Ended(id)
  BY <1>1, StoreAssumption DEF Ended, Directories, JobsHome
<1>3. promise[id] = 0 /\ promise'[id] = 0
  BY <1>2 DEF Promised, Unpromised
<1>4. Honoured(id)' /\ ~Ended(id)'
  BY <1>1, LiveHonoured
<1>5. now' \in Nat
  BY PromiseTypesNext DEF Types
<1>6. job'[id].own \in {Nothing, Orphan, Pinned}
  <2>1. Owns(id)'
    BY DEF Entries
  <2>2. job'[id].pc \in Pcs
    BY DEF Types, Typed, Jobs
  <2>3. QED
    BY <2>1, <2>2 DEF Owns, Pcs, Trying
<1>7. Covered(id)'
  BY <1>3, <1>5, <1>6, SpanFacts DEF Covered
<1>8. Settled(id)'
  <2>1. ~Dated(job'[id].own)
    BY <1>6, SpanFacts
  <2>2. Agrees(id, job[id].own)'
    BY <2>1 DEF Agrees, Dated
  <2>3. Agrees(id, job[id].body)'
    <3>1. CASE job'[id].body \in {Nothing, Pinned}
      BY <3>1, SpanFacts DEF Agrees, Dated
    <3>2. CASE /\ job'[id].body = job[id].body /\ job'[id].message = job[id].message
               /\ job'[id].recovered = job[id].recovered
      BY <3>2 DEF Promised, Settled, Agrees
    <3>3. QED
      BY <3>1, <3>2
  <2>4. QED
    BY <2>1, <2>2, <2>3 DEF Settled
<1>9. Written(id)'
  BY <1>1, <1>2, Unwritten, UnwrittenNext
<1>10. OnDisk(id)'
  BY <1>3, <1>5 DEF OnDisk
<1>11. QED
  BY <1>3, <1>4, <1>7, <1>8, <1>9, <1>10 DEF Promised, Unpromised

\* The promise is made: the file is there, pinned.
LEMMA MadePromise ==
  ASSUME Types, Types', Directories, Directories', Entries', NEW id \in Reports, Promised(id),
         NEW r \in Runs, Frame(id, r), job[id].run = r,
         job[id].pc \notin {"Resaved", "Kept"}, job'[id].pc \in {"Resaved", "Kept"},
         job'[id].own = Pinned,
         job'[id].body = job[id].body, job'[id].message = job[id].message,
         job'[id].recovered = job[id].recovered
  PROVE  Promised(id)'
<1>1. /\ phase' = phase /\ inventory' = inventory /\ now' = now
      /\ phase[r] = "Up" /\ job'[id].run = r
  BY FrameStays
<1>2. ~Ended(id)
  BY <1>1 DEF Ended
<1>3. Honoured(id)' /\ ~Ended(id)'
  BY <1>1, LiveHonoured
<1>4. Covered(id)'
  BY SpanFacts DEF Covered
<1>5. Settled(id)'
  <2>1. ~Dated(job'[id].own)
    BY SpanFacts
  <2>2. Agrees(id, job[id].own)'
    BY <2>1 DEF Agrees, Dated
  <2>3. Agrees(id, job[id].body)'
    BY DEF Promised, Settled, Agrees
  <2>4. QED
    BY <2>1, <2>2, <2>3 DEF Settled
<1>6. Written(id)'
  BY <1>1, <1>2, Unwritten, UnwrittenNext
<1>7. OwnName(id) \in files'[r]
  <2>1. Files(id)'
    BY DEF Entries
  <2>2. QED
    BY <1>1, <2>1, SpanFacts DEF Files, OwnName, Tracked
<1>8. OnDisk(id)'
  BY <1>7, NameFields DEF OnDisk, IsReport
<1>9. QED
  BY <1>3, <1>4, <1>5, <1>6, <1>8 DEF Promised, Unpromised

\* A file takes the lifetime its body had.
LEMMA ContinuedPromise ==
  ASSUME Types, Types', Directories', Entries, NEW id \in Reports, Promised(id), continue_lifetime(id)
  PROVE  Promised(id)'
<1> USE DEF Types
<1> DEFINE r == job[id].run
           takes == job[id].body.state # "Pinned" /\ Tracked(job[id].own)
<1>1. /\ Frame(id, r) /\ job[id].pc = "Resaved" /\ job'[id].pc = "Kept"
      /\ job'[id].own = (IF takes THEN job[id].body ELSE job[id].own) /\ job'[id].body = Nothing
      /\ job'[id].message = job[id].message /\ job'[id].recovered = job[id].recovered
      /\ files'[r] = files[r]
      /\ promise'[id] = IF takes THEN Ends(job[id].body) ELSE promise[id]
  BY DoesContinueLifetime
<1>2. /\ phase' = phase /\ inventory' = inventory /\ now' = now
      /\ phase[r] = "Up" /\ job'[id].run = r /\ r \in Runs
      /\ \A o \in Runs : o # r => files'[o] = files[o]
  BY <1>1, FrameStays
<1>3. \A o \in Runs : files'[o] = files[o]
  BY <1>1, <1>2
<1>4. Honoured(id)' /\ ~Ended(id)'
  BY <1>2, LiveHonoured
<1>5. job[id].body \in Spans /\ Tracked(job[id].body) /\ job[id].own \in Spans
  BY <1>1, JobTypes DEF Bodied
<1>6. takes => Dated(job[id].body)
  BY <1>5, SpanCases, SpanTypes
<1>7. Settled(id) /\ Covered(id) /\ Written(id) /\ OnDisk(id) /\ Files(id)
  BY DEF Promised, Entries
<1>8. Agrees(id, job[id].body) /\ Agrees(id, job[id].own)
  BY <1>7 DEF Settled
<1> HIDE DEF r, takes
<1>9. promise[id] \in Nat /\ promise'[id] \in Nat /\ now \in Nat
  BY PromiseTypes, PromiseTypesNext
<1>10. Covered(id)'
  <2>1. CASE takes
    <3>1. job'[id].own = job[id].body /\ promise'[id] = Ends(job[id].body)
      BY <1>1, <2>1
    <3>2. Ends(job[id].own)' = Ends(job[id].body)
      BY <3>1 DEF Ends
    <3>3. QED
      BY <1>6, <1>9, <2>1, <3>1, <3>2, SpanFacts DEF Covered
  <2>2. CASE ~takes
    BY <1>1, <1>2, <1>7, <2>2 DEF Covered, Ends
  <2>3. QED
    BY <2>1, <2>2
<1>11. Settled(id)'
  <2>1. Agrees(id, job[id].own)'
    BY <1>1, <1>8 DEF Agrees
  <2>2. Agrees(id, job[id].body)'
    BY <1>1, SpanFacts DEF Agrees, Dated
  <2>3. QED
    BY <1>1, <2>1, <2>2 DEF Settled
<1>12. Written(id)'
  <2> SUFFICES ASSUME NEW o \in Runs, Dated(inventory'[o][id])
               PROVE  job'[id].run = o /\ Wrote(id, inventory[o][id])'
    BY DEF Written, Dated
  <2>1. PICK life : life = inventory[o][id]
    OBVIOUS
  <2>2. Dated(life) /\ r = o /\ Wrote(id, life) /\ inventory'[o][id] = life
    BY <1>2, <1>7, <2>1 DEF Written, r
  <2>3. Agrees(id, life) /\ (life.state = "Acked" =>
            promise[id] <= Ends(life) /\ (Tracked(job[id].own) => job[id].own = life))
    BY <1>2, <2>2 DEF Wrote, r
  <2>4. Agrees(id, life)'
    BY <1>1, <2>2, <2>3 DEF Agrees
  <2>5. ASSUME life.state = "Acked"
        PROVE  promise'[id] <= Ends(life) /\ (Tracked(job'[id].own) => job'[id].own = life)
    <3>1. CASE takes
      <4>1. job[id].own = life /\ Dated(job[id].own)
        BY <2>2, <2>3, <2>5, <3>1 DEF takes
      <4>2. job[id].body = life
        BY <1>1, <1>7, <4>1 DEF Settled
      <4>3. QED
        BY <1>1, <1>9, <3>1, <4>2
    <3>2. CASE ~takes
      BY <1>1, <2>3, <2>5, <3>2
    <3>3. QED
      BY <3>1, <3>2
  <2>6. Wrote(id, life)'
    BY <1>1, <1>2, <1>4, <2>4, <2>5 DEF Wrote, Ends
  <2>7. QED
    BY <1>2, <2>2, <2>6 DEF Wrote, Agrees, Ends
<1>13. OnDisk(id)'
  <2>1. CASE takes
    <3>1. OwnName(id) \in files'[r]
      BY <1>2, <1>3, <1>7, <2>1 DEF Files, takes, r
    <3>2. QED
      BY <1>2, <3>1, NameFields DEF OnDisk, IsReport
  <2>2. CASE ~takes
    BY <1>1, <1>2, <1>3, <1>7, <2>2 DEF OnDisk
  <2>3. QED
    BY <2>1, <2>2
<1>14. Unpromised(id)'
  BY <1>1 DEF Unpromised
<1>15. QED
  BY <1>4, <1>10, <1>11, <1>12, <1>13, <1>14 DEF Promised

\* The message is acknowledged or set aside.
LEMMA SettledPromise ==
  ASSUME Types, Types', Directories', Entries, Entries', NEW id \in Reports, Promised(id),
         acknowledged(id) \/ recovered(id)
  PROVE  Promised(id)'
<1> USE DEF Types
<1>1. PICK life \in Spans, message \in {"Aside", "Acked"}, fromPinned \in BOOLEAN :
        /\ Dated(life) /\ life.since = now /\ Posted(id)
        /\ Settles(id, life, message, fromPinned)
        /\ IF fromPinned THEN job[id].message = "Open" /\ life.state = "Recovered" /\ message = "Aside"
                         ELSE life.state = "Acked" /\ message = "Acked"
  BY SettlingLife
<1> DEFINE r == job[id].run
           may(old) == IF fromPinned THEN old.state = "Pinned" ELSE Tracked(old)
<1>2. /\ Frame(id, r) /\ SameTry(id) /\ job'[id].pc = job[id].pc
      /\ job[id].pc \in {"Kept", "Held", "Resaved", "Reserved", "Temp", "Linked", "Failed"}
      /\ job'[id].own = (IF may(job[id].own) THEN life ELSE job[id].own)
      /\ job'[id].body = (IF may(job[id].body) THEN life ELSE job[id].body)
      /\ job'[id].message = message
      /\ job'[id].recovered = (IF fromPinned THEN now ELSE job[id].recovered)
      /\ files'[r] = files[r]
      /\ promise'[id] = IF may(job[id].own) THEN Ends(life) ELSE promise[id]
  BY <1>1, DoesSettle
<1>3. /\ phase' = phase /\ inventory' = inventory /\ now' = now
      /\ phase[r] = "Up" /\ job'[id].run = r /\ r \in Runs
      /\ \A o \in Runs : o # r => files'[o] = files[o]
  BY <1>2, FrameStays
<1>4. \A o \in Runs : files'[o] = files[o]
  BY <1>2, <1>3
<1>5. Honoured(id)' /\ ~Ended(id)' /\ ~Ended(id)
  BY <1>3, LiveHonoured DEF Ended
<1>6. job[id].body \in Spans /\ job[id].own \in Spans
  BY JobTypes
<1>7. Settled(id) /\ Covered(id) /\ Written(id) /\ OnDisk(id) /\ Files(id) /\ Owns(id) /\ Unpromised(id)
  BY DEF Promised, Entries
<1>8. Agrees(id, job[id].body) /\ Agrees(id, job[id].own)
  BY <1>7 DEF Settled
<1>9. promise[id] \in Nat /\ promise'[id] \in Nat /\ now \in Nat
  BY PromiseTypes, PromiseTypesNext
<1>10. \A old \in Spans : /\ may(old) => Tracked(old)
                          /\ ~may(old) /\ ~fromPinned => ~Tracked(old)
                          /\ ~may(old) /\ fromPinned => old # Pinned
  BY SpanCases, SpanTypes DEF Tracked
<1>11. fromPinned => ~Dated(job[id].own) /\ ~Dated(job[id].body)
  BY <1>1, <1>8 DEF Agrees
<1>12. may(job[id].own) => job[id].pc \in {"Resaved", "Kept"} /\ OwnName(id) \in files[r]
  BY <1>2, <1>6, <1>7, <1>10, SpanFacts DEF Owns, Trying, Files
<1>13. \A old \in {job[id].own, job[id].body} : ~may(old) => ~Dated(old)
  BY <1>6, <1>10, <1>11, SpanCases
<1> HIDE DEF r, may
<1>14. Covered(id)'
  <2>1. CASE may(job[id].own)
    <3>1. job'[id].own = life /\ promise'[id] = Ends(life) /\ Ends(job[id].own)' = Ends(life)
      BY <1>2, <2>1 DEF Ends
    <3>2. QED
      BY <1>1, <1>9, <3>1, SpanFacts DEF Covered
  <2>2. CASE ~may(job[id].own)
    <3>1. job'[id].own = job[id].own /\ promise'[id] = promise[id] /\ ~Dated(job[id].own)
      BY <1>2, <1>13, <2>2
    <3>2. QED
      BY <1>3, <1>7, <3>1 DEF Covered
  <2>3. QED
    BY <2>1, <2>2
<1>15. Settled(id)'
  <2>1. \A x \in Spans : (x = life \/ ~Dated(x)) =>
          /\ Dated(x) => message # "Open"
          /\ x.state = "Acked" => message = "Acked"
          /\ x.state = "Recovered" => job'[id].recovered = x.since
    BY <1>1, <1>2 DEF Dated
  <2>2. /\ job'[id].own = life \/ ~Dated(job'[id].own)
        /\ job'[id].body = life \/ ~Dated(job'[id].body)
    BY <1>2, <1>13
  <2>3. job'[id].own \in Spans /\ job'[id].body \in Spans
    BY <1>1, <1>2, <1>6
  <2>4. Agrees(id, job[id].own)' /\ Agrees(id, job[id].body)'
    BY <1>2, <2>1, <2>2, <2>3 DEF Agrees
  <2>5. Dated(job'[id].own) => job'[id].pc \in {"Resaved", "Kept"}
    BY <1>2, <1>12, <1>13
  <2>6. ASSUME job'[id].pc = "Resaved", Dated(job'[id].own) PROVE job'[id].body = job'[id].own
    <3>1. may(job[id].own) /\ job'[id].own = life
      BY <1>2, <1>13, <2>6
    <3>2. Tracked(job[id].body)
      BY <1>2, <2>6 DEF Bodied
    <3>3. may(job[id].body)
      BY <1>6, <1>10, <1>11, <3>2, SpanCases
    <3>4. QED
      BY <1>2, <3>1, <3>3
  <2>7. QED
    BY <2>4, <2>5, <2>6 DEF Settled
<1>16. Written(id)'
  <2> SUFFICES ASSUME NEW o \in Runs, Dated(inventory'[o][id])
               PROVE  job'[id].run = o /\ Wrote(id, inventory[o][id])'
    BY DEF Written, Dated
  <2>1. PICK old : old = inventory[o][id]
    OBVIOUS
  <2>2. Dated(old) /\ r = o /\ Wrote(id, old) /\ inventory'[o][id] = old
    BY <1>3, <1>7, <2>1 DEF Written, r
  <2>3. Agrees(id, old) /\ job[id].pc \in {"Resaved", "Kept"}
    BY <1>3, <2>2 DEF Wrote, r
  <2>4. ~fromPinned
    BY <1>1, <2>2, <2>3 DEF Agrees
  <2>5. message = "Acked"
    BY <1>1, <2>4
  <2>6. old.state # "Acked"
    <3>1. job[id].message # "Acked"
      BY <1>1, <2>2, <2>3, <2>4 DEF acknowledged, recovered, Agrees
    <3>2. QED
      BY <2>3, <3>1 DEF Agrees
  <2>7. Agrees(id, old)'
    BY <1>2, <2>3, <2>4, <2>5 DEF Agrees
  <2>8. Wrote(id, old)'
    BY <1>2, <1>5, <2>3, <2>6, <2>7 DEF Wrote
  <2>9. QED
    BY <1>3, <2>2, <2>8 DEF Wrote, Agrees, Ends
<1>17. OnDisk(id)'
  <2>1. CASE may(job[id].own)
    <3>1. OwnName(id) \in files'[r]
      BY <1>3, <1>4, <1>12, <2>1
    <3>2. QED
      BY <1>3, <3>1, NameFields DEF OnDisk, IsReport
  <2>2. CASE ~may(job[id].own)
    BY <1>2, <1>3, <1>4, <1>7, <2>2 DEF OnDisk
  <2>3. QED
    BY <2>1, <2>2
<1>18. Unpromised(id)'
  BY <1>2, <1>5, <1>7, <1>12 DEF Unpromised
<1>19. QED
  BY <1>5, <1>14, <1>15, <1>16, <1>17, <1>18 DEF Promised

LEMMA PromiseStep ==
  ASSUME Types, Types', Directories, Directories', Entries, Entries', NEW id \in Reports, Promised(id),
         Write(id) \/ Lifetime(id)
  PROVE  Promised(id)'
<1> USE DEF Types
<1>1. ASSUME NEW r \in Runs, NEW kind \in {"Report", "Dispatch"}, reserve(r, id, kind)
      PROVE  Promised(id)'
  BY <1>1, DoesReserve, QuietPromise DEF SameLife
<1>2. CASE release(id)
  BY <1>2, DoesRelease, FrameStays, QuietPromise DEF IsOver
<1>3. CASE write_temp(id)
  BY <1>3, DoesWriteTemp, FrameStays, QuietPromise DEF SameLife
<1>4. CASE write_link(id)
  BY <1>4, DoesWriteLink, FrameStays, QuietPromise DEF SameLife
<1>5. CASE write_saved(id)
  <2>1. CASE job[id].kind = "Report"
    <3>1. job'[id].pc = "Saved" /\ promise'[id] = promise[id]
      BY <1>5, <2>1, DoesWriteSaved
    <3>2. QED
      BY <1>5, <3>1, DoesWriteSaved, FrameStays, QuietPromise
  <2>2. CASE job[id].kind # "Report"
    <3>1. job'[id].pc \in {"Resaved", "Kept"}
      BY <1>5, <2>2, DoesWriteSaved
    <3>2. QED
      BY <1>5, <3>1, DoesWriteSaved, FrameStays, MadePromise
  <2>3. QED
    BY <2>1, <2>2
<1>6. CASE write_failed(id)
  <2>1. /\ Frame(id, job[id].run) /\ job[id].pc \in {"Reserved", "Temp", "Linked"}
        /\ promise'[id] = promise[id]
        /\ job'[id].pc \in {"Gone", "Failed"}
        /\ \/ job'[id].body \in {Nothing, Pinned}
           \/ /\ job'[id].body = job[id].body /\ job'[id].message = job[id].message
              /\ job'[id].recovered = job[id].recovered
    BY <1>6, DoesWriteFailed DEF IsOver
  <2>2. QED
    BY <2>1, FrameStays, QuietPromise
<1>7. CASE save_held(id)
  BY <1>7, DoesSaveHeld, FrameStays, QuietPromise
<1>8. CASE retry_held(id)
  BY <1>8, DoesRetryHeld, FrameStays, QuietPromise DEF SameLife
<1>9. CASE end_held(id)
  BY <1>9, DoesEndHeld, FrameStays, QuietPromise DEF IsOver
<1>10. CASE continue_lifetime(id)
  BY <1>10, ContinuedPromise
<1>11. CASE accept(id)
  <2>1. Owns(id) /\ job[id].pc = "Saved"
    BY <1>11, DoesAccept DEF Entries
  <2>2. job'[id].own = Pinned
    BY <1>11, <2>1, DoesAccept DEF Owns, SameLife
  <2>3. QED
    BY <1>11, <2>2, DoesAccept, FrameStays, MadePromise DEF SameLife
<1>12. CASE discard(id)
  BY <1>12, DoesDiscard, FrameStays, QuietPromise DEF IsOver
<1>13. CASE acknowledged(id) \/ recovered(id)
  BY <1>13, SettledPromise
<1>14. QED
  BY <1>1, <1>2, <1>3, <1>4, <1>5, <1>6, <1>7, <1>8, <1>9, <1>10, <1>11, <1>12, <1>13
     DEF Write, Lifetime

\* The inventory is written: what an entry says covers its promise.
LEMMA PromisesFlush ==
  ASSUME Types, Directories, Promises, NEW r \in Runs, flush_inventory(r)
  PROVE  Promises'
<1> USE DEF Types
<1>1. /\ phase[r] = "Up" /\ phase' = phase /\ files' = files /\ taking' = taking /\ job' = job
      /\ now' = now /\ promise' = promise
      /\ \A o \in Runs : o # r => inventory'[o] = inventory[o]
      /\ \A id \in Reports : inventory'[r][id] = IF job[id].run = r THEN job[id].own ELSE Nothing
  BY DoesFlushInventory
<1> SUFFICES ASSUME NEW id \in Reports
             PROVE  Promised(id)'
  BY <1>1 DEF Promises
<1>2. Promised(id)
  BY DEF Promises
<1>3. Written(id)'
  <2> SUFFICES ASSUME NEW o \in Runs, Dated(inventory'[o][id])
               PROVE  job'[id].run = o /\ Wrote(id, inventory[o][id])'
    BY DEF Written, Dated
  <2>1. PICK life : life = inventory'[o][id]
    OBVIOUS
  <2>2. CASE o # r
    <3>1. job[id].run = o /\ Wrote(id, life) /\ inventory[o][id] = life
      BY <1>1, <1>2, <2>1, <2>2 DEF Promised, Written
    <3>2. Wrote(id, life)'
      BY <1>1, <3>1 DEF Wrote, Agrees, Ended, Ends
    <3>3. QED
      BY <1>1, <2>1, <3>1, <3>2 DEF Wrote, Agrees, Ends
  <2>3. CASE o = r
    <3>1. job[id].run = r /\ life = job[id].own /\ Dated(life)
      BY <1>1, <2>1, <2>3, SpanFacts
    <3>2. /\ job[id].pc \in {"Resaved", "Kept"} /\ Agrees(id, life) /\ promise[id] <= Ends(life)
      BY <1>2, <3>1 DEF Promised, Settled, Covered
    <3>3. Wrote(id, life)'
      BY <1>1, <3>1, <3>2 DEF Wrote, Agrees, Ended, Ends
    <3>4. QED
      BY <1>1, <2>1, <2>3, <3>1, <3>3 DEF Wrote, Agrees, Ends
  <2>4. QED
    BY <2>2, <2>3
<1>4. Unpromised(id)' /\ Covered(id)' /\ Settled(id)'
  BY <1>1, <1>2 DEF Promised, Unpromised, Covered, Settled, Ended, Agrees, Ends
<1>5. Honoured(id)' /\ OnDisk(id)'
  BY <1>1, <1>2 DEF Promised, Honoured, OnDisk, Ended
<1>6. QED
  BY <1>3, <1>4, <1>5 DEF Promised

\* An entry is claimed once nothing is promised of it, and dropped.
LEMMA PromisesClaim ==
  ASSUME Types, Types', Directories, Promises, NEW id \in Reports, SameBut(id),
         job'[id].own \in {Orphan, Nothing}, job'[id].own = Orphan => due(job[id].own),
         UNCHANGED <<files, inventory, phase, taking, now, promise>>
  PROVE  Promises'
<1> USE DEF Types
<1>1. /\ \A o \in Reports : o # id => job'[o] = job[o]
      /\ job'[id].run = job[id].run /\ job'[id].pc = job[id].pc
      /\ job'[id].body = job[id].body /\ job'[id].message = job[id].message
      /\ job'[id].recovered = job[id].recovered
  BY DEF SameBut
<1>2. ASSUME NEW o \in Reports, o # id PROVE Promised(o)'
  <2>1. Promised(o) /\ JobsHome /\ now \in Nat
    BY PromiseTypes DEF Promises, Directories
  <2>2. QED
    BY <1>1, <1>2, <2>1, PromiseFrame
<1>3. Promised(id)'
  <2>1. Promised(id) /\ promise[id] \in Nat /\ now \in Nat /\ job[id].own \in Spans
    BY PromiseTypes, JobTypes DEF Promises
  <2>2. job'[id].own = Orphan => promise[id] <= now
    <3>1. CASE job[id].own = Orphan
      BY <2>1, <3>1 DEF Promised, Covered
    <3>2. CASE Dated(job[id].own) /\ due(job[id].own)
      <4>1. now >= Ends(job[id].own) /\ Ends(job[id].own) \in Nat
        BY <2>1, <3>2, SpanEnds DEF due, Dated
      <4>2. QED
        BY <2>1, <3>2, <4>1 DEF Promised, Covered
    <3>3. QED
      BY <2>1, <3>1, <3>2, SpanCases DEF due, Dated
  <2>3. ~Dated(job'[id].own) /\ ~Tracked(job'[id].own)
    BY SpanFacts
  <2>4. Ended(id)' <=> Ended(id)
    BY <1>1 DEF Ended
  <2>5. Unpromised(id)' /\ Covered(id)'
    BY <1>1, <2>1, <2>2, <2>3, <2>4 DEF Promised, Unpromised, Covered
  <2>6. Settled(id)'
    <3>1. Agrees(id, job[id].own)'
      BY <2>3 DEF Agrees, Dated
    <3>2. Agrees(id, job[id].body)'
      BY <1>1, <2>1 DEF Promised, Settled, Agrees
    <3>3. QED
      BY <2>3, <3>1, <3>2 DEF Settled
  <2>7. Written(id)'
    <3> SUFFICES ASSUME NEW o \in Runs, Dated(inventory'[o][id])
                 PROVE  job'[id].run = o /\ Wrote(id, inventory[o][id])'
      BY DEF Written, Dated
    <3>1. PICK life : life = inventory[o][id]
      OBVIOUS
    <3>2. Dated(life) /\ job[id].run = o /\ Wrote(id, life)
      BY <2>1, <3>1 DEF Promised, Written
    <3>3. Wrote(id, life)'
      BY <1>1, <2>3, <2>4, <3>2 DEF Wrote, Agrees, Ends
    <3>4. QED
      BY <1>1, <3>1, <3>2, <3>3 DEF Wrote, Agrees, Ends
  <2>8. Honoured(id)' /\ OnDisk(id)'
    BY <2>1, <2>4 DEF Promised, Honoured, OnDisk
  <2>9. QED
    BY <2>5, <2>6, <2>7, <2>8 DEF Promised
<1>4. QED
  BY <1>2, <1>3 DEF Promises

LEMMA PromisesMaintain ==
  ASSUME Types, Types', Directories, Entries, Promises, NEW r \in Runs, Maintain(r)
  PROVE  Promises'
<1> USE DEF Types
<1>1. now \in Nat /\ \A q \in Runs : taking[q].at <= now
  BY TimeTypes DEF Typed, Promises
<1>2. CASE flush_inventory(r)
  BY <1>2, PromisesFlush
<1>3. ASSUME NEW id \in Reports, sweep_nominate(r, id)
      PROVE  Promises'
  <2>1. UNCHANGED <<files, inventory, phase, taking, job, now, promise>>
    BY <1>3, DoesSweepNominate
  <2>2. QED
    BY <1>1, <2>1, PromisesStay
<1>4. CASE sweep_claim(r)
  <2>1. PICK id \in Reports : sweeping[r].id = id
    BY <1>4, DoesSweepClaim
  <2>2. UNCHANGED <<files, inventory, phase, taking, now, promise>>
    BY <1>4, DoesSweepClaim
  <2>3. CASE job' = job
    BY <1>1, <2>2, <2>3, PromisesStay
  <2>4. CASE due(job[id].own) /\ SameBut(id) /\ job'[id].own = Orphan
    BY <2>2, <2>4, PromisesClaim
  <2>5. QED
    BY <1>4, <2>1, <2>3, <2>4, DoesSweepClaim
<1>5. CASE sweep_unlink(r)
  <2>1. PICK id \in Reports : sweeping[r].id = id
    BY <1>5, DoesSweepUnlink
  <2>2. /\ sweeping[r].step = "Claimed" /\ UNCHANGED <<inventory, phase, taking, job, now, promise>>
        /\ \A o \in Runs : o # r => files'[o] = files[o]
        /\ files'[r] = files[r] \ {OwnName(id)} \/ files'[r] = files[r]
    BY <1>5, <2>1, DoesSweepUnlink
  <2>3. job[id].own = Orphan
    <3>1. Swept(id, "Claimed")
      BY <2>1, <2>2 DEF Swept, Directories, SweepsHome
    <3>2. QED
      BY <3>1 DEF Entries, Owns
  <2>4. promise[id] <= now /\ promise[id] \in Nat
    BY <2>3, PromiseTypes DEF Promises, Promised, Covered
  <2>5. \A o \in Runs : \A name \in files[o] : IsReport(name) /\ promise[name.id] > now' => name \in files'[o]
    BY <1>1, <2>2, <2>4, NameFields
  <2>6. QED
    BY <1>1, <2>2, <2>5, PromisesStay
<1>6. CASE sweep_drop(r)
  <2>1. PICK id \in Reports : sweeping[r].id = id
    BY <1>6, DoesSweepDrop
  <2>2. /\ SameBut(id) /\ job'[id].own = Nothing
        /\ UNCHANGED <<files, inventory, phase, taking, now, promise>>
    BY <1>6, <2>1, DoesSweepDrop
  <2>3. QED
    BY <2>2, SpanFacts, PromisesClaim
<1>7. CASE sweep_stray(r)
  <2>1. PICK s \in st[r].stray : files'[r] = files[r] \ {s.name}
    BY <1>7, DoesSweepStray
  <2>2. ~IsReport(s.name)
    BY <2>1 DEF Directories, StraysTemp, IsReport
  <2>3. /\ UNCHANGED <<inventory, phase, taking, job, now, promise>>
        /\ \A o \in Runs : o # r => files'[o] = files[o]
    BY <1>7, DoesSweepStray
  <2>4. QED
    BY <1>1, <2>1, <2>2, <2>3, PromisesStay
<1>8. CASE sweep_adopted(r)
  <2>1. PICK name \in files[r] : name.kind = "adopted" /\ name.n <= now /\ files'[r] = files[r] \ {name}
    BY <1>8, DoesSweepAdopted
  <2>2. /\ UNCHANGED <<inventory, phase, taking, job, now, promise>>
        /\ \A o \in Runs : o # r => files'[o] = files[o]
    BY <1>8, DoesSweepAdopted
  <2>3. name.id \in Reports /\ name.n \in Nat
    BY <2>1, NameTypes, TimeTypes, RunTypes
  <2>4. promise[name.id] <= now /\ promise[name.id] \in Nat
    <3>1. promise[name.id] <= name.n /\ promise[name.id] \in Nat
      BY <2>1, <2>3, PromiseTypes DEF Promises, Promised, Honoured
    <3>2. QED
      BY <1>1, <2>1, <2>3, <3>1
  <2>5. \A o \in Runs : \A m \in files[o] : IsReport(m) /\ promise[m.id] > now' => m \in files'[o]
    BY <1>1, <2>1, <2>2, <2>4
  <2>6. QED
    BY <1>1, <2>1, <2>2, <2>5, PromisesStay
<1>9. QED
  BY <1>2, <1>3, <1>4, <1>5, <1>6, <1>7, <1>8 DEF Maintain

\* A takeover gives a file no earlier deadline than it is promised.
LEMMA DeadlineHonours ==
  ASSUME Types, Locks, Directories, Promises, NEW r \in Runs, taking[r].step = "Files",
         NEW name \in files[taking[r].of], IsReport(name)
  PROVE  promise[name.id] <= Deadline(r, name) /\ Deadline(r, name) \in Nat
<1> USE DEF Types
<1> DEFINE v == taking[r].of
           id == name.id
<1>1. /\ v \in Runs /\ phase[v] = "Ended" /\ phase[r] = "Opening"
  BY DEF Locks, TakersHold, Pointers
<1>2. /\ name \in Names /\ id \in Reports /\ name.kind \in {"own", "adopted"}
      /\ name.kind = "own" => name = OwnName(id)
  BY <1>1, NameTypes, RunTypes DEF IsReport
<1>3. Deadline(r, name) \in Nat
  BY <1>1, <1>2, DeadlineType, TimeTypes
<1>4. Promised(id)
  BY <1>2 DEF Promises
<1>5. CASE name.kind = "adopted"
  <2>1. Deadline(r, name) = name.n
    BY <1>5 DEF Deadline
  <2>2. promise[id] <= name.n
    BY <1>1, <1>4, <1>5 DEF Promised, Honoured
  <2>3. QED
    BY <1>3, <2>1, <2>2
<1>6. CASE name.kind = "own"
  <2> DEFINE life == inventory[v][id]
  <2>1. job[id].run = v /\ Ended(id)
    BY <1>1, <1>2, <1>6 DEF Directories, NamesHome, Ended
  <2>2. life \in Spans
    BY <1>1, <1>2 DEF Typed
  <2>3. Deadline(r, name) = takeover_deadline(taking[r].at, life)
    BY <1>6 DEF Deadline
  <2> HIDE DEF life
  <2>4. CASE Dated(life)
    <3>1. Wrote(id, life)
      BY <1>1, <1>4, <2>4 DEF Promised, Written, life
    <3>2. promise[id] <= Ends(life)
      BY <1>2, <1>6, <2>1, <3>1 DEF Wrote
    <3>3. Deadline(r, name) = Ends(life)
      BY <2>2, <2>3, <2>4, SpanEnds DEF takeover_deadline, Dated
    <3>4. QED
      BY <1>3, <3>2, <3>3
  <2>5. CASE ~Dated(life)
    <3>1. Deadline(r, name) = taking[r].at + RecoveryRetention
      BY <2>3, <2>5 DEF takeover_deadline, Dated
    <3>2. QED
      BY <1>1, <1>3, <1>4, <2>1, <3>1 DEF Promised, Honoured
  <2>6. QED
    BY <2>4, <2>5
<1>7. QED
  BY <1>2, <1>5, <1>6

LEMMA PromisesTransfer ==
  ASSUME Types, Types', Locks, Directories, Promises, NEW r \in Runs, NEW name \in taking[r].todo,
         transfer_file(r, name)
  PROVE  Promises'
<1> USE DEF Types
<1>1. PICK v \in Runs : /\ v = taking[r].of /\ taking[r].step = "Files" /\ v # r /\ phase[v] = "Ended"
  BY DEF transfer_file, Locks, TakersHold, Pointers
<1>2. name \in Names /\ name \in files[v] /\ name.id \in Reports
  BY <1>1, DoesTransferFile, NameTypes DEF Directories, Empties
<1>3. PICK target : target = AdoptedName(name.id, Deadline(r, name))
  OBVIOUS
<1>4. /\ UNCHANGED <<inventory, phase, job, now, promise>>
      /\ \A o \in Runs : taking'[o].at = taking[o].at
      /\ \A o \in Runs : o # r /\ o # v => files'[o] = files[o]
      /\ \/ /\ ~IsReport(name) \/ Deadline(r, name) <= taking[r].at
            /\ files'[v] = files[v] \ {name} /\ files'[r] = files[r]
         \/ /\ IsReport(name)
            /\ files'[v] = files[v] \ {name} /\ files'[r] = files[r] \cup {target}
         \/ files' = files
  BY <1>1, <1>3, DoesTransferFile DEF SameTaking
<1>5. IsReport(name) => promise[name.id] <= Deadline(r, name) /\ Deadline(r, name) \in Nat
  BY <1>1, <1>2, DeadlineHonours
<1>6. /\ now \in Nat /\ taking[r].at \in Nat /\ taking[r].at <= now
      /\ promise[name.id] \in Nat
  BY <1>2, PromiseTypes, RunTypes, TimeTypes DEF Promises
<1>7. target.kind = "adopted" /\ target.id = name.id /\ target.n = Deadline(r, name) /\ IsReport(target)
  BY <1>3, NameFields DEF IsReport
<1>8. \A q \in Runs : taking'[q].at <= now'
  BY <1>4 DEF Promises
<1>9. \A q \in Runs : phase'[q] \in {"Locked", "Opening"} =>
        phase[q] \in {"Locked", "Opening"} /\ taking'[q].at = taking[q].at
  BY <1>4
<1>10. ASSUME NEW id \in Reports PROVE Promised(id)'
  <2>1. Promised(id) /\ JobsHome /\ promise[id] \in Nat
    BY PromiseTypes DEF Promises, Directories
  <2>2. ASSUME \A q \in Runs : \A m \in files'[q] : IsReport(m) /\ m.id = id => m \in files[q],
               promise[id] > now' => \A q \in Runs : \A m \in files[q] :
                 IsReport(m) /\ m.id = id => m \in files'[q]
        PROVE  Promised(id)'
    BY <1>4, <1>6, <1>9, <2>1, <2>2, PromiseFrame
  <2>3. CASE files' = files
    BY <2>2, <2>3
  <2>4. CASE /\ ~IsReport(name) \/ Deadline(r, name) <= taking[r].at
             /\ files'[v] = files[v] \ {name} /\ files'[r] = files[r]
    <3>1. \A q \in Runs : files'[q] \subseteq files[q]
      BY <1>4, <2>4
    <3>2. \A q \in Runs : \A m \in files[q] : m \notin files'[q] => m = name
      BY <1>4, <2>4
    <3>3. IsReport(name) => promise[name.id] <= now
      BY <1>5, <1>6, <2>4
    <3>4. QED
      BY <1>4, <1>6, <2>2, <3>1, <3>2, <3>3
  <2>5. CASE /\ IsReport(name) /\ files'[v] = files[v] \ {name} /\ files'[r] = files[r] \cup {target}
    <3>1. \A q \in Runs : \A m \in files'[q] : m \in files[q] \/ (q = r /\ m = target)
      BY <1>4, <2>5
    <3>2. \A q \in Runs : \A m \in files[q] : m \notin files'[q] => m = name
      BY <1>4, <2>5
    <3>3. CASE id # name.id
      BY <1>7, <2>2, <3>1, <3>2, <3>3
    <3>4. CASE id = name.id
      <4>1. Ended(id)' <=> Ended(id)
        BY <1>4 DEF Ended
      <4>2. Unpromised(id)' /\ Covered(id)' /\ Settled(id)'
        BY <1>4, <2>1, <4>1 DEF Promised, Unpromised, Covered, Settled, Agrees, Ends
      <4>3. Written(id)'
        <5> SUFFICES ASSUME NEW o \in Runs, Dated(inventory'[o][id])
                     PROVE  job'[id].run = o /\ Wrote(id, inventory[o][id])'
          BY DEF Written, Dated
        <5>1. PICK life : life = inventory[o][id]
          OBVIOUS
        <5>2. job[id].run = o /\ Wrote(id, life)
          BY <1>4, <2>1, <5>1 DEF Promised, Written
        <5>3. OwnName(id) \in files'[o] => OwnName(id) \in files[o]
          BY <1>7, <3>1, NameFields
        <5>4. Wrote(id, life)'
          BY <1>4, <4>1, <5>2, <5>3 DEF Wrote, Agrees, Ends, OwnName
        <5>5. QED
          BY <1>4, <5>1, <5>2, <5>4 DEF Wrote, Agrees, Ends, OwnName
      <4>4. Honoured(id)'
        <5>1. Honoured(id)
          BY <2>1 DEF Promised
        <5>2. \A q \in Runs : \A m \in files'[q] :
                m.kind = "adopted" /\ m.id = id => promise'[id] <= m.n
          BY <1>4, <1>5, <1>7, <2>5, <3>1, <3>4, <5>1 DEF Honoured
        <5>3. QED
          BY <1>4, <4>1, <5>1, <5>2 DEF Honoured
      <4>5. OnDisk(id)'
        BY <1>7, <2>5, <3>4 DEF OnDisk, IsReport
      <4>6. QED
        BY <4>2, <4>3, <4>4, <4>5 DEF Promised
    <3>5. QED
      BY <3>3, <3>4
  <2>6. QED
    BY <1>4, <2>3, <2>4, <2>5
<1>11. QED
  BY <1>8, <1>10 DEF Promises

\* A run dies: what its files were promised turns into what any takeover gives.
LEMMA PromisesCrash ==
  ASSUME Types, Types', Directories, Entries, Promises, NEW r \in Runs, Crash(r)
  PROVE  Promises'
<1> USE DEF Types
<1>1. /\ phase'[r] = "Ended" /\ phase[r] \in {"Locked", "Opening", "Up"} /\ taking'[r] = NoTaking
      /\ \A o \in Runs : o # r => phase'[o] = phase[o] /\ taking'[o] = taking[o]
      /\ \A id \in Reports : IF job[id].run = r THEN Dead(id, r) ELSE job'[id] = job[id]
      /\ \A id \in Reports :
           promise'[id] = IF job[id].run = r /\ job[id].pc \in {"Resaved", "Kept"}
                            THEN AfterDeath(id) ELSE promise[id]
      /\ UNCHANGED <<files, inventory, now>>
  BY DoesCrash
<1>2. now \in Nat
  BY TimeTypes DEF Typed
<1>3. \A q \in Runs : taking'[q].at <= now'
  <2>1. taking'[r].at = 0
    BY <1>1 DEF NoTaking
  <2>2. QED
    BY <1>1, <1>2, <2>1 DEF Promises
<1>4. \A q \in Runs : phase'[q] \in {"Locked", "Opening"} =>
        phase[q] \in {"Locked", "Opening"} /\ taking'[q].at = taking[q].at
  BY <1>1
<1>5. ASSUME NEW id \in Reports, job[id].run # r PROVE Promised(id)'
  <2>1. job'[id] = job[id] /\ promise'[id] = promise[id] /\ Promised(id) /\ JobsHome
    BY <1>1, <1>5 DEF Promises, Directories
  <2>2. job[id].run \in Runs => phase'[job[id].run] = phase[job[id].run]
    BY <1>1, <1>5
  <2>3. QED
    BY <1>1, <1>2, <1>4, <2>1, <2>2, PromiseFrame
<1>6. ASSUME NEW id \in Reports, job[id].run = r PROVE Promised(id)'
  <2>1. Promised(id) /\ promise[id] \in Nat /\ promise'[id] \in Nat
    BY PromiseTypes, PromiseTypesNext DEF Promises
  <2>2. Dead(id, r)
    BY <1>1, <1>6
  <2>3. phase[r] = "Up" /\ ~Ended(id)
    BY <1>1, <1>6 DEF Directories, JobsHome, Ended
  <2>4. Ended(id)' /\ job'[id].run = r
    BY <1>1, <2>2 DEF Ended, Dead
  <2>5. /\ promise'[id] <= promise[id]
        /\ promise'[id] <= now + RecoveryRetention
        /\ \A q \in Runs : phase[q] \in {"Locked", "Opening"} =>
             promise'[id] <= taking[q].at + RecoveryRetention
        /\ job[id].recovered # Forever => promise'[id] <= job[id].recovered + RecoveryRetention
    <3>1. CASE job[id].pc \in {"Resaved", "Kept"}
      BY <1>1, <1>6, <3>1, AfterDeathBounds
    <3>2. CASE job[id].pc \notin {"Resaved", "Kept"}
      <4>1. promise[id] = 0 /\ promise'[id] = 0
        BY <1>1, <2>1, <2>3, <3>2 DEF Promised, Unpromised
      <4>2. /\ \A q \in Runs : taking[q].at \in Nat
            /\ job[id].recovered # Forever => job[id].recovered \in Nat
        BY JobTypes, RunTypes, TimeTypes
      <4>3. QED
        BY <1>2, <4>1, <4>2, StoreAssumption
    <3>3. QED
      BY <3>1, <3>2
  <2>6. Unpromised(id)' /\ Covered(id)'
    BY <2>2, <2>4, SpanFacts DEF Unpromised, Covered, Dead
  <2>7. Settled(id)'
    BY <2>2, SpanFacts DEF Settled, Agrees, Dead, Dated
  <2>8. Written(id)'
    <3> SUFFICES ASSUME NEW o \in Runs, Dated(inventory'[o][id])
                 PROVE  job'[id].run = o /\ Wrote(id, inventory[o][id])'
      BY DEF Written, Dated
    <3>1. PICK life \in Spans : life = inventory[o][id]
      BY DEF Typed
    <3>2. Dated(life) /\ o = r /\ Wrote(id, life)
      BY <1>1, <1>6, <2>1, <3>1 DEF Promised, Written
    <3>3. Agrees(id, life) /\ (life.state = "Acked" => promise[id] <= Ends(life))
      BY <1>6, <2>3, <3>2 DEF Wrote
    <3>4. Ends(life) \in Nat /\ life.since \in Times
          /\ (life.state = "Recovered" => Ends(life) = life.since + RecoveryRetention)
      BY <3>2, SpanEnds
    <3>5. promise'[id] <= Ends(life)
      <4>1. CASE life.state = "Acked"
        BY <2>1, <2>5, <3>3, <3>4, <4>1
      <4>2. CASE life.state = "Recovered"
        <5>1. job[id].recovered = life.since /\ life.since # Forever
          BY <3>3, <3>4, <4>2, TimeTypes DEF Agrees
        <5>2. QED
          BY <2>5, <3>4, <4>2, <5>1
      <4>3. QED
        BY <3>2, <4>1, <4>2 DEF Dated
    <3>6. Wrote(id, life)'
      BY <1>1, <2>4, <3>5 DEF Wrote, Ends
    <3>7. QED
      BY <1>1, <2>4, <3>1, <3>2, <3>6 DEF Wrote, Agrees, Ends
  <2>9. Honoured(id)'
    <3>1. \A q \in Runs : \A name \in files[q] : ~(name.kind = "adopted" /\ name.id = id)
      BY <1>6, <2>3 DEF Directories, NamesHome
    <3>2. QED
      BY <1>1, <1>4, <2>5, <3>1 DEF Honoured
  <2>10. OnDisk(id)'
    BY <1>1, <1>2, <2>1, <2>5 DEF Promised, OnDisk
  <2>11. QED
    BY <2>6, <2>7, <2>8, <2>9, <2>10 DEF Promised
<1>7. QED
  BY <1>3, <1>5, <1>6 DEF Promises

LEMMA PromisesStep ==
  ASSUME Types, Types', Locks, Directories, Directories', Entries, Entries', Promises, [Next]_vars
  PROVE  Promises'
<1> USE DEF Types
<1>1. /\ now \in Nat /\ \A q \in Runs : taking[q].at \in Nat /\ taking[q].at <= now
  BY TimeTypes, RunTypes DEF Typed, Promises
<1>2. ASSUME NEW id \in Reports, Write(id) \/ Lifetime(id) PROVE Promises'
  <2>1. Promised(id)'
    BY <1>2, PromiseStep DEF Promises
  <2>2. QED
    BY <1>2, <2>1, JobTidy, PromisesOthers
<1>3. ASSUME NEW r \in Runs, Maintain(r) PROVE Promises'
  BY <1>3, PromisesMaintain
<1>4. ASSUME NEW r \in Runs, open_lock(r) PROVE Promises'
  <2>1. /\ phase[r] = "Off" /\ taking'[r].at = now
        /\ \A o \in Runs : o # r => phase'[o] = phase[o] /\ taking'[o] = taking[o]
        /\ UNCHANGED <<files, inventory, job, now, promise>>
    BY <1>4, DoesOpenLock
  <2>2. \A q \in Runs : taking'[q].at <= now'
    BY <1>1, <2>1
  <2>3. /\ \A q \in Runs : phase[q] \in {"Up", "Ended"} => phase'[q] = phase[q]
        /\ \A q \in Runs : phase'[q] \in {"Locked", "Opening"} =>
             \/ phase[q] \in {"Locked", "Opening"} /\ taking'[q].at = taking[q].at
             \/ taking'[q].at = now
    BY <2>1
  <2>4. QED
    BY <1>1, <2>1, <2>2, <2>3, PromisesStay
<1>5. ASSUME NEW r \in Runs, open_dir(r) PROVE Promises'
  <2>1. /\ phase[r] = "Locked" /\ \A o \in Runs : o # r => phase'[o] = phase[o]
        /\ UNCHANGED <<files, inventory, taking, job, now, promise>>
    BY <1>5, DoesOpenDir
  <2>2. /\ \A q \in Runs : phase[q] \in {"Up", "Ended"} => phase'[q] = phase[q]
        /\ \A q \in Runs : phase'[q] \in {"Locked", "Opening"} =>
             phase[q] \in {"Locked", "Opening"} /\ taking'[q].at = taking[q].at
    BY <2>1
  <2>3. QED
    BY <1>1, <2>1, <2>2, PromisesStay
<1>6. ASSUME NEW r \in Runs, opened(r) PROVE Promises'
  <2>1. /\ phase[r] = "Opening" /\ phase'[r] = "Up" /\ taking'[r].at = 0
        /\ \A o \in Runs : o # r => phase'[o] = phase[o] /\ taking'[o] = taking[o]
        /\ UNCHANGED <<files, inventory, job, now, promise>>
    BY <1>6, DoesOpened DEF NoTaking
  <2>2. \A q \in Runs : taking'[q].at <= now'
    BY <1>1, <2>1
  <2>3. /\ \A q \in Runs : phase[q] \in {"Up", "Ended"} => phase'[q] = phase[q]
        /\ \A q \in Runs : phase'[q] \in {"Locked", "Opening"} =>
             phase[q] \in {"Locked", "Opening"} /\ taking'[q].at = taking[q].at
    BY <2>1
  <2>4. QED
    BY <1>1, <2>1, <2>2, <2>3, PromisesStay
<1>7. ASSUME NEW r \in Runs, NEW v \in Runs, take_over(r, v) PROVE Promises'
  <2>1. /\ \A q \in Runs : taking'[q].at = taking[q].at
        /\ UNCHANGED <<files, inventory, phase, job, now, promise>>
    BY <1>7, DoesTakeOver DEF SameTaking
  <2>2. QED
    BY <1>1, <2>1, PromisesStay
<1>8. ASSUME NEW r \in Runs, NEW name \in taking[r].todo, transfer_file(r, name) PROVE Promises'
  BY <1>8, PromisesTransfer
<1>9. ASSUME NEW r \in Runs, retire_begin(r) \/ retire_inventory(r) \/ retire_dir(r) \/ retire_lock(r)
      PROVE  Promises'
  <2>1. /\ \A q \in Runs : taking'[q].at = taking[q].at
        /\ UNCHANGED <<files, phase, job, now, promise>>
    BY <1>9, DoesRetireBegin, DoesRetireInventory, DoesRetireDir, DoesRetireLock
       DEF Advances, Frees, Untaken
  <2>2. \A q \in Runs : inventory'[q] = inventory[q] \/ inventory'[q] = NoInventory
    BY <1>9, DoesRetireBegin, DoesRetireInventory, DoesRetireDir, DoesRetireLock
  <2>3. \A q \in Runs, id \in Reports :
          inventory'[q][id] = inventory[q][id] \/ ~Dated(inventory'[q][id])
    BY <2>2, SpanFacts DEF NoInventory
  <2>4. QED
    BY <1>1, <2>1, <2>3, PromisesStay
<1>10. ASSUME NEW r \in Runs, Crash(r) PROVE Promises'
  BY <1>10, PromisesCrash
<1>11. CASE Tick
  <2>1. /\ now' = now + 1 /\ UNCHANGED <<files, inventory, phase, taking, job, promise>>
    BY <1>11, DoesTick
  <2>2. now' \in Nat /\ now <= now' /\ \A q \in Runs : taking'[q].at <= now'
    BY <1>1, <2>1
  <2>3. QED
    BY <2>1, <2>2, PromisesStay
<1>12. CASE UNCHANGED vars
  <2>1. UNCHANGED <<files, inventory, phase, taking, job, now, promise>>
    BY <1>12 DEF vars, disk
  <2>2. QED
    BY <1>1, <2>1, PromisesStay
<1>13. QED
  BY <1>2, <1>3, <1>4, <1>5, <1>6, <1>7, <1>8, <1>9, <1>10, <1>11, <1>12 DEF Next, Open

-----------------------------------------------------------------------------
(* The sixth layer: every reservation and fallback slot has its holder.     *)

Writing == {"Reserved", "Temp", "Linked"}

\* The jobs of r that hold a reservation, a fallback slot of a first attempt,
\* and one of a body held.
Booked(r) == {id \in Reports : job[id].run = r /\ job[id].pc \in Writing \cup {"Held"}}

Flying(r) ==
  {id \in Reports : /\ job[id].run = r /\ job[id].pc \in Writing \cup {"Failed"}
                    /\ job[id].kind = "Dispatch" /\ ~job[id].again}

Unsaved(r) ==
  {id \in Reports : /\ job[id].run = r
                    /\ \/ job[id].pc = "Held"
                       \/ job[id].pc \in Writing \cup {"Failed"} /\ job[id].again}

Slots ==
  \A r \in Runs :
    /\ st[r].reserved_slots = Cardinality(Booked(r))
    /\ st[r].reserved_bytes = Room * st[r].reserved_slots
    /\ st[r].in_flight = Cardinality(Flying(r))
    /\ st[r].unsaved = Cardinality(Unsaved(r))

LEMMA SlotSets ==
  ASSUME NEW r
  PROVE  /\ IsFiniteSet(Booked(r)) /\ IsFiniteSet(Flying(r)) /\ IsFiniteSet(Unsaved(r))
         /\ Cardinality(Booked(r)) \in Nat /\ Cardinality(Flying(r)) \in Nat
         /\ Cardinality(Unsaved(r)) \in Nat
<1>1. Booked(r) \subseteq Reports /\ Flying(r) \subseteq Reports /\ Unsaved(r) \subseteq Reports
  BY DEF Booked, Flying, Unsaved
<1>2. QED
  BY <1>1, StoreAssumption, CountPart

\* SlotsExact counts the same sets.
LEMMA SlotsAre == Slots => SlotsExact
<1> SUFFICES ASSUME Slots, NEW r \in Runs
             PROVE  LET jobs(pcs) == {id \in JobsOf(r) : job[id].pc \in pcs}
                        writing == jobs({"Reserved", "Temp", "Linked"})
                        held == jobs({"Held"})
                        failed == jobs({"Failed"})
                        first(s) == {id \in s : job[id].kind = "Dispatch" /\ ~job[id].again}
                        retried(s) == {id \in s : job[id].again}
                    IN  /\ st[r].reserved_slots = Cardinality(writing \cup held)
                        /\ st[r].reserved_bytes = Room * st[r].reserved_slots
                        /\ st[r].in_flight = Cardinality(first(writing \cup failed))
                        /\ st[r].unsaved = Cardinality(held \cup retried(writing \cup failed))
  BY DEF SlotsExact
<1> DEFINE jobs(pcs) == {id \in JobsOf(r) : job[id].pc \in pcs}
           writing == jobs({"Reserved", "Temp", "Linked"})
           held == jobs({"Held"})
           failed == jobs({"Failed"})
           first(s) == {id \in s : job[id].kind = "Dispatch" /\ ~job[id].again}
           retried(s) == {id \in s : job[id].again}
<1>1. writing \cup held = Booked(r)
  BY DEF Booked, Writing, JobsOf
<1>2. first(writing \cup failed) = Flying(r)
  BY DEF Flying, Writing, JobsOf
<1>3. held \cup retried(writing \cup failed) = Unsaved(r)
  BY DEF Unsaved, Writing, JobsOf
<1>4. QED
  BY <1>1, <1>2, <1>3 DEF Slots

\* No job moves and no counter of slots: what keeps them.
LEMMA SlotsStay ==
  ASSUME Slots,
         \A id \in Reports : /\ job'[id].run = job[id].run /\ job'[id].pc = job[id].pc
                             /\ job'[id].kind = job[id].kind /\ job'[id].again = job[id].again,
         \A r \in Runs : /\ st'[r].reserved_slots = st[r].reserved_slots
                         /\ st'[r].reserved_bytes = st[r].reserved_bytes
                         /\ st'[r].in_flight = st[r].in_flight
                         /\ st'[r].unsaved = st[r].unsaved
  PROVE  Slots'
<1> SUFFICES ASSUME NEW r \in Runs
             PROVE  /\ Booked(r)' = Booked(r) /\ Flying(r)' = Flying(r) /\ Unsaved(r)' = Unsaved(r)
  BY DEF Slots
<1>1. QED
  BY DEF Booked, Flying, Unsaved

\* A job moves, and the counters of its run with it.
LEMMA SlotsMove ==
  ASSUME Types, Slots, NEW id \in Reports, NEW r \in Runs, Frame(id, r),
         job[id].run = r \/ job[id].run \notin Runs,
         NEW own, NEW b \in {-1, 0, 1}, NEW f, NEW u, Moves(r, own, b, f, u),
         b = Gain(id \in Booked(r), id \in Booked(r)'),
         f = Gain(id \in Flying(r), id \in Flying(r)'),
         u = Gain(id \in Unsaved(r), id \in Unsaved(r)')
  PROVE  Slots'
<1>1. /\ job'[id].run = r
      /\ \A o \in Reports : o # id => job'[o] = job[o]
      /\ \A o \in Runs : o # r => st'[o] = st[o]
  BY FrameStays
<1>2. ASSUME NEW o \in Runs, o # r
      PROVE  Booked(o)' = Booked(o) /\ Flying(o)' = Flying(o) /\ Unsaved(o)' = Unsaved(o)
  <2>1. job[id].run # o /\ job'[id].run # o
    BY <1>1, <1>2
  <2>2. QED
    BY <1>1, <2>1 DEF Booked, Flying, Unsaved
<1>3. /\ \A x : x # id => (x \in Booked(r) <=> x \in Booked(r)')
      /\ \A x : x # id => (x \in Flying(r) <=> x \in Flying(r)')
      /\ \A x : x # id => (x \in Unsaved(r) <=> x \in Unsaved(r)')
  BY <1>1 DEF Booked, Flying, Unsaved
<1>4. /\ Cardinality(Booked(r)') = Cardinality(Booked(r)) + b
      /\ Cardinality(Flying(r)') = Cardinality(Flying(r)) + f
      /\ Cardinality(Unsaved(r)') = Cardinality(Unsaved(r)) + u
      /\ Cardinality(Booked(r)) \in Nat
  BY <1>3, SlotSets, CountMove
<1>5. /\ st'[r].reserved_slots = Cardinality(Booked(r)')
      /\ st'[r].in_flight = Cardinality(Flying(r)')
      /\ st'[r].unsaved = Cardinality(Unsaved(r)')
  BY <1>4 DEF Slots, Moves
<1>6. st'[r].reserved_bytes = Room * st'[r].reserved_slots
  <2>1. /\ st[r].reserved_bytes = Room * st[r].reserved_slots /\ st[r].reserved_slots \in Nat
    BY <1>4 DEF Slots
  <2>2. CASE b = 0
    BY <2>1, <2>2 DEF Moves
  <2>3. CASE b = 1
    BY <2>1, <2>3, StoreAssumption DEF Moves
  <2>4. CASE b = -1
    BY <2>1, <2>4, StoreAssumption DEF Moves
  <2>5. QED
    BY <2>2, <2>3, <2>4
<1>7. QED
  BY <1>1, <1>2, <1>5, <1>6 DEF Slots

LEMMA SlotsJob ==
  ASSUME Types, Directories, Entries, Slots, NEW id \in Reports, Write(id) \/ Lifetime(id)
  PROVE  Slots'
<1> USE DEF Types
<1> DEFINE r == job[id].run
<1>1. /\ job[id].pc = "New" => job[id].run \notin Runs
      /\ Kinds(id)
  BY StoreAssumption DEF Directories, JobsHome, Entries
<1>2. ASSUME NEW q \in Runs, NEW kind \in {"Report", "Dispatch"}, reserve(q, id, kind) PROVE Slots'
  <2>1. /\ Frame(id, q) /\ job[id].pc = "New" /\ job'[id].pc = "Reserved" /\ job'[id].kind = kind
        /\ job'[id].again = job[id].again
        /\ Moves(q, 0, 1, IF kind = "Dispatch" THEN 1 ELSE 0, 0)
    BY <1>2, DoesReserve
  <2>2. job'[id].run = q /\ ~job[id].again /\ job[id].run \notin Runs
    BY <1>1, <2>1, FrameStays DEF Kinds, NoJob
  <2>3. /\ Gain(id \in Booked(q), id \in Booked(q)') = 1
        /\ Gain(id \in Flying(q), id \in Flying(q)') = IF kind = "Dispatch" THEN 1 ELSE 0
        /\ Gain(id \in Unsaved(q), id \in Unsaved(q)') = 0
    BY <2>1, <2>2 DEF Gain, Booked, Flying, Unsaved, Writing
  <2>4. QED
    BY <2>1, <2>2, <2>3, SlotsMove
<1>3. CASE release(id)
  <2>1. /\ Frame(id, r) /\ IsOver(id) /\ job[id].pc = "Reserved" /\ ~job[id].again
        /\ Moves(r, 0, -1, IF job[id].kind = "Dispatch" THEN -1 ELSE 0, 0)
    BY <1>3, DoesRelease
  <2>2. job'[id].run = r /\ r \in Runs
    BY <2>1, FrameStays
  <2>3. /\ Gain(id \in Booked(r), id \in Booked(r)') = -1
        /\ Gain(id \in Flying(r), id \in Flying(r)') = IF job[id].kind = "Dispatch" THEN -1 ELSE 0
        /\ Gain(id \in Unsaved(r), id \in Unsaved(r)') = 0
    BY <2>1, <2>2 DEF Gain, Booked, Flying, Unsaved, Writing, IsOver
  <2>4. QED
    BY <2>1, <2>2, <2>3, SlotsMove
<1>4. CASE write_temp(id) \/ write_link(id)
  <2>1. /\ Frame(id, r) /\ SameTry(id) /\ job[id].pc \in Writing /\ job'[id].pc \in Writing
        /\ Moves(r, 0, 0, 0, 0)
    BY <1>4, DoesWriteTemp, DoesWriteLink DEF Writing
  <2>2. job'[id].run = r /\ r \in Runs
    BY <2>1, FrameStays
  <2>3. /\ Gain(id \in Booked(r), id \in Booked(r)') = 0
        /\ Gain(id \in Flying(r), id \in Flying(r)') = 0
        /\ Gain(id \in Unsaved(r), id \in Unsaved(r)') = 0
    BY <2>1, <2>2 DEF Gain, Booked, Flying, Unsaved, SameTry, Writing
  <2>4. QED
    BY <2>1, <2>2, <2>3, SlotsMove
<1>5. CASE write_saved(id)
  <2> DEFINE f == IF job[id].kind = "Dispatch" /\ ~job[id].again THEN -1 ELSE 0
             u == IF job[id].again THEN -1 ELSE 0
  <2>1. /\ Frame(id, r) /\ job[id].pc = "Linked" /\ job'[id].pc \in {"Saved", "Resaved", "Kept"}
        /\ Moves(r, Size, -1, f, u)
    BY <1>5, DoesWriteSaved
  <2>2. job'[id].run = r /\ r \in Runs
    BY <2>1, FrameStays
  <2>3. /\ Gain(id \in Booked(r), id \in Booked(r)') = -1
        /\ Gain(id \in Flying(r), id \in Flying(r)') = f
        /\ Gain(id \in Unsaved(r), id \in Unsaved(r)') = u
    BY <2>1, <2>2 DEF Gain, Booked, Flying, Unsaved, Writing
  <2> HIDE DEF f, u
  <2>4. QED
    BY <2>1, <2>2, <2>3, SlotsMove
<1>6. CASE write_failed(id)
  <2>1. PICK own : /\ Frame(id, r) /\ job[id].pc \in Writing /\ Moves(r, own, -1, 0, 0)
                   /\ job[id].kind = "Report" => IsOver(id)
                   /\ job[id].kind # "Report" => job'[id].pc = "Failed" /\ SameTry(id)
    BY <1>6, DoesWriteFailed DEF Writing
  <2>2. job'[id].run = r /\ r \in Runs
    BY <2>1, FrameStays
  <2>3. /\ Gain(id \in Booked(r), id \in Booked(r)') = -1
        /\ Gain(id \in Flying(r), id \in Flying(r)') = 0
        /\ Gain(id \in Unsaved(r), id \in Unsaved(r)') = 0
    <3>1. CASE job[id].kind = "Report"
      BY <1>1, <2>1, <2>2, <3>1 DEF Gain, Booked, Flying, Unsaved, IsOver, Kinds, Writing
    <3>2. CASE job[id].kind # "Report"
      BY <2>1, <2>2, <3>2 DEF Gain, Booked, Flying, Unsaved, SameTry, Writing
    <3>3. QED
      BY <3>1, <3>2
  <2>4. QED
    BY <2>1, <2>2, <2>3, SlotsMove
<1>7. CASE save_held(id)
  <2> DEFINE f == IF job[id].again THEN 0 ELSE -1
             u == IF job[id].again THEN 0 ELSE 1
  <2>1. /\ Frame(id, r) /\ SameTry(id) /\ job[id].pc = "Failed" /\ job'[id].pc = "Held"
        /\ Moves(r, 0, 1, f, u)
    BY <1>7, DoesSaveHeld
  <2>2. job'[id].run = r /\ r \in Runs /\ job[id].kind = "Dispatch"
    BY <1>1, <2>1, FrameStays DEF Kinds
  <2>3. /\ Gain(id \in Booked(r), id \in Booked(r)') = 1
        /\ Gain(id \in Flying(r), id \in Flying(r)') = f
        /\ Gain(id \in Unsaved(r), id \in Unsaved(r)') = u
    BY <2>1, <2>2 DEF Gain, Booked, Flying, Unsaved, Writing
  <2> HIDE DEF f, u
  <2>4. QED
    BY <2>1, <2>2, <2>3, SlotsMove
<1>8. CASE retry_held(id)
  <2>1. /\ Frame(id, r) /\ job[id].pc = "Held" /\ job'[id].pc = "Reserved" /\ job'[id].again = TRUE
        /\ Moves(r, 0, 0, 0, 0)
    BY <1>8, DoesRetryHeld
  <2>2. job'[id].run = r /\ r \in Runs
    BY <2>1, FrameStays
  <2>3. /\ Gain(id \in Booked(r), id \in Booked(r)') = 0
        /\ Gain(id \in Flying(r), id \in Flying(r)') = 0
        /\ Gain(id \in Unsaved(r), id \in Unsaved(r)') = 0
    BY <2>1, <2>2 DEF Gain, Booked, Flying, Unsaved, Writing
  <2>4. QED
    BY <2>1, <2>2, <2>3, SlotsMove
<1>9. CASE end_held(id)
  <2>1. /\ Frame(id, r) /\ IsOver(id) /\ job[id].pc = "Held" /\ Moves(r, 0, -1, 0, -1)
    BY <1>9, DoesEndHeld
  <2>2. job'[id].run = r /\ r \in Runs
    BY <2>1, FrameStays
  <2>3. /\ Gain(id \in Booked(r), id \in Booked(r)') = -1
        /\ Gain(id \in Flying(r), id \in Flying(r)') = 0
        /\ Gain(id \in Unsaved(r), id \in Unsaved(r)') = -1
    BY <2>1, <2>2 DEF Gain, Booked, Flying, Unsaved, Writing, IsOver
  <2>4. QED
    BY <2>1, <2>2, <2>3, SlotsMove
<1>10. CASE discard(id)
  <2>1. PICK own : Frame(id, r) /\ IsOver(id) /\ job[id].pc = "Saved" /\ Moves(r, own, 0, 0, 0)
    BY <1>10, DoesDiscard
  <2>2. job'[id].run = r /\ r \in Runs
    BY <2>1, FrameStays
  <2>3. /\ Gain(id \in Booked(r), id \in Booked(r)') = 0
        /\ Gain(id \in Flying(r), id \in Flying(r)') = 0
        /\ Gain(id \in Unsaved(r), id \in Unsaved(r)') = 0
    BY <2>1, <2>2 DEF Gain, Booked, Flying, Unsaved, Writing, IsOver
  <2>4. QED
    BY <2>1, <2>2, <2>3, SlotsMove
<1>11. CASE continue_lifetime(id) \/ accept(id) \/ acknowledged(id) \/ recovered(id)
  <2>1. /\ Frame(id, r) /\ st'[r] = st[r]
        /\ \/ job[id].pc \in {"Saved", "Resaved"} /\ job'[id].pc = "Kept"
           \/ SameTry(id) /\ job'[id].pc = job[id].pc
    <3>1. CASE continue_lifetime(id)
      BY <3>1, DoesContinueLifetime
    <3>2. CASE accept(id)
      BY <3>2, DoesAccept
    <3>3. CASE acknowledged(id) \/ recovered(id)
      BY <3>3, SettlingLife, DoesSettle
    <3>4. QED
      BY <1>11, <3>1, <3>2, <3>3
  <2>2. job'[id].run = r /\ r \in Runs
    BY <2>1, FrameStays
  <2>3. /\ Gain(id \in Booked(r), id \in Booked(r)') = 0
        /\ Gain(id \in Flying(r), id \in Flying(r)') = 0
        /\ Gain(id \in Unsaved(r), id \in Unsaved(r)') = 0
    BY <2>1, <2>2 DEF Gain, Booked, Flying, Unsaved, Writing, SameTry
  <2>4. Moves(r, 0, 0, 0, 0)
    BY <2>1, <2>2, RunTypes DEF Moves
  <2>5. QED
    BY <2>1, <2>2, <2>3, <2>4, SlotsMove
<1>12. QED
  BY <1>2, <1>3, <1>4, <1>5, <1>6, <1>7, <1>8, <1>9, <1>10, <1>11 DEF Write, Lifetime

LEMMA SlotsStep ==
  ASSUME Types, Types', Locks, Directories, Entries, Slots, [Next]_vars
  PROVE  Slots'
<1> USE DEF Types
<1>1. ASSUME NEW id \in Reports, Write(id) \/ Lifetime(id) PROVE Slots'
  BY <1>1, SlotsJob
<1>2. ASSUME NEW r \in Runs, flush_inventory(r) \/ sweep_unlink(r) PROVE Slots'
  BY <1>2, DoesFlushInventory, DoesSweepUnlink, SlotsStay
<1>3. ASSUME NEW r \in Runs, NEW id \in Reports, sweep_nominate(r, id) PROVE Slots'
  BY <1>3, DoesSweepNominate, SlotsStay
<1>4. ASSUME NEW r \in Runs, sweep_claim(r) PROVE Slots'
  <2>1. /\ st' = st
        /\ \A id \in Reports : /\ job'[id].run = job[id].run /\ job'[id].pc = job[id].pc
                               /\ job'[id].kind = job[id].kind /\ job'[id].again = job[id].again
    BY <1>4, DoesSweepClaim DEF SameBut, SameTry
  <2>2. QED
    BY <2>1, SlotsStay
<1>5. ASSUME NEW r \in Runs, sweep_drop(r) PROVE Slots'
  <2>1. PICK own : /\ Moves(r, own, 0, 0, 0) /\ \A o \in Runs : o # r => st'[o] = st[o]
                   /\ \A id \in Reports :
                        /\ job'[id].run = job[id].run /\ job'[id].pc = job[id].pc
                        /\ job'[id].kind = job[id].kind /\ job'[id].again = job[id].again
    BY <1>5, DoesSweepDrop DEF SameBut, SameTry
  <2>2. \A o \in Runs : /\ st'[o].reserved_slots = st[o].reserved_slots
                        /\ st'[o].reserved_bytes = st[o].reserved_bytes
                        /\ st'[o].in_flight = st[o].in_flight
                        /\ st'[o].unsaved = st[o].unsaved
    BY <2>1, RunTypes DEF Moves
  <2>3. QED
    BY <2>1, <2>2, SlotsStay
<1>6. ASSUME NEW r \in Runs, sweep_stray(r) PROVE Slots'
  <2>1. /\ Moves(r, 0, 0, 0, 0) /\ \A o \in Runs : o # r => st'[o] = st[o]
    BY <1>6, DoesSweepStray
  <2>2. \A o \in Runs : /\ st'[o].reserved_slots = st[o].reserved_slots
                        /\ st'[o].reserved_bytes = st[o].reserved_bytes
                        /\ st'[o].in_flight = st[o].in_flight
                        /\ st'[o].unsaved = st[o].unsaved
    BY <2>1, RunTypes DEF Moves
  <2>3. job' = job
    BY <1>6, DoesSweepStray
  <2>4. QED
    BY <2>2, <2>3, SlotsStay
<1>7. ASSUME NEW r \in Runs, sweep_adopted(r) PROVE Slots'
  <2>1. \A o \in Runs : /\ st'[o].reserved_slots = st[o].reserved_slots
                        /\ st'[o].reserved_bytes = st[o].reserved_bytes
                        /\ st'[o].in_flight = st[o].in_flight
                        /\ st'[o].unsaved = st[o].unsaved
    BY <1>7, DoesSweepAdopted DEF Adopts
  <2>2. QED
    BY <1>7, <2>1, DoesSweepAdopted, SlotsStay
<1>8. ASSUME NEW r \in Runs, open_lock(r) \/ open_dir(r) \/ opened(r) PROVE Slots'
  BY <1>8, DoesOpenLock, DoesOpenDir, DoesOpened, SlotsStay
<1>9. ASSUME NEW r \in Runs, NEW v \in Runs, take_over(r, v) PROVE Slots'
  BY <1>9, DoesTakeOver, SlotsStay
<1>10. ASSUME NEW r \in Runs, NEW name \in taking[r].todo, transfer_file(r, name) PROVE Slots'
  <2>1. taking[r].of # r
    BY <1>10 DEF transfer_file, Locks, TakersHold
  <2>2. \A o \in Runs : /\ st'[o].reserved_slots = st[o].reserved_slots
                        /\ st'[o].reserved_bytes = st[o].reserved_bytes
                        /\ st'[o].in_flight = st[o].in_flight
                        /\ st'[o].unsaved = st[o].unsaved
    BY <1>10, <2>1, DoesTransferFile DEF Adopts
  <2>3. job' = job
    BY <1>10, <2>1, DoesTransferFile
  <2>4. QED
    BY <2>2, <2>3, SlotsStay
<1>11. ASSUME NEW r \in Runs, retire_begin(r) \/ retire_inventory(r) \/ retire_dir(r) \/ retire_lock(r)
       PROVE  Slots'
  BY <1>11, DoesRetireBegin, DoesRetireInventory, DoesRetireDir, DoesRetireLock, SlotsStay
<1>12. ASSUME NEW r \in Runs, Crash(r) PROVE Slots'
  <2>1. /\ st'[r] = NoCounts /\ \A o \in Runs : o # r => st'[o] = st[o]
        /\ \A id \in Reports : IF job[id].run = r THEN Dead(id, r) ELSE job'[id] = job[id]
    BY <1>12, DoesCrash
  <2>2. \A id \in Reports : job[id].run = r => job'[id].run = r /\ job'[id].pc = "Gone"
    BY <2>1 DEF Dead
  <2>3. Booked(r)' = {} /\ Flying(r)' = {} /\ Unsaved(r)' = {}
    BY <2>1, <2>2 DEF Booked, Flying, Unsaved, Writing
  <2>4. ASSUME NEW o \in Runs, o # r
        PROVE  Booked(o)' = Booked(o) /\ Flying(o)' = Flying(o) /\ Unsaved(o)' = Unsaved(o)
    BY <2>1, <2>2, <2>4 DEF Booked, Flying, Unsaved
  <2>5. /\ Cardinality({}) = 0 /\ Room * 0 = 0
    BY FS_EmptySet, StoreAssumption
  <2>6. /\ NoCounts.reserved_slots = 0 /\ NoCounts.reserved_bytes = 0
        /\ NoCounts.in_flight = 0 /\ NoCounts.unsaved = 0
    BY DEF NoCounts
  <2>7. QED
    BY <2>1, <2>3, <2>4, <2>5, <2>6 DEF Slots
<1>13. CASE Tick \/ UNCHANGED vars
  BY <1>13, DoesTick, SlotsStay DEF vars, disk
<1>14. QED
  BY <1>1, <1>2, <1>3, <1>4, <1>5, <1>6, <1>7, <1>8, <1>9, <1>10, <1>11, <1>12, <1>13
     DEF Next, Maintain, Open

-----------------------------------------------------------------------------
(* The theorems.                                                            *)

LEMMA Initially ==
  ASSUME Init
  PROVE  Types /\ Locks /\ Directories /\ Entries /\ Promises /\ Slots
<1>1. \A id \in Reports : /\ job[id] = NoJob /\ job[id].pc = "New" /\ job[id].run = NoRun
                          /\ job[id].kind = "None" /\ job[id].again = FALSE
                          /\ job[id].own = Nothing
  BY DEF Init, NoJob
<1>2. \A r \in Runs : /\ taking[r] = NoTaking /\ taking[r].step = "None" /\ taking[r].at = 0
                      /\ sweeping[r] = Idle /\ sweeping[r].step = "Idle"
                      /\ files[r] = {} /\ phase[r] = "Off" /\ holder[r] = NoRun
                      /\ st[r].stray = {}
  BY DEF Init, NoTaking, Idle, NoCounts
<1>3. Typed
  BY InitialTypes, TimeTypes DEF Init, Typed
<1>4. Types
  BY <1>1, <1>2, <1>3 DEF Types, Tries, Trying, Bodied, Pointers
<1>5. Locks
  BY <1>2, StoreAssumption DEF Init, Locks, LocksHeld, Live, HoldersTake, TakersHold
<1>6. Directories
  BY <1>1, <1>2, StoreAssumption
     DEF Directories, Empties, JobsHome, NamesHome, StraysTemp, Unique, SweepsHome
<1>7. Entries
  BY <1>1, StoreAssumption, SpanFacts DEF Entries, Kinds, Owns, Files, Swept, Trying
<1>8. Promises
  <2>1. /\ \A r \in Runs : taking[r].at <= now
        /\ \A id \in Reports : promise[id] = 0 /\ job[id].body = Nothing
        /\ \A r \in Runs : \A id \in Reports : inventory[r][id] = Nothing
        /\ now \in Nat
    BY <1>1, <1>2 DEF Init, NoInventory, NoJob
  <2>2. ~Dated(Nothing) /\ Nothing # Orphan /\ Nothing.state = "None"
    BY DEF Dated, Nothing, Orphan
  <2>3. ASSUME NEW id \in Reports PROVE Promised(id)
    <3>1. ~Ended(id)
      BY <1>1, StoreAssumption DEF Ended
    <3>2. Unpromised(id) /\ Covered(id) /\ Written(id) /\ OnDisk(id)
      BY <1>1, <2>1, <2>2 DEF Unpromised, Covered, Written, OnDisk
    <3>3. Settled(id)
      BY <1>1, <2>1, <2>2 DEF Settled, Agrees
    <3>4. Honoured(id)
      BY <1>2, <3>1 DEF Honoured
    <3>5. QED
      BY <3>2, <3>3, <3>4 DEF Promised
  <2>4. QED
    BY <2>1, <2>3 DEF Promises
<1>9. Slots
  <2>1. ASSUME NEW r \in Runs
        PROVE  /\ Booked(r) = {} /\ Flying(r) = {} /\ Unsaved(r) = {}
               /\ st[r] = NoCounts
    BY <1>1, StoreAssumption DEF Init, Booked, Flying, Unsaved
  <2>2. Cardinality({}) = 0
    BY FS_EmptySet
  <2>3. Room * 0 = 0
    BY StoreAssumption
  <2>4. /\ NoCounts.reserved_slots = 0 /\ NoCounts.reserved_bytes = 0
        /\ NoCounts.in_flight = 0 /\ NoCounts.unsaved = 0
    BY DEF NoCounts
  <2>5. QED
    BY <2>1, <2>2, <2>3, <2>4 DEF Slots
<1>10. QED
  BY <1>4, <1>5, <1>6, <1>7, <1>8, <1>9

\* The inductive invariant.
IInv == Types /\ Locks /\ Directories /\ Entries /\ Promises /\ Slots

LEMMA LayersStep ==
  ASSUME IInv, [Next]_vars
  PROVE  IInv'
<1>1. Types /\ Locks /\ Directories /\ Entries /\ Promises /\ Slots
  BY DEF IInv
<1>2. Types'
  BY <1>1, TypesStep
<1>3. Locks'
  BY <1>1, LocksStep
<1>4. Directories'
  BY <1>1, <1>2, DirectoriesStep
<1>5. Entries'
  BY <1>1, <1>2, <1>4, EntriesStep
<1>6. Promises'
  BY <1>1, <1>2, <1>4, <1>5, PromisesStep
<1>7. Slots'
  BY <1>1, <1>2, SlotsStep
<1>8. QED
  BY <1>2, <1>3, <1>4, <1>5, <1>6, <1>7 DEF IInv

\* The layers hold in every reachable state.
THEOREM Layers == Spec => []IInv
<1>1. Init => IInv
  BY Initially DEF IInv
<1>2. IInv /\ [Next]_vars => IInv'
  BY LayersStep
<1>3. QED
  BY <1>1, <1>2, PTL DEF Spec

LEMMA OneCopyFollows == IInv => OneCopy
<1> SUFFICES ASSUME IInv, NEW id \in Reports
             PROVE  Cardinality(Copies(id)) <= 1
  BY DEF OneCopy
<1>1. \A x, y \in Copies(id) : x = y
  BY DEF Copies, IInv, Directories, Unique
<1>2. QED
  BY <1>1, CountOne

\* A report is on disk under one name at most, through every crash of a write,
\* a takeover or a sweep: transfer's rename takes the old name away, and a name
\* of a live run's job is made by that run alone (write).
THEOREM OneCopyHolds == Spec => []OneCopy
  BY Layers, OneCopyFollows, PTL

LEMMA OwnOnDiskFollows == IInv => OwnOnDisk
<1> SUFFICES ASSUME Types, Directories, Entries, NEW id \in Reports, job[id].own # Nothing
             PROVE  \/ OwnName(id) \in files[job[id].run]
                    \/ sweeping[job[id].run] = [id |-> id, step |-> "Unlinked"]
  BY DEF OwnOnDisk, IInv
<1>1. Files(id)
  BY DEF Entries
<1>2. job[id].own = Orphan \/ Tracked(job[id].own)
  BY SpanCases, JobTypes DEF Types
<1>3. CASE Swept(id, "Unlinked")
  <2>1. job[id].run \in Runs /\ sweeping[job[id].run] \in Sweeps
    BY <1>3, RunTypes DEF Swept, Types
  <2>2. QED
    BY <1>3, <2>1 DEF Swept, Sweeps
<1>4. QED
  BY <1>1, <1>2, <1>3 DEF Files

\* A file that a live run has in `own` is in its directory, unless its sweep is
\* between unlinking it and dropping its entry: no takeover touches the
\* directory of a run whose lock is held (take_over, sweep).
THEOREM OwnOnDiskHolds == Spec => []OwnOnDisk
  BY Layers, OwnOnDiskFollows, PTL

LEMMA KeptFollows == IInv => Kept
<1> SUFFICES ASSUME IInv, NEW id \in Reports, promise[id] > now
             PROVE  \E r \in lock : \E name \in files[r] : IsReport(name) /\ name.id = id
  BY DEF Kept
<1>1. PICK r \in Runs : \E name \in files[r] : IsReport(name) /\ name.id = id
  BY DEF IInv, Promises, Promised, OnDisk
<1>2. r \in lock
  BY <1>1 DEF IInv, Directories, Empties
<1>3. QED
  BY <1>1, <1>2

\* A report the daemon said it keeps is on disk until its promise ends, where
\* the next start looks for it: through the crash of its run and of any number
\* of runs that take it over, at whatever step of transfer, of the retirement
\* or of sweep, and whatever of its lifetime reached the inventory
\* (flush_inventory, takeover_deadline).
THEOREM KeptHolds == Spec => []Kept
  BY Layers, KeptFollows, PTL

\* A reservation and a fallback slot are held by one write or one held result
\* each, and by nothing else: reserve, write, save_held, retry_held, end_held
\* and release neither leak one nor free one twice.
THEOREM SlotsExactHolds == Spec => []SlotsExact
<1>1. IInv => SlotsExact
  BY SlotsAre DEF IInv
<1>2. QED
  BY <1>1, Layers, PTL

\* Where a name that was not there comes from.
LEMMA NewNames ==
  ASSUME Types, Locks, Directories, [Next]_vars, NEW s \in Runs, NEW n \in files'[s], n \notin files[s]
  PROVE  \/ n.kind = "temp"
         \/ /\ n.kind = "own"
            /\ job[n.id].run \in Runs => phase[job[n.id].run] = "Up"
         \/ \E v \in Runs : \E name \in files[v] :
              /\ IsReport(name) /\ n.id = name.id
              /\ name.kind = "adopted" => n = name
<1> USE DEF Types
<1>1. ASSUME NEW id \in Reports, Write(id) \/ Lifetime(id)
      PROVE  n.kind = "temp" \/ (n.kind = "own" /\ (job[n.id].run \in Runs => phase[job[n.id].run] = "Up"))
  <2>1. PICK r \in Runs : Frame(id, r) /\ Tidy(id, r)
    BY <1>1, JobTidy
  <2>2. s = r /\ phase[r] = "Up"
    BY <2>1, FrameStays
  <2>3. n.kind = "temp" \/ n = OwnName(id)
    BY <2>1, <2>2 DEF Tidy
  <2>4. job[id].run = r \/ job[id].run = NoRun
    BY <2>1 DEF Tidy, Directories, JobsHome
  <2>5. QED
    BY <2>2, <2>3, <2>4, NameFields, StoreAssumption
<1>2. ASSUME NEW r \in Runs, Maintain(r) PROVE FALSE
  <2>1. \A o \in Runs : files'[o] \subseteq files[o]
    BY <1>2, DoesFlushInventory, DoesSweepNominate, DoesSweepClaim, DoesSweepUnlink, DoesSweepDrop,
       DoesSweepStray, DoesSweepAdopted DEF Maintain
  <2>2. QED
    BY <2>1
<1>3. ASSUME NEW r \in Runs, NEW name \in taking[r].todo, transfer_file(r, name)
      PROVE  \E v \in Runs : \E m \in files[v] :
               IsReport(m) /\ n.id = m.id /\ (m.kind = "adopted" => n = m)
  <2>1. /\ taking[r].step = "Files" /\ taking[r].of # r /\ taking[r].of \in Runs
    BY <1>3 DEF transfer_file, Locks, TakersHold, Pointers
  <2>2. /\ s = r /\ IsReport(name) /\ n = AdoptedName(name.id, Deadline(r, name)) /\ name \in Names
    BY <1>3, <2>1, DoesTransferFile
  <2>3. name \in files[taking[r].of]
    BY <2>1 DEF Directories, Empties
  <2>4. name.kind = "adopted" => n = name
    BY <2>2, NameTypes DEF Deadline
  <2>5. QED
    BY <2>1, <2>2, <2>3, <2>4, NameFields
<1>4. ASSUME NEW r \in Runs, open_lock(r) \/ open_dir(r) \/ opened(r)
             \/ retire_begin(r) \/ retire_inventory(r) \/ retire_dir(r) \/ retire_lock(r) \/ Crash(r)
      PROVE  FALSE
  BY <1>4, DoesOpenLock, DoesOpenDir, DoesOpened, DoesRetireBegin, DoesRetireInventory,
     DoesRetireDir, DoesRetireLock, DoesCrash
<1>5. ASSUME NEW r \in Runs, NEW v \in Runs, take_over(r, v) PROVE FALSE
  BY <1>5, DoesTakeOver
<1>6. CASE Tick \/ UNCHANGED vars
  BY <1>6, DoesTick DEF vars, disk
<1>7. QED
  BY <1>1, <1>2, <1>3, <1>4, <1>5, <1>6 DEF Next, Open

LEMMA DeadlineStep ==
  ASSUME Types, Locks, Directories, [Next]_vars
  PROVE  \A id \in Reports : \A c \in Copies(id), d \in Copies(id)' :
           c[2].kind = "adopted" => c[2] = d[2]
<1> SUFFICES ASSUME NEW id \in Reports, NEW r \in Runs, NEW m \in files[r], IsReport(m), m.id = id,
                    NEW s \in Runs, NEW n \in files'[s], IsReport(n), n.id = id,
                    m.kind = "adopted"
             PROVE  m = n
  BY DEF Copies
<1>1. CASE n \in files[s]
  BY <1>1 DEF Directories, Unique
<1>2. CASE n \notin files[s] /\ n.kind = "own"
                /\ (job[n.id].run \in Runs => phase[job[n.id].run] = "Up")
  BY <1>2 DEF Directories, NamesHome
<1>3. ASSUME NEW v \in Runs, NEW name \in files[v], IsReport(name), n.id = name.id,
             name.kind = "adopted" => n = name
      PROVE  m = n
  <2>1. m = name
    BY <1>3 DEF Directories, Unique
  <2>2. QED
    BY <1>3, <2>1
<1>4. QED
  BY <1>1, <1>2, <1>3, NewNames DEF IsReport

\* The deadline in an adopted file's name never changes: a later takeover reads
\* it back from the name (parse_adopted_name) and no write gives the report
\* another name.
THEOREM DeadlineFixedHolds == Spec => DeadlineFixed
<1> DEFINE Fixed == \A id \in Reports : \A c \in Copies(id), d \in Copies(id)' :
                      c[2].kind = "adopted" => c[2] = d[2]
<1>1. IInv /\ [Next]_vars => [Fixed]_files
  BY DeadlineStep DEF IInv
<1> HIDE DEF Fixed
<1>2. Spec => [][Fixed]_files
  BY <1>1, Layers, PTL DEF Spec
<1>3. QED
  BY <1>2 DEF DeadlineFixed, Fixed
=============================================================================
