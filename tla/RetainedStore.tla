--------------------------- MODULE RetainedStore ---------------------------
(***************************************************************************)
(* The retained-report store (src/retained_store.rs): where the daemon     *)
(* keeps a worker's report, or a dispatch's result, as a file it owns.     *)
(* Every daemon run has a directory of its own, a lock it holds while it   *)
(* lives and an inventory of its files, written now and then.  A starting  *)
(* run takes the lock of each dead one and moves its files over, one       *)
(* rename at a time; it may itself die between any two steps.              *)
(*                                                                         *)
(* A step here is what happens between two points at which another thread, *)
(* another run or a crash of the process can come in.  Each system call    *)
(* may fail where the code handles its failure.                            *)
(***************************************************************************)
EXTENDS Naturals, FiniteSets, FiniteSetsExt

CONSTANTS
  Runs,               \* ids of daemon runs, minted fresh
  Reports,            \* report ids, minted fresh
  NoRun,              \* no run
  MaxBytes,           \* StoreConfig::max_bytes
  MaxFiles,           \* StoreConfig::max_files
  FallbackSlots,      \* StoreConfig::fallback_slots
  Room,               \* bytes reserved for one file
  Size,               \* bytes of the file
  AckRetention,
  RecoveryRetention,
  MaxTries,           \* bound: attempts to write one result
  MaxTime             \* bound: the clock

ASSUME StoreAssumption ==
  /\ {MaxBytes, MaxFiles, FallbackSlots, Room, Size, AckRetention,
        RecoveryRetention, MaxTries, MaxTime} \subseteq Nat
  /\ 0 < Size /\ Size <= Room /\ 0 < MaxTries
  /\ 0 < AckRetention /\ AckRetention <= RecoveryRetention
  /\ NoRun \notin Runs /\ IsFiniteSet(Runs) /\ IsFiniteSet(Reports)

VARIABLES
  \* on the disk
  norename,   \* whether the filesystem has no no-replace rename
  lock,       \* runs whose lock file exists
  dir,        \* runs whose directory exists
  files,      \* run -> the names in its directory
  inventory,  \* run -> the inventory it last wrote
  \* in the kernel
  holder,     \* run -> who holds its lock
  \* in each run's process
  phase,      \* run -> Off, Locked, Opening, Up, Ended
  st,         \* run -> the counters of StoreState
  taking,     \* run -> the takeover under way
  sweeping,   \* run -> the removal of an own file under way
  job,        \* report -> its write, its entry in `own`, its held body
  now,
  \* history
  promise     \* report -> until when its file must be kept

disk == <<norename, lock, dir, files, inventory>>
vars == <<disk, holder, phase, st, taking, sweeping, job, now, promise>>

----------------------------------------------------------------------------
(* Names, entries and lifetimes                                            *)

OwnName(id) == [kind |-> "own", id |-> id, n |-> 0]
TempName(id) == [kind |-> "temp", id |-> id, n |-> job[id].try]
AdoptedName(id, deadline) == [kind |-> "adopted", id |-> id, n |-> deadline]

Times == 0..MaxTime
\* No time: a pinned file's `since`, a promise that has no end.
Forever == MaxTime + RecoveryRetention + 1
Deadlines == 0..(MaxTime + RecoveryRetention)

Names ==
  [kind : {"own"}, id : Reports, n : {0}]
    \cup [kind : {"temp"}, id : Reports, n : 1..MaxTries]
    \cup [kind : {"adopted"}, id : Reports, n : Deadlines]

IsReport(name) == name.kind # "temp"

\* OwnState, and the Lifetime of a body held in memory (Pinned stands for
\* Referenced): a state and when it started.
Lifetimes == [state : {"None", "Pinned", "Acked", "Recovered", "Orphan"},
              since : Times \cup {Forever}]
Nothing == [state |-> "None", since |-> Forever]
Pinned == [state |-> "Pinned", since |-> Forever]
Orphan == [state |-> "Orphan", since |-> Forever]

Retention(state) == IF state = "Acked" THEN AckRetention ELSE RecoveryRetention

\* OwnFile::due and Lifetime::ends: when nothing keeps it any longer.
due(life) ==
  \/ life.state = "Orphan"
  \/ life.state \in {"Acked", "Recovered"} /\ now >= life.since + Retention(life.state)

\* OwnState::takeover_deadline, of a takeover begun at `at`; a file not in the
\* inventory is given a pinned file's.
takeover_deadline(at, life) ==
  IF life.state \in {"Acked", "Recovered"}
    THEN life.since + Retention(life.state)
    ELSE at + RecoveryRetention

----------------------------------------------------------------------------
(* The counters                                                            *)

NoCounts == [own_bytes |-> 0, adopted_bytes |-> 0, reserved_bytes |-> 0,
             reserved_slots |-> 0, in_flight |-> 0, unsaved |-> 0, stray |-> {}]

\* Mutant: a file left behind is charged to nobody.
stray_bytesFree(c) == 0 * Cardinality(c.stray)

\* Each stray is charged its attempt's room, a saved file's alias its size.
stray_bytes(c) ==
  Room * Cardinality({s \in c.stray : ~s.alias}) + Size * Cardinality({s \in c.stray : s.alias})

used_bytes(c) == c.own_bytes + c.adopted_bytes + c.reserved_bytes + stray_bytes(c)

JobsOf(r) == {id \in Reports : job[id].run = r}

used_slots(r) ==
  Cardinality({id \in JobsOf(r) : job[id].own # Nothing}) + st[r].reserved_slots

admit(r) ==
  /\ used_bytes(st[r]) + Room <= MaxBytes
  /\ used_slots(r) + 1 <= MaxFiles

reserved(c) == [c EXCEPT !.reserved_bytes = @ + Room, !.reserved_slots = @ + 1]
released(c) == [c EXCEPT !.reserved_bytes = @ - Room, !.reserved_slots = @ - 1]

\* StoreState::drop_own of id's entry.
dropped(c, id) == IF job[id].own = Nothing THEN c ELSE [c EXCEPT !.own_bytes = @ - job[id].bytes]

----------------------------------------------------------------------------
(* Reserving and writing a file.  A job is a report's save, or a dispatch  *)
(* result's save and its retries.                                          *)

NoJob == [run |-> NoRun, kind |-> "None", pc |-> "New", try |-> 0, again |-> FALSE,
          own |-> Nothing, bytes |-> 0, body |-> Nothing, message |-> "Open",
          recovered |-> Forever]

\* A job that is over: only the entry it may leave in `own` counts.
Over(j) == [NoJob EXCEPT !.run = j.run, !.pc = "Gone", !.own = j.own, !.bytes = j.bytes]

Up(r) == r \in Runs /\ phase[r] = "Up"

\* The run of id's job, alive, at step pc.
At(id, pcs) == Up(job[id].run) /\ job[id].pc \in pcs

Becomes(id, new) == job' = [job EXCEPT ![id] = new]
Counts(r, new) == st' = [st EXCEPT ![r] = new]

\* reserve and reserve_dispatch, which also takes a fallback slot.
reserve(r, id, kind) ==
  /\ Up(r)
  /\ job[id].pc = "New"
  /\ kind = "Dispatch" => st[r].in_flight + st[r].unsaved < FallbackSlots
  /\ admit(r)
  /\ Counts(r, [reserved(st[r]) EXCEPT !.in_flight = IF kind = "Dispatch" THEN @ + 1 ELSE @])
  /\ Becomes(id, [job[id] EXCEPT !.run = r, !.kind = kind, !.pc = "Reserved", !.try = 1])
  /\ UNCHANGED <<disk, holder, phase, taking, sweeping, now, promise>>

\* release, release_in_drop and release_dispatch_in_drop: given back unused.
release(id) ==
  LET r == job[id].run IN
  /\ At(id, {"Reserved"})
  /\ ~job[id].again
  /\ Counts(r, [released(st[r]) EXCEPT !.in_flight = IF job[id].kind = "Dispatch" THEN @ - 1 ELSE @])
  /\ Becomes(id, Over(job[id]))
  /\ UNCHANGED <<disk, holder, phase, taking, sweeping, now, promise>>

\* write, up to the file whole and synced under its temporary name.
write_temp(id) ==
  LET r == job[id].run IN
  /\ At(id, {"Reserved"})
  /\ files' = [files EXCEPT ![r] = @ \cup {TempName(id)}]
  /\ Becomes(id, [job[id] EXCEPT !.pc = "Temp"])
  /\ UNCHANGED <<norename, lock, dir, inventory, holder, phase, st, taking, sweeping, now, promise>>

\* write: the own name taken by a rename that never replaces or, where there
\* is none, by a link, after which the temporary name goes or stays behind.
write_link(id) ==
  LET r == job[id].run IN
  /\ At(id, {"Temp"})
  /\ OwnName(id) \notin files[r]
  /\ \E behind \in {TRUE, FALSE} :
       /\ behind => norename
       /\ files' = [files EXCEPT ![r] = (IF behind THEN @ ELSE @ \ {TempName(id)}) \cup {OwnName(id)}]
  /\ Becomes(id, [job[id] EXCEPT !.pc = "Linked"])
  /\ UNCHANGED <<norename, lock, dir, inventory, holder, phase, st, taking, sweeping, now, promise>>

\* The temporary name of id's attempt, when it is on disk and stays there.
StrayOf(id, alias) == [name |-> TempName(id), alias |-> alias]

\* write's success: the directory synced, the reservation's slot moves to the
\* file.  dispatch_result and retry_held then free the fallback slot.
write_saved(id) ==
  LET j == job[id]
      r == j.run
      c == released(st[r])
      behind == IF TempName(id) \in files[r] THEN {StrayOf(id, TRUE)} ELSE {}
  IN
  /\ At(id, {"Linked"})
  /\ Counts(r, [c EXCEPT !.own_bytes = @ + Size, !.stray = @ \cup behind,
                         !.in_flight = IF j.kind = "Dispatch" /\ ~j.again THEN @ - 1 ELSE @,
                         !.unsaved = IF j.again THEN @ - 1 ELSE @])
  /\ Becomes(id, [j EXCEPT !.own = Pinned, !.bytes = Size, !.try = 0,
                           !.pc = IF j.kind = "Report" THEN "Saved"
                                  ELSE IF j.again THEN "Resaved" ELSE "Kept"])
  /\ promise' = [promise EXCEPT ![id] = IF j.kind = "Report" THEN @ ELSE Forever]
  /\ UNCHANGED <<disk, holder, phase, taking, sweeping, now>>

\* write's failure, at any of its calls: the attempt's names are removed and
\* the room returned, or, when a removal fails, what stays is charged.
write_failed(id) ==
  LET j == job[id]
      r == j.run
      linked == j.pc = "Linked"
      temp == TempName(id) \in files[r]
  IN
  /\ At(id, {"Reserved", "Temp", "Linked"})
  /\ \E tempStays, ownStays \in BOOLEAN :
       /\ tempStays => temp
       /\ temp /\ linked => tempStays
       /\ ownStays => linked
       /\ files' = [files EXCEPT ![r] =
                      @ \ ((IF tempStays THEN {} ELSE {TempName(id)})
                             \cup (IF linked /\ ~ownStays THEN {OwnName(id)} ELSE {}))]
       /\ Counts(r, [released(st[r]) EXCEPT
                       !.stray = IF tempStays THEN @ \cup {StrayOf(id, FALSE)} ELSE @,
                       !.own_bytes = IF ownStays THEN @ + Room ELSE @])
       /\ LET left == IF ownStays THEN [j EXCEPT !.own = Orphan, !.bytes = Room] ELSE j IN
          Becomes(id, IF j.kind = "Report" THEN Over(left) ELSE [left EXCEPT !.pc = "Failed"])
  /\ UNCHANGED <<norename, lock, dir, inventory, holder, phase, taking, sweeping, now, promise>>

\* save_held's failure: the room `write` returned is taken back for the body,
\* in an acquisition of its own that admits nothing anew.  A first attempt's
\* fallback slot turns from in flight to unsaved, and hold_fallback keeps the
\* body; a retry's body was held all along.
save_held(id) ==
  LET j == job[id]
      r == j.run
  IN
  /\ At(id, {"Failed"})
  /\ Counts(r, [reserved(st[r]) EXCEPT
                  !.in_flight = IF j.again THEN @ ELSE @ - 1,
                  !.unsaved = IF j.again THEN @ ELSE @ + 1])
  /\ Becomes(id, [j EXCEPT !.pc = "Held", !.body = IF j.again THEN @ ELSE Pinned])
  /\ UNCHANGED <<disk, holder, phase, taking, sweeping, now, promise>>

\* retry_fallback_bodies, one pass at a time: a body whose lifetime is over
\* ends, any other is written again.
Retrying(r) == {id \in JobsOf(r) : job[id].again /\ job[id].pc \in {"Reserved", "Temp", "Linked", "Failed"}}

retry_held(id) ==
  /\ At(id, {"Held"})
  /\ ~due(job[id].body)
  /\ Retrying(job[id].run) = {}
  /\ job[id].try < MaxTries
  /\ Becomes(id, [job[id] EXCEPT !.pc = "Reserved", !.again = TRUE, !.try = @ + 1])
  /\ UNCHANGED <<disk, holder, phase, st, taking, sweeping, now, promise>>

\* Mutant: the fallback slot is not given back.
end_heldSlotKept(id) ==
  LET r == job[id].run IN
  /\ At(id, {"Held"})
  /\ due(job[id].body)
  /\ Counts(r, released(st[r]))
  /\ Becomes(id, Over(job[id]))
  /\ UNCHANGED <<disk, holder, phase, taking, sweeping, now, promise>>

end_held(id) ==
  LET r == job[id].run IN
  /\ At(id, {"Held"})
  /\ due(job[id].body)
  /\ Counts(r, [released(st[r]) EXCEPT !.unsaved = @ - 1])
  /\ Becomes(id, Over(job[id]))
  /\ UNCHANGED <<disk, holder, phase, taking, sweeping, now, promise>>

----------------------------------------------------------------------------
(* Lifetimes                                                               *)

Tracked(life) == life.state \in {"Pinned", "Acked", "Recovered"}
Ends(life) == IF life.state = "Pinned" THEN Forever ELSE life.since + Retention(life.state)

\* A retried result's file takes the lifetime its body had in memory.
continue_lifetime(id) ==
  LET j == job[id]
      takes == j.body.state # "Pinned" /\ Tracked(j.own)
  IN
  /\ At(id, {"Resaved"})
  /\ Becomes(id, [j EXCEPT !.pc = "Kept", !.again = FALSE, !.try = 0, !.body = Nothing,
                           !.own = IF takes THEN j.body ELSE @])
  /\ promise' = [promise EXCEPT ![id] = IF takes THEN Ends(j.body) ELSE @]
  /\ UNCHANGED <<disk, holder, phase, st, taking, sweeping, now>>

\* The claim commits: the worker is told its report is kept.
accept(id) ==
  /\ At(id, {"Saved"})
  /\ Becomes(id, [job[id] EXCEPT !.pc = "Kept"])
  /\ promise' = [promise EXCEPT ![id] = Forever]
  /\ UNCHANGED <<disk, holder, phase, st, taking, sweeping, now>>

\* The claim fails after the write: the file goes, or is left an orphan.
discard(id) ==
  LET r == job[id].run IN
  /\ At(id, {"Saved"})
  /\ \/ /\ files' = [files EXCEPT ![r] = @ \ {OwnName(id)}]
        /\ Counts(r, dropped(st[r], id))
        /\ Becomes(id, Over([job[id] EXCEPT !.own = Nothing, !.bytes = 0]))
     \/ /\ UNCHANGED <<files, st>>
        /\ Becomes(id, Over([job[id] EXCEPT !.own = Orphan]))
  /\ UNCHANGED <<norename, lock, dir, inventory, holder, phase, taking, sweeping, now, promise>>

\* The message of id is posted once its save or its hold is over.
Posted(id) ==
  \/ At(id, {"Kept", "Held", "Resaved"})
  \/ job[id].again /\ At(id, {"Reserved", "Temp", "Linked", "Failed"})

\* A tracked entry and a held body both take the new lifetime; an orphan and
\* an entry that is gone take nothing.
Settles(id, life, message, fromPinned) ==
  LET j == job[id]
      may(old) == IF fromPinned THEN old.state = "Pinned" ELSE Tracked(old)
  IN
  /\ Becomes(id, [j EXCEPT !.own = IF may(@) THEN life ELSE @,
                           !.body = IF may(@) THEN life ELSE @,
                           !.message = message,
                           !.recovered = IF fromPinned THEN now ELSE @])
  /\ promise' = [promise EXCEPT ![id] = IF may(j.own) THEN Ends(life) ELSE @]
  /\ UNCHANGED <<disk, holder, phase, st, taking, sweeping, now>>

\* Its message was acknowledged, late or not.
acknowledged(id) ==
  /\ Posted(id)
  /\ job[id].message # "Acked"
  /\ Settles(id, [state |-> "Acked", since |-> now], "Acked", FALSE)

\* Its message was set aside.
recovered(id) ==
  /\ Posted(id)
  /\ job[id].message = "Open"
  /\ Settles(id, [state |-> "Recovered", since |-> now], "Aside", TRUE)

----------------------------------------------------------------------------
(* The maintenance task of a run: its inventory and its sweep              *)

\* A snapshot under the store's lock, written off it.  Nothing reads it while
\* the run lives, so one that is written late is one that was taken early.
flush_inventory(r) ==
  /\ Up(r)
  /\ inventory' = [inventory EXCEPT ![r] =
                     [id \in Reports |-> IF id \in JobsOf(r) THEN job[id].own ELSE Nothing]]
  /\ UNCHANGED <<norename, lock, dir, files, holder, phase, st, taking, sweeping, job, now, promise>>

Idle == [id |-> NoRun, step |-> "Idle"]
Steps(r, id, step) == sweeping' = [sweeping EXCEPT ![r] = [id |-> id, step |-> step]]

\* sweep: a due file of its snapshot ...
sweep_nominate(r, id) ==
  /\ Up(r) /\ id \in JobsOf(r)
  /\ sweeping[r] = Idle
  /\ due(job[id].own)
  /\ Steps(r, id, "Nominated")
  /\ UNCHANGED <<disk, holder, phase, st, taking, job, now, promise>>

\* Mutant: the snapshot decides.
sweep_claimSnapshot(r) ==
  LET id == sweeping[r].id IN
  /\ sweeping[r].step = "Nominated"
  /\ Becomes(id, [job[id] EXCEPT !.own = Orphan])
  /\ Steps(r, id, "Claimed")
  /\ UNCHANGED <<disk, holder, phase, st, taking, now, promise>>

\* ... is decided again under the lock, and claimed there ...
sweep_claim(r) ==
  LET id == sweeping[r].id IN
  /\ sweeping[r].step = "Nominated"
  /\ IF due(job[id].own)
       THEN /\ Becomes(id, [job[id] EXCEPT !.own = Orphan])
            /\ Steps(r, id, "Claimed")
       ELSE /\ sweeping' = [sweeping EXCEPT ![r] = Idle]
            /\ UNCHANGED job
  /\ UNCHANGED <<disk, holder, phase, st, taking, now, promise>>

\* ... removed off it, or left to the next pass ...
sweep_unlink(r) ==
  /\ sweeping[r].step = "Claimed"
  /\ \/ /\ files' = [files EXCEPT ![r] = @ \ {OwnName(sweeping[r].id)}]
        /\ Steps(r, sweeping[r].id, "Unlinked")
     \/ /\ sweeping' = [sweeping EXCEPT ![r] = Idle]
        /\ UNCHANGED files
  /\ UNCHANGED <<norename, lock, dir, inventory, holder, phase, st, taking, job, now, promise>>

\* ... and dropped from the own files.
sweep_drop(r) ==
  LET id == sweeping[r].id IN
  /\ sweeping[r].step = "Unlinked"
  /\ Counts(r, dropped(st[r], id))
  /\ Becomes(id, [job[id] EXCEPT !.own = Nothing, !.bytes = 0])
  /\ sweeping' = [sweeping EXCEPT ![r] = Idle]
  /\ UNCHANGED <<disk, holder, phase, taking, now, promise>>

\* A stray, and an adopted file past the deadline in its name.
sweep_stray(r) ==
  /\ Up(r) /\ sweeping[r] = Idle
  /\ \E s \in st[r].stray :
       /\ files' = [files EXCEPT ![r] = @ \ {s.name}]
       /\ Counts(r, [st[r] EXCEPT !.stray = @ \ {s}])
  /\ UNCHANGED <<norename, lock, dir, inventory, holder, phase, taking, sweeping, job, now, promise>>

sweep_adopted(r) ==
  /\ Up(r) /\ sweeping[r] = Idle
  /\ \E name \in files[r] :
       /\ name.kind = "adopted" /\ name.n <= now
       /\ files' = [files EXCEPT ![r] = @ \ {name}]
       /\ Counts(r, [st[r] EXCEPT !.adopted_bytes = @ - Size])
  /\ UNCHANGED <<norename, lock, dir, inventory, holder, phase, taking, sweeping, job, now, promise>>

----------------------------------------------------------------------------
(* Opening a run and taking over the ended ones                            *)

\* at is when the run began to open: the one reading of the clock that its
\* whole takeover goes by.
NoTaking == [at |-> 0, of |-> NoRun, tried |-> {}, todo |-> {}, left |-> FALSE,
             listed |-> FALSE, step |-> "None"]

\* open_dirs: the lock, held, is renamed into place before the directory is.
open_lock(r) ==
  /\ phase[r] = "Off"
  /\ lock' = lock \cup {r}
  /\ holder' = [holder EXCEPT ![r] = r]
  /\ phase' = [phase EXCEPT ![r] = "Locked"]
  /\ taking' = [taking EXCEPT ![r].at = now]
  /\ UNCHANGED <<norename, dir, files, inventory, st, sweeping, job, now, promise>>

open_dir(r) ==
  /\ phase[r] = "Locked"
  /\ dir' = dir \cup {r}
  /\ phase' = [phase EXCEPT ![r] = "Opening"]
  /\ UNCHANGED <<norename, lock, files, inventory, holder, st, taking, sweeping, job, now, promise>>

\* Mutant: the lock file is opened and not tried.
LivesUntried(v) == FALSE /\ holder[v] # NoRun

\* The lock of v, listed: held, v lives and its files are left alone.
Lives(v) == holder[v] # NoRun

take_over(r, v) ==
  /\ phase[r] = "Opening" /\ taking[r].step = "None"
  /\ v \in lock \ ({r} \cup taking[r].tried)
  /\ IF Lives(v)
       THEN /\ taking' = [taking EXCEPT ![r].tried = @ \cup {v}]
            /\ UNCHANGED holder
       ELSE /\ holder' = [holder EXCEPT ![v] = r]
            /\ \E readable \in BOOLEAN :
                 taking' = [taking EXCEPT ![r] =
                   [taking[r] EXCEPT !.of = v, !.tried = @ \cup {v}, !.todo = files[v],
                                     !.listed = readable, !.step = "Files"]]
  /\ UNCHANGED <<disk, phase, st, sweeping, job, now, promise>>

\* transfer, the lock released: where it returns.
Released(r) ==
  /\ taking' = [taking EXCEPT ![r] = [NoTaking EXCEPT !.tried = taking[r].tried, !.at = taking[r].at]]
  /\ holder' = [holder EXCEPT ![taking[r].of] = NoRun]

\* transfer, one name it removes where it is, or leaves for the next start.
Removed(r, name) ==
  /\ files' = [files EXCEPT ![taking[r].of] = @ \ {name}]
  /\ taking' = [taking EXCEPT ![r].todo = @ \ {name}]
  /\ UNCHANGED st

Left(r, names) ==
  /\ taking' = [taking EXCEPT ![r].todo = @ \ names, ![r].left = TRUE]
  /\ UNCHANGED <<files, st>>

\* Mutant: the deadline in the name is not read back.
DeadlineAnew(r, name) ==
  takeover_deadline(taking[r].at,
                    IF name.kind = "adopted" THEN Nothing ELSE inventory[taking[r].of][name.id])

\* transfer's deadline of a name: its suffix's, or its inventory's.
Deadline(r, name) ==
  IF name.kind = "adopted" THEN name.n
    ELSE takeover_deadline(taking[r].at, inventory[taking[r].of][name.id])

\* Mutant: a link, whose old name nothing removes.
move_inLinked(r, name, target) ==
  /\ files' = [files EXCEPT ![r] = @ \cup {target}]
  /\ Counts(r, [st[r] EXCEPT !.adopted_bytes = @ + Size])
  /\ taking' = [taking EXCEPT ![r].todo = @ \ {name}]

\* The no-replace rename into r's directory.
move_in(r, name, target) ==
  /\ files' = [files EXCEPT ![taking[r].of] = @ \ {name}, ![r] = @ \cup {target}]
  /\ Counts(r, [st[r] EXCEPT !.adopted_bytes = @ + Size])
  /\ taking' = [taking EXCEPT ![r].todo = @ \ {name}]

transfer_file(r, name) ==
  LET target == AdoptedName(name.id, Deadline(r, name)) IN
  /\ taking[r].step = "Files"
  /\ name \in taking[r].todo
  /\ \/ ~IsReport(name) /\ Removed(r, name)
     \/ IsReport(name) /\ (name.kind = "adopted" \/ taking[r].listed)
        /\ \/ target.n <= taking[r].at /\ Removed(r, name)
           \/ ~norename /\ target \notin files[r] /\ move_in(r, name, target)
           \/ norename /\ Left(r, taking[r].todo)
     \/ Left(r, {name})
  /\ UNCHANGED <<norename, lock, dir, inventory, holder, phase, sweeping, job, now, promise>>

\* An ended run is retired only when its directory is empty and both are
\* synced: its inventory, its directory and last its lock.
retire_begin(r) ==
  /\ taking[r].step = "Files" /\ taking[r].todo = {}
  /\ \/ /\ ~taking[r].left /\ files[taking[r].of] = {}
        /\ taking' = [taking EXCEPT ![r].step = "Inventory"]
        /\ UNCHANGED holder
     \/ Released(r)
  /\ UNCHANGED <<disk, phase, st, sweeping, job, now, promise>>

NoInventory == [id \in Reports |-> Nothing]

retire_inventory(r) ==
  /\ taking[r].step = "Inventory"
  /\ \/ /\ inventory' = [inventory EXCEPT ![taking[r].of] = NoInventory]
        /\ taking' = [taking EXCEPT ![r].step = "Dir"]
        /\ UNCHANGED holder
     \/ Released(r) /\ UNCHANGED inventory
  /\ UNCHANGED <<norename, lock, dir, files, phase, st, sweeping, job, now, promise>>

retire_dir(r) ==
  /\ taking[r].step = "Dir"
  /\ \/ /\ dir' = dir \ {taking[r].of}
        /\ taking' = [taking EXCEPT ![r].step = "Lock"]
        /\ UNCHANGED holder
     \/ Released(r) /\ UNCHANGED dir
  /\ UNCHANGED <<norename, lock, files, inventory, phase, st, sweeping, job, now, promise>>

retire_lock(r) ==
  /\ taking[r].step = "Lock"
  /\ lock' = lock \ {taking[r].of} \/ UNCHANGED lock
  /\ Released(r)
  /\ UNCHANGED <<norename, dir, files, inventory, phase, st, sweeping, job, now, promise>>

\* Every listed run tried: the store is handed to the daemon.
opened(r) ==
  /\ phase[r] = "Opening" /\ taking[r].step = "None"
  /\ lock \subseteq taking[r].tried \cup {r}
  /\ phase' = [phase EXCEPT ![r] = "Up"]
  /\ taking' = [taking EXCEPT ![r] = NoTaking]
  /\ UNCHANGED <<disk, holder, st, sweeping, job, now, promise>>

----------------------------------------------------------------------------
(* The process dies, and its locks with it                                 *)

\* The earliest clock reading a takeover of a run that dies now may go by.
Earliest == Min({now} \cup {taking[r].at : r \in {v \in Runs : phase[v] \in {"Locked", "Opening"}}})

\* What a file of a run that dies now is still promised: what it was, but no
\* more than a takeover that finds it unsettled gives it, or, when only its
\* recovery and not its acknowledgement reached the inventory, a recovery's.
AfterDeath(id) ==
  Min({promise[id], Earliest + RecoveryRetention}
        \cup {t + RecoveryRetention : t \in {job[id].recovered} \ {Forever}})

Crash(r) ==
  /\ phase[r] \in {"Locked", "Opening", "Up"}
  /\ phase' = [phase EXCEPT ![r] = "Ended"]
  /\ holder' = [v \in Runs |-> IF holder[v] = r THEN NoRun ELSE holder[v]]
  /\ st' = [st EXCEPT ![r] = NoCounts]
  /\ taking' = [taking EXCEPT ![r] = NoTaking]
  /\ sweeping' = [sweeping EXCEPT ![r] = Idle]
  /\ job' = [id \in Reports |->
               IF job[id].run = r THEN [NoJob EXCEPT !.run = r, !.pc = "Gone"] ELSE job[id]]
  /\ promise' = [id \in Reports |->
                   IF job[id].run = r /\ job[id].pc \in {"Resaved", "Kept"} THEN AfterDeath(id) ELSE promise[id]]
  /\ UNCHANGED <<disk, now>>

Tick ==
  /\ now < MaxTime
  /\ now' = now + 1
  /\ UNCHANGED <<disk, holder, phase, st, taking, sweeping, job, promise>>

----------------------------------------------------------------------------

Init ==
  /\ norename \in BOOLEAN
  /\ lock = {} /\ dir = {}
  /\ files = [r \in Runs |-> {}]
  /\ inventory = [r \in Runs |-> NoInventory]
  /\ holder = [r \in Runs |-> NoRun]
  /\ phase = [r \in Runs |-> "Off"]
  /\ st = [r \in Runs |-> NoCounts]
  /\ taking = [r \in Runs |-> NoTaking]
  /\ sweeping = [r \in Runs |-> Idle]
  /\ job = [id \in Reports |-> NoJob]
  /\ now = 0
  /\ promise = [id \in Reports |-> 0]

Write(id) ==
  \/ \E r \in Runs, kind \in {"Report", "Dispatch"} : reserve(r, id, kind)
  \/ release(id)
  \/ write_temp(id) \/ write_link(id) \/ write_saved(id) \/ write_failed(id)
  \/ save_held(id) \/ retry_held(id) \/ end_held(id)

Lifetime(id) ==
  continue_lifetime(id) \/ accept(id) \/ discard(id) \/ acknowledged(id) \/ recovered(id)

Maintain(r) ==
  \/ flush_inventory(r)
  \/ \E id \in Reports : sweep_nominate(r, id)
  \/ sweep_claim(r) \/ sweep_unlink(r) \/ sweep_drop(r)
  \/ sweep_stray(r) \/ sweep_adopted(r)

Open(r) ==
  \/ open_lock(r) \/ open_dir(r)
  \/ \E v \in Runs : take_over(r, v)
  \/ \E name \in taking[r].todo : transfer_file(r, name)
  \/ retire_begin(r) \/ retire_inventory(r) \/ retire_dir(r) \/ retire_lock(r)
  \/ opened(r)

Next ==
  \/ \E id \in Reports : Write(id) \/ Lifetime(id)
  \/ \E r \in Runs : Maintain(r) \/ Open(r) \/ Crash(r)
  \/ Tick

Spec == Init /\ [][Next]_vars

----------------------------------------------------------------------------
(* Properties                                                              *)

Copies(id) == UNION {{<<r, name>> : name \in {f \in files[r] : IsReport(f) /\ f.id = id}} : r \in Runs}

\* A report is under one name in one run's directory at most, whatever run
\* dies at whatever point of a write, a takeover or a sweep: a file moves by
\* one rename (transfer), and its own name is never made twice (write).
OneCopy == \A id \in Reports : Cardinality(Copies(id)) <= 1

\* A report the daemon said it keeps is on disk for as long as its lifetime
\* promises, in the directory of a run whose lock file the next start lists:
\* across the crash of its run and of the runs that take it over, a retirement
\* cut short, and a sweep that races its acknowledgement (sweep, transfer,
\* takeover_deadline).
Kept ==
  \A id \in Reports :
    promise[id] > now => \E r \in lock : \E name \in files[r] : IsReport(name) /\ name.id = id

\* A file a live run counts as its own is in its directory, but for the one
\* its sweep has just unlinked: no other run moves it away (take_over).
OwnOnDisk ==
  \A id \in Reports :
    job[id].own # Nothing =>
      \/ OwnName(id) \in files[job[id].run]
      \/ sweeping[job[id].run] = [id |-> id, step |-> "Unlinked"]

\* Of a temporary name: a second name for the linked file of a write under
\* way takes no room of its own.
Alias(r, name) == name.kind = "temp" /\ At(name.id, {"Linked"}) /\ job[name.id].run = r /\ name = TempName(name.id)

\* The bytes in a live run's directory never exceed what the store charges
\* for them, whichever call of a write, a removal or a takeover failed.
BytesCharged ==
  \A r \in Runs :
    phase[r] \in {"Opening", "Up"} =>
      Size * Cardinality({name \in files[r] : ~Alias(r, name)}) <= used_bytes(st[r])

\* Every reservation and fallback slot is held by exactly one write or one
\* held result, through failures, retries and ends (write, save_held,
\* dispatch_result, retry_held, end_held): none leaks, none is freed twice.
SlotsExact ==
  \A r \in Runs :
    LET jobs(pcs) == {id \in JobsOf(r) : job[id].pc \in pcs}
        writing == jobs({"Reserved", "Temp", "Linked"})
        held == jobs({"Held"})
        failed == jobs({"Failed"})
        first(s) == {id \in s : job[id].kind = "Dispatch" /\ ~job[id].again}
        retried(s) == {id \in s : job[id].again}
    IN
    /\ st[r].reserved_slots = Cardinality(writing \cup held)
    /\ st[r].reserved_bytes = Room * st[r].reserved_slots
    /\ st[r].in_flight = Cardinality(first(writing \cup failed))
    /\ st[r].unsaved = Cardinality(held \cup retried(writing \cup failed))

\* The deadline a takeover gave a file is in its name for good: no later
\* takeover shortens or renews it (parse_adopted_name).
DeadlineFixed ==
  [][\A id \in Reports : \A c \in Copies(id), d \in Copies(id)' :
       c[2].kind = "adopted" => c[2] = d[2]]_files

\* The model's state has its type: counters never fall below zero, and deadlines
\* and promises are times the configuration can produce.
TypeOK ==
  /\ norename \in BOOLEAN
  /\ lock \subseteq Runs /\ dir \subseteq Runs
  /\ files \in [Runs -> SUBSET Names]
  /\ inventory \in [Runs -> [Reports -> Lifetimes]]
  /\ holder \in [Runs -> Runs \cup {NoRun}]
  /\ phase \in [Runs -> {"Off", "Locked", "Opening", "Up", "Ended"}]
  /\ \A r \in Runs :
       /\ \A f \in {"own_bytes", "adopted_bytes", "reserved_bytes", "reserved_slots",
                    "in_flight", "unsaved"} : st[r][f] \in Nat
       /\ st[r].stray \subseteq [name : Names, alias : BOOLEAN]
       /\ taking[r].at \in Times
       /\ taking[r].of \in Runs \cup {NoRun} /\ taking[r].todo \subseteq Names
       /\ sweeping[r].id \in Reports \cup {NoRun}
  /\ \A id \in Reports :
       /\ job[id].run \in Runs \cup {NoRun}
       /\ job[id].own \in Lifetimes /\ job[id].body \in Lifetimes
       /\ job[id].try \in 0..MaxTries
  /\ now \in Times
  /\ promise \in [Reports -> Deadlines \cup {Forever}]

=============================================================================
