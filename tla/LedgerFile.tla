---------------------------- MODULE LedgerFile -----------------------------
(***************************************************************************)
(* A ledger of the daemon, the Session store, and the file it is kept in.  *)
(* Every change is flushed at once: the new ledger is written to a file of *)
(* its own, the file in use becomes the backup, and the new one takes its  *)
(* place.  The process may die between any two of these steps; when the    *)
(* machine loses power, what was not synced may be missing or torn.        *)
(*                                                                         *)
(* A flush runs on the event loop without an await, so nothing else        *)
(* changes the ledger while it is under way.                               *)
(***************************************************************************)
EXTENDS Naturals, Sequences, FiniteSets, SequencesExt, FiniteSetsExt

CONSTANTS
  Keep,         \* ended Sessions that are kept (keep_terminal)
  MaxChanges,   \* bound on the changes of the ledger
  MaxMishaps    \* bound on the kinds of mishap in a behaviour

ASSUME LedgerFileAssumption == Keep \in Nat /\ MaxChanges \in Nat /\ MaxMishaps \in Nat

(* A ledger: _seq, the Sessions by what they are, the ended ones from the  *)
(* one longest unchanged, and the number of the change it came of, which   *)
(* the program does not know.                                              *)
Empty == [seq |-> 0, active |-> {}, ended |-> <<>>, change |-> 0]

NoFile  == [is |-> "missing", ledger |-> Empty]
Torn    == [is |-> "torn", ledger |-> Empty]        \* it does not parse
File(l) == [is |-> "whole", ledger |-> l]

(* What may go wrong: an I/O error of a flush, of the renaming to .bak, of *)
(* the directory's sync and of the renaming of a torn file, and a file in  *)
(* use that is found torn.                                                 *)
Mishaps == {"flush", "backup", "sync", "archive", "damage"}

VARIABLES
  up,        \* the daemon runs
  mem,       \* the store: _seq and _sessions
  reserved,  \* ids reserved for Sessions that are being set up
  changes,   \* changes made so far (history)
  stage,     \* of the flush under way; "idle" when there is none
  tmp,       \* the new file: "none", "written" or "synced"
  disk,      \* the file in use and the backup, as the running system sees them
  views,     \* what of them a loss of power may leave
  handed,    \* ids given to callers (history)
  saved,     \* the change last flushed with success (history)
  before,    \* the one saved before it (history)
  mishaps    \* kinds of mishap so far (history)

store   == <<mem, reserved, changes>>
history == <<handed, saved, before>>
vars    == <<up, store, stage, tmp, disk, views, history, mishaps>>

Init ==
  /\ up = TRUE /\ mem = Empty /\ reserved = {} /\ changes = 0 /\ stage = "idle" /\ tmp = "none"
  /\ disk = [main |-> NoFile, bak |-> NoFile] /\ views = {disk}
  /\ handed = {} /\ saved = 0 /\ before = 0 /\ mishaps = {}

Happens(kind) ==
  /\ kind \notin mishaps /\ Cardinality(mishaps) < MaxMishaps
  /\ mishaps' = mishaps \cup {kind}

----------------------------------------------------------------------------
(* The store                                                               *)

Known(l) == l.active \cup ToSet(l.ended)

(* Variant: the numbers in use decide, and not the counter.                *)
NextIdInUse(l) == Max(Known(l) \cup {0}) + 1

(* _allocate_session_id                                                    *)
NextId(l) == Max(Known(l) \cup {l.seq}) + 1

(* _prune: the ended Sessions longest unchanged go.                        *)
Pruned(ended) ==
  IF Len(ended) <= Keep THEN ended ELSE SubSeq(ended, Len(ended) - Keep + 1, Len(ended))

(* The ended Sessions but one: a Session is among them once.               *)
Without(ended, id) ==
  IF id \in ToSet(ended) THEN RemoveAt(ended, CHOOSE i \in DOMAIN ended : ended[i] = id)
                         ELSE ended

(* update: an ended Session is the one last changed, and ended ones are    *)
(* pruned; one that is resumed is active again.                            *)
Updated(l, id, ends) ==
  LET others == Without(l.ended, id) IN
  IF ends THEN [l EXCEPT !.active = @ \ {id}, !.ended = Pruned(Append(others, id))]
  ELSE [l EXCEPT !.active = @ \cup {id}, !.ended = others]

(* A change of the ledger, and the flush that follows it begins.           *)
Changes(l, promised) ==
  /\ up /\ stage = "idle" /\ changes < MaxChanges
  /\ mem' = [l EXCEPT !.change = changes + 1] /\ changes' = changes + 1
  /\ reserved' = promised
  /\ stage' = "begun"
  /\ UNCHANGED <<up, tmp, disk, views, history, mishaps>>

(* reserve_session_id                                                      *)
ReserveId == Changes([mem EXCEPT !.seq = NextId(mem)], reserved \cup {NextId(mem)})

(* create, with an id of its own or one reserved before                    *)
Create ==
  \E id \in reserved \cup {NextId(mem)} :
    Changes([mem EXCEPT !.active = @ \cup {id}, !.seq = Max({@, id})], reserved \ {id})

Update == \E id \in Known(mem), ends \in BOOLEAN : Changes(Updated(mem, id, ends), reserved)

(* clear_terminal                                                          *)
ClearTerminal == mem.ended # <<>> /\ Changes([mem EXCEPT !.ended = <<>>], reserved)

----------------------------------------------------------------------------
(* _flush and atomic_write                                                 *)

(* A change of the directory: a loss of power leaves it or an earlier one. *)
Renamed(d, after) == disk' = d /\ views' = views \cup {after}

WriteTmp ==
  /\ up /\ stage = "begun"
  /\ stage' = "written" /\ tmp' = "written"
  /\ UNCHANGED <<up, store, disk, views, history, mishaps>>

SyncTmp ==
  /\ up /\ stage = "written"
  /\ stage' = "synced" /\ tmp' = "synced"
  /\ UNCHANGED <<up, store, disk, views, history, mishaps>>

(* Variant: no backup is kept.                                             *)
NoBackup ==
  /\ up /\ stage = "synced" /\ stage' = "backed"
  /\ UNCHANGED <<up, store, tmp, disk, views, history, mishaps>>

(* path.replace(bak), if there is a file; an error is ignored.             *)
Backup ==
  /\ up /\ stage = "synced" /\ stage' = "backed"
  /\ \/ /\ disk.main # NoFile
        /\ LET d == [main |-> NoFile, bak |-> disk.main] IN Renamed(d, d)
        /\ UNCHANGED mishaps
     \/ /\ disk.main = NoFile /\ UNCHANGED <<disk, views, mishaps>>
     \/ /\ disk.main # NoFile /\ Happens("backup") /\ UNCHANGED <<disk, views>>
  /\ UNCHANGED <<up, store, tmp, history>>

(* tmp.replace(path); without the sync its data may be missing.            *)
Replace ==
  /\ up /\ stage = "backed"
  /\ stage' = "replaced" /\ tmp' = "none"
  /\ Renamed([disk EXCEPT !.main = File(mem)],
             [disk EXCEPT !.main = IF tmp = "synced" THEN File(mem) ELSE Torn])
  /\ UNCHANGED <<up, store, history, mishaps>>

(* The caller goes on, and has the ids that were allocated.                *)
Returns ==
  /\ stage' = "idle"
  /\ handed' = handed \cup Known(mem) \cup reserved

(* _fsync_dir, of which an error is ignored too (and which does nothing on *)
(* Windows)                                                                *)
SyncDir ==
  /\ up /\ stage = "replaced"
  /\ \/ views' = {disk} /\ UNCHANGED mishaps
     \/ Happens("sync") /\ UNCHANGED views
  /\ Returns /\ saved' = mem.change /\ before' = saved
  /\ UNCHANGED <<up, store, tmp, disk>>

(* atomic_write raises, and _flush logs it.                                *)
FlushFails ==
  /\ up /\ stage \in {"begun", "written", "synced", "backed"}
  /\ Happens("flush") /\ Returns
  /\ UNCHANGED <<up, store, tmp, disk, views, saved, before>>

----------------------------------------------------------------------------
(* Death, damage and start                                                 *)

Dies(d) ==
  /\ up' = FALSE /\ mem' = Empty /\ reserved' = {} /\ stage' = "idle" /\ tmp' = "none"
  /\ disk' = d /\ views' = {d}
  /\ UNCHANGED <<changes, history, mishaps>>

ProcessDies == up /\ Dies(disk)

PowerFails == up /\ \E v \in views : Dies(v)

Damaged(d) == [d EXCEPT !.main = IF @ = NoFile THEN NoFile ELSE Torn]

DiskDamaged ==
  /\ ~up /\ disk.main # NoFile /\ Happens("damage")
  /\ disk' = Damaged(disk) /\ views' = {disk'}
  /\ UNCHANGED <<up, store, stage, tmp, history>>

Readable(f) == f.is = "whole"

(* _read_json and _load: the file in use, else the backup, else nothing.   *)
Loaded(d) ==
  IF Readable(d.main) THEN d.main.ledger
  ELSE IF Readable(d.bak) THEN d.bak.ledger ELSE Empty

(* _archive_corrupt: a torn file is put aside, unless that fails.          *)
Start ==
  /\ ~up /\ up' = TRUE
  /\ mem' = Loaded(disk)
  /\ \/ /\ disk.main # Torn /\ UNCHANGED <<disk, views, mishaps>>
     \/ /\ disk.main = Torn /\ UNCHANGED mishaps
        /\ LET d == [disk EXCEPT !.main = NoFile] IN Renamed(d, d)
     \/ /\ disk.main = Torn /\ Happens("archive") /\ UNCHANGED <<disk, views>>
  /\ UNCHANGED <<reserved, changes, stage, tmp, history>>

----------------------------------------------------------------------------

Next ==
  \/ ReserveId \/ Create \/ Update \/ ClearTerminal
  \/ WriteTmp \/ SyncTmp \/ Backup \/ Replace \/ SyncDir \/ FlushFails
  \/ ProcessDies \/ PowerFails \/ DiskDamaged \/ Start

Spec == Init /\ [][Next]_vars

----------------------------------------------------------------------------
(* Properties                                                              *)

Ids == 1..MaxChanges

Ledger(l) ==
  /\ l.seq \in 0..MaxChanges /\ l.change \in 0..changes
  /\ l.active \subseteq 1..l.seq /\ ToSet(l.ended) \subseteq 1..l.seq
  /\ l.active \cap ToSet(l.ended) = {}
  /\ Cardinality(ToSet(l.ended)) = Len(l.ended) /\ Len(l.ended) <= Keep

(* Every ledger in memory or in a file is one the store can have made: no  *)
(* Session is in it twice or as ended and active, its counter covers its   *)
(* ids, and its history is bounded by what update prunes.                  *)
LedgerConsistent ==
  /\ stage \in {"idle", "begun", "written", "synced", "backed", "replaced"}
  /\ tmp \in {"none", "written", "synced"} /\ mishaps \subseteq Mishaps
  /\ disk \in views \/ up
  /\ Ledger(mem)
  /\ \A v \in views \cup {disk} : \A f \in {v.main, v.bak} : Ledger(f.ledger)

(* A change whose flush succeeded is loaded after the process or the       *)
(* machine dies at any moment: between the renamings, before the directory *)
(* is synced, after flushes and backups that failed.  Only damage to a     *)
(* file, and a directory that cannot be synced, except.                    *)
NothingSavedIsLost ==
  mishaps \cap {"damage", "sync"} = {} =>
    \A v \in views \cup {disk} : Loaded(v).change >= saved

(* If the file in use is found damaged, at most one saved change is lost,  *)
(* before the daemon starts from the backup and after: the backup is the   *)
(* ledger before it, and no torn file takes its place.  A backup that was  *)
(* not made, or a torn file that cannot be put aside, loses more.          *)
DamageCostsOneChange ==
  mishaps \cap {"backup", "sync", "archive"} = {} =>
    \A v \in views \cup {disk} :
      Loaded(IF "damage" \in mishaps THEN v ELSE Damaged(v)).change >= before

(* What was saved survives: all of it a crash, all but one change a damage.*)
SavedSurvives == NothingSavedIsLost /\ DamageCostsOneChange

(* An id given to a caller is not given again, by this process or by one   *)
(* that starts from what is on disk, after Sessions were pruned or cleared *)
(* and after any death.  A flush that fails, and damage, except: the id    *)
(* was given and the counter not saved.                                    *)
IdsNeverReused ==
  mishaps \cap {"damage", "flush", "sync"} = {} =>
    /\ up /\ stage = "idle" => \A h \in handed : NextId(mem) > h
    /\ \A v \in views \cup {disk} : \A h \in handed : NextId(Loaded(v)) > h

=============================================================================
