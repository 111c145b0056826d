-------------------------- MODULE LedgerFileProofs --------------------------
(***************************************************************************)
(* For any number of changes, and any mishaps: what was saved survives the *)
(* death of the process or the machine at any file operation of a flush,   *)
(* and a file in use that is found damaged costs one change at most.       *)
(***************************************************************************)
EXTENDS LedgerFile, SequenceTheorems, TLAPS

----------------------------------------------------------------------------
(* What can be in a ledger, a file, the directory                          *)

(* A counter that covers the ids, so that the next one is its successor    *)
Covers(seq, active, ended) ==
  seq \in Nat /\ active \subseteq 1..seq /\ ended \in Seq(1..seq)

IsLedger(l) ==
  /\ l = [seq |-> l.seq, active |-> l.active, ended |-> l.ended, change |-> l.change]
  /\ l.change \in Nat /\ Covers(l.seq, l.active, l.ended)

IsFile(f) == f \in {NoFile, Torn} \/ (IsLedger(f.ledger) /\ f = File(f.ledger))

IsView(v) == v = [main |-> v.main, bak |-> v.bak] /\ IsFile(v.main) /\ IsFile(v.bak)

(* The change that a start from these two files finds, and that it finds   *)
(* if the file in use is damaged before.                                   *)
Worth(v)   == Loaded(v).change
Reserve(v) == Worth([v EXCEPT !.main = NoFile])

LEMMA EmptyIsLedger == IsLedger(Empty)
<1>1. <<>> \in Seq(1..0)
  OBVIOUS
<1> QED
  BY <1>1 DEF IsLedger, Covers, Empty

LEMMA FilesDiffer ==
  /\ NoFile # Torn /\ IsLedger(Empty) /\ Empty.change = 0
  /\ \A l : File(l) \notin {NoFile, Torn} /\ Readable(File(l)) /\ File(l).ledger = l
  /\ ~Readable(NoFile) /\ ~Readable(Torn)
BY EmptyIsLedger DEF NoFile, Torn, File, Readable, Empty

LEMMA WorthIsChange ==
  ASSUME NEW v, IsView(v)
  PROVE  /\ Worth(v) \in Nat /\ Reserve(v) \in Nat
         /\ IsView(Damaged(v)) /\ Worth(Damaged(v)) = Reserve(v)
         /\ Damaged(v).bak = v.bak
         /\ v.main \in {NoFile, Torn} => Worth(v) = Reserve(v)
<1>1. /\ IsFile(v.main) /\ IsFile(v.bak) /\ v = [main |-> v.main, bak |-> v.bak]
  BY DEF IsView
<1>2. \A f : IsFile(f) /\ Readable(f) => IsLedger(f.ledger)
  BY FilesDiffer DEF IsFile
<1>3. Worth(v) \in Nat
  BY <1>1, <1>2, FilesDiffer DEF Worth, Loaded, IsLedger
<1>4. Reserve(v) = IF Readable(v.bak) THEN v.bak.ledger.change ELSE 0
  BY <1>1, FilesDiffer DEF Reserve, Worth, Loaded
<1>5. Reserve(v) \in Nat
  <2>1. Readable(v.bak) => v.bak.ledger.change \in Nat
    BY <1>1, <1>2 DEF IsLedger
  <2> QED
    BY <1>4, <2>1
<1>6. /\ Damaged(v) = [main |-> IF v.main = NoFile THEN NoFile ELSE Torn, bak |-> v.bak]
  BY <1>1 DEF Damaged
<1>7. IsView(Damaged(v)) /\ Damaged(v).bak = v.bak
  BY <1>1, <1>6 DEF IsView, IsFile
<1>8. Worth(Damaged(v)) = Reserve(v)
  BY <1>4, <1>6, FilesDiffer DEF Worth, Loaded
<1>9. v.main \in {NoFile, Torn} => Worth(v) = Reserve(v)
  BY <1>1, <1>4, FilesDiffer DEF Worth, Loaded
<1> QED
  BY <1>3, <1>5, <1>7, <1>8, <1>9

(* The file in use becomes the backup.                                     *)
LEMMA BackedUp ==
  ASSUME NEW v, IsView(v), NEW d, d = [main |-> NoFile, bak |-> v.main]
  PROVE  /\ IsView(d) /\ d.main = NoFile /\ d.bak = v.main
         /\ v.main \notin {NoFile, Torn} => Worth(d) = Worth(v) /\ Reserve(d) = Worth(v)
<1>1. IsView(d) /\ d.main = NoFile /\ d.bak = v.main
  BY DEF IsView, IsFile
<1>2. ASSUME v.main \notin {NoFile, Torn} PROVE Worth(d) = Worth(v)
  <2>1. Readable(v.main)
    BY <1>2, FilesDiffer DEF IsView, IsFile
  <2> QED
    BY <1>1, <2>1, FilesDiffer DEF Worth, Loaded
<1>3. Worth(d) = Reserve(d)
  BY <1>1, WorthIsChange
<1> QED
  BY <1>1, <1>2, <1>3

(* A new file takes its place; the backup is what it was.                  *)
LEMMA Replaced ==
  ASSUME NEW v, IsView(v), NEW m, IsLedger(m), NEW d, d = [v EXCEPT !.main = File(m)]
  PROVE  /\ IsView(d) /\ d.main = File(m) /\ d.bak = v.bak
         /\ Worth(d) = m.change /\ Reserve(d) = Reserve(v)
<1>1. d = [main |-> File(m), bak |-> v.bak] /\ v = [main |-> v.main, bak |-> v.bak]
  BY DEF IsView
<1>2. IsView(d)
  BY <1>1, FilesDiffer DEF IsView, IsFile
<1>3. Worth(d) = m.change
  BY <1>1, FilesDiffer DEF Worth, Loaded
<1>4. [d EXCEPT !.main = NoFile] = [v EXCEPT !.main = NoFile]
  BY <1>1
<1> QED
  BY <1>1, <1>2, <1>3, <1>4 DEF Reserve

(* A torn file is put aside.                                               *)
LEMMA PutAside ==
  ASSUME NEW v, IsView(v), v.main = Torn, NEW d, d = [v EXCEPT !.main = NoFile]
  PROVE  /\ IsView(d) /\ d.main = NoFile /\ d.bak = v.bak
         /\ Worth(d) = Worth(v) /\ Reserve(d) = Reserve(v)
<1>1. d = [main |-> NoFile, bak |-> v.bak] /\ v = [main |-> v.main, bak |-> v.bak]
  BY DEF IsView
<1>2. IsView(d)
  BY <1>1 DEF IsView, IsFile
<1>3. [d EXCEPT !.main = NoFile] = [v EXCEPT !.main = NoFile]
  BY <1>1
<1>4. Reserve(d) = Reserve(v)
  BY <1>3 DEF Reserve
<1> QED
  BY <1>1, <1>2, <1>4, WorthIsChange
----------------------------------------------------------------------------
(* The inductive invariant                                                 *)

Stages == {"idle", "begun", "written", "synced", "backed", "replaced"}

Typed ==
  /\ up \in BOOLEAN /\ stage \in Stages
  /\ IsLedger(mem) /\ reserved \subseteq 1..mem.seq /\ (~up => reserved = {})
  /\ changes \in Nat /\ saved \in Nat /\ before \in Nat
  /\ disk \in views /\ \A v \in views : IsView(v)

(* How far the flush is.                                                   *)
Flushing ==
  /\ stage # "idle" => up /\ mem.change = changes
  /\ stage \in {"synced", "backed"} => tmp = "synced"
  /\ stage = "replaced" => disk.main = File(mem)
  /\ before <= saved /\ saved <= changes

(* Only damage leaves a torn file, and only one that cannot be put aside   *)
(* is there when the daemon runs.                                          *)
Untorn ==
  /\ "damage" \notin mishaps => \A v \in views : v.main # Torn /\ v.bak # Torn
  /\ "archive" \notin mishaps =>
       (\A v \in views : v.bak # Torn) /\ (up => disk.main # Torn)

NothingLost ==
  mishaps \cap {"damage", "sync"} = {} => \A v \in views : Worth(v) >= saved

(* While the file in use is being replaced, the backup has what was saved. *)
BackupServes ==
  /\ stage = "backed" /\ "backup" \notin mishaps => disk.main = NoFile
  /\ stage = "replaced" /\ mishaps \cap {"damage", "sync", "backup"} = {} =>
       Reserve(disk) >= saved

OneChangeLost ==
  mishaps \cap {"backup", "sync", "archive"} = {} =>
    \A v \in views : IF "damage" \in mishaps THEN Worth(v) >= before ELSE Reserve(v) >= before

FileInv == Typed /\ Flushing /\ Untorn /\ NothingLost /\ BackupServes /\ OneChangeLost

LEMMA FileInit == Init => FileInv
<1> SUFFICES ASSUME Init PROVE FileInv
  OBVIOUS
<1>1. IsView(disk) /\ disk.main = NoFile /\ disk.bak = NoFile
  BY DEF Init, IsView, IsFile
<1>2. Worth(disk) \in Nat /\ Reserve(disk) \in Nat
  BY <1>1, WorthIsChange
<1> QED
  BY <1>1, <1>2, FilesDiffer
  DEF Init, FileInv, Typed, Stages, Flushing, Untorn, NothingLost, BackupServes, OneChangeLost

(* What the properties say of the views.                                   *)
LEMMA FileInvSays == FileInv => SavedSurvives
<1> SUFFICES ASSUME FileInv PROVE SavedSurvives
  OBVIOUS
<1>1. views \cup {disk} = views /\ \A v \in views : IsView(v)
  BY DEF FileInv, Typed
<1>2. NothingSavedIsLost
  BY <1>1 DEF FileInv, NothingLost, NothingSavedIsLost, Worth
<1>3. DamageCostsOneChange
  <2> SUFFICES ASSUME mishaps \cap {"backup", "sync", "archive"} = {}, NEW v \in views
               PROVE  Worth(IF "damage" \in mishaps THEN v ELSE Damaged(v)) >= before
    BY <1>1 DEF DamageCostsOneChange, Worth
  <2>1. Worth(Damaged(v)) = Reserve(v)
    BY <1>1, WorthIsChange
  <2> QED
    BY <2>1 DEF FileInv, OneChangeLost
<1> QED
  BY <1>2, <1>3 DEF SavedSurvives
----------------------------------------------------------------------------
(* Each step keeps the invariant                                           *)

(* A step that touches no file and counts nothing as saved.                *)
LEMMA FilesUntouched ==
  ASSUME FileInv, UNCHANGED <<disk, views, saved, before, mishaps>>, up' => up
  PROVE  Untorn' /\ NothingLost' /\ OneChangeLost'
<1>1. Untorn'
  BY DEF FileInv, Untorn
<1>2. NothingLost'
  BY DEF FileInv, NothingLost, Worth
<1>3. OneChangeLost'
  BY DEF FileInv, OneChangeLost, Worth, Reserve
<1> QED
  BY <1>1, <1>2, <1>3

LEMMA ChangeKeeps ==
  ASSUME FileInv, NEW l, IsLedger(l), NEW promised, promised \subseteq 1..l.seq, Changes(l, promised)
  PROVE  FileInv'
<1>1. Untorn' /\ NothingLost' /\ OneChangeLost'
  BY FilesUntouched DEF Changes, history
<1>2. mem' = [seq |-> l.seq, active |-> l.active, ended |-> l.ended, change |-> changes + 1]
  BY DEF Changes, IsLedger
<1>3. IsLedger(mem') /\ mem'.change = changes' /\ mem'.seq = l.seq
  BY <1>2 DEF Changes, IsLedger, FileInv, Typed
<1>4. Typed'
  BY <1>3 DEF Changes, history, FileInv, Typed, Stages
<1>5. Flushing'
  BY <1>3 DEF Changes, history, FileInv, Typed, Flushing
<1>6. BackupServes'
  BY DEF Changes, BackupServes
<1> QED
  BY <1>1, <1>4, <1>5, <1>6 DEF FileInv

(* A ledger by its parts                                                   *)
Made(q, a, e, c) == [seq |-> q, active |-> a, ended |-> e, change |-> c]

LEMMA MadeIs ==
  ASSUME NEW q, NEW a, NEW e, Covers(q, a, e), NEW c \in Nat
  PROVE  IsLedger(Made(q, a, e, c)) /\ Made(q, a, e, c).seq = q
BY DEF Made, IsLedger

(* The next id is the counter's successor, for the counter covers all ids. *)
LEMMA NextIdIs ==
  ASSUME NEW l, IsLedger(l)
  PROVE  NextId(l) = l.seq + 1 /\ l.seq \in Nat
<1> DEFINE S == Known(l) \cup {l.seq}
<1>1. l.seq \in Nat /\ Known(l) \subseteq 1..l.seq
  BY DEF IsLedger, Covers, Known, ToSet
<1>2. l.seq \in S /\ \A y \in S : y \in Nat /\ l.seq >= y
  BY <1>1
<1>3. Max(S) \in S /\ \A y \in S : Max(S) >= y
  <2> HIDE DEF S
  <2> QED
    BY <1>2 DEF Max
<1>4. Max(S) = l.seq
  BY <1>2, <1>3
<1> QED
  BY <1>1, <1>4 DEF NextId

(* A sequence without one of its members, and with one put at the end.     *)
LEMMA Moved ==
  ASSUME NEW T, NEW q \in Seq(T), NEW x \in T
  PROVE  Without(q, x) \in Seq(T) /\ Pruned(Append(Without(q, x), x)) \in Seq(T)
<1>1. Without(q, x) \in Seq(T)
  <2>1. CASE x \in ToSet(q)
    <3> DEFINE i == CHOOSE k \in DOMAIN q : q[k] = x
    <3>1. i \in DOMAIN q
      BY <2>1 DEF ToSet
    <3>2. i \in 1..Len(q) /\ Len(q) \in Nat
      BY <3>1
    <3>3. SubSeq(q, 1, i - 1) \in Seq(T) /\ SubSeq(q, i + 1, Len(q)) \in Seq(T)
      <4> HIDE DEF i
      <4>1. (\A k \in 1..i - 1 : q[k] \in T) /\ (\A k \in i + 1..Len(q) : q[k] \in T)
        BY <3>2
      <4>2. i - 1 \in Int /\ i + 1 \in Int /\ 1 \in Int /\ Len(q) \in Int
        BY <3>2
      <4> QED
        BY <4>1, <4>2, SubSeqProperties
    <3>4. RemoveAt(q, i) \in Seq(T)
      BY <3>3, ConcatProperties DEF RemoveAt
    <3> QED
      BY <2>1, <3>4 DEF Without
  <2>2. CASE x \notin ToSet(q)
    BY <2>2 DEF Without
  <2> QED
    BY <2>1, <2>2
<1>2. Append(Without(q, x), x) \in Seq(T)
  BY <1>1, AppendProperties
<1>3. ASSUME NEW r \in Seq(T) PROVE Pruned(r) \in Seq(T)
  <2>1. CASE Len(r) <= Keep
    BY <2>1 DEF Pruned
  <2>2. CASE ~(Len(r) <= Keep)
    <3>1. Len(r) \in Nat /\ Keep \in Nat /\ Len(r) - Keep + 1 \in 1..Len(r) + 1
      BY <2>2, LedgerFileAssumption
    <3>2. SubSeq(r, Len(r) - Keep + 1, Len(r)) \in Seq(T)
      BY <3>1, SubSeqProperties
    <3> QED
      BY <2>2, <3>2 DEF Pruned
  <2> QED
    BY <2>1, <2>2
<1> QED
  BY <1>1, <1>2, <1>3

(* What a change of the store makes of the ledger.                         *)
LEMMA StoreMakes ==
  ASSUME FileInv, ReserveId \/ Create \/ Update \/ ClearTerminal
  PROVE  \E l, promised : /\ IsLedger(l) /\ l.seq >= mem.seq /\ promised \subseteq 1..l.seq
                          /\ Changes(l, promised)
<1>1. /\ IsLedger(mem) /\ reserved \subseteq 1..mem.seq
      /\ mem = [seq |-> mem.seq, active |-> mem.active, ended |-> mem.ended, change |-> mem.change]
      /\ mem.seq \in Nat /\ Covers(mem.seq, mem.active, mem.ended)
      /\ NextId(mem) = mem.seq + 1
      /\ mem = Made(mem.seq, mem.active, mem.ended, mem.change) /\ mem.change \in Nat
  BY NextIdIs DEF FileInv, Typed, IsLedger, Made
<1>2. ASSUME NEW a, NEW e, NEW q, Covers(q, a, e)
      PROVE  IsLedger(Made(q, a, e, mem.change)) /\ Made(q, a, e, mem.change).seq = q
  BY <1>1, <1>2, MadeIs
<1>r. mem = [seq |-> mem.seq, active |-> mem.active, ended |-> mem.ended, change |-> mem.change]
  BY <1>1
<1>3. ASSUME NEW q \in Nat, q >= mem.seq
      PROVE  1..mem.seq \subseteq 1..q /\ mem.active \subseteq 1..q /\ mem.ended \in Seq(1..q)
  <2>1. 1..mem.seq \subseteq 1..q
    BY <1>1, <1>3
  <2> QED
    BY <1>1, <2>1, SeqMonotonic DEF Covers
<1>4. CASE ReserveId
  <2> DEFINE q == mem.seq + 1
             l == Made(q, mem.active, mem.ended, mem.change)
  <2>1. Covers(q, mem.active, mem.ended)
    BY <1>1, <1>3 DEF Covers
  <2>2. IsLedger(l) /\ l.seq = q
    BY <1>2, <2>1
  <2>3. l = [mem EXCEPT !.seq = NextId(mem)]
    BY <1>1, <1>r DEF Made
  <2>4. reserved \cup {NextId(mem)} \subseteq 1..q
    BY <1>1, <1>3
  <2>5. Changes([mem EXCEPT !.seq = NextId(mem)], reserved \cup {NextId(mem)})
    BY <1>4 DEF ReserveId
  <2>6. Changes(l, reserved \cup {NextId(mem)})
    BY <2>3, <2>5
  <2> HIDE DEF l
  <2> QED
    BY <1>1, <2>2, <2>4, <2>6
<1>5. CASE Create
  <2>1. PICK id \in reserved \cup {NextId(mem)} :
          Changes([mem EXCEPT !.active = @ \cup {id}, !.seq = Max({@, id})], reserved \ {id})
    BY <1>5 DEF Create
  <2> DEFINE q == Max({mem.seq, id})
             a == mem.active \cup {id}
             l == Made(q, a, mem.ended, mem.change)
  <2>2. id \in Nat \ {0}
    BY <1>1, <2>1
  <2>3. q \in {mem.seq, id} /\ q >= mem.seq /\ q >= id
    BY <1>1, <2>2 DEF Max
  <2>4. q \in Nat
    BY <1>1, <2>2, <2>3
  <2> HIDE DEF q
  <2>5. Covers(q, a, mem.ended)
    BY <1>3, <2>2, <2>3, <2>4 DEF Covers
  <2>6. IsLedger(l) /\ l.seq = q
    BY <1>2, <2>5
  <2>7. l = [mem EXCEPT !.active = @ \cup {id}, !.seq = Max({@, id})]
    <3>1. PICK k : k = [mem EXCEPT !.active = @ \cup {id}]
      OBVIOUS
    <3>2. k = [seq |-> mem.seq, active |-> a, ended |-> mem.ended, change |-> mem.change]
      BY <1>r, <3>1
    <3>3. l = [k EXCEPT !.seq = q]
      BY <3>2 DEF Made
    <3> QED
      BY <3>1, <3>3 DEF q
  <2>8. reserved \ {id} \subseteq 1..q
    BY <1>1, <1>3, <2>3, <2>4
  <2>9. Changes(l, reserved \ {id})
    BY <2>1, <2>7
  <2> HIDE DEF l
  <2> QED
    BY <2>3, <2>6, <2>8, <2>9
<1>6. CASE Update
  <2>1. PICK id \in Known(mem), ends \in BOOLEAN : Changes(Updated(mem, id, ends), reserved)
    BY <1>6 DEF Update
  <2>2. id \in 1..mem.seq
    BY <1>1, <2>1 DEF Known, Covers, ToSet
  <2>3. ASSUME NEW a, NEW e, e \in Seq(1..mem.seq), a \subseteq 1..mem.seq,
               Updated(mem, id, ends) = [mem EXCEPT !.active = a, !.ended = e]
        PROVE  \E l, promised : /\ IsLedger(l) /\ l.seq >= mem.seq /\ promised \subseteq 1..l.seq
                                /\ Changes(l, promised)
    <3> DEFINE l == Made(mem.seq, a, e, mem.change)
    <3>1. Covers(mem.seq, a, e)
      BY <1>1, <2>3 DEF Covers
    <3>2. IsLedger(l) /\ l.seq = mem.seq
      BY <1>2, <3>1
    <3>3. l = [mem EXCEPT !.active = a, !.ended = e]
      <4>1. PICK k : k = [mem EXCEPT !.active = a]
        OBVIOUS
      <4>2. k = [seq |-> mem.seq, active |-> a, ended |-> mem.ended, change |-> mem.change]
        BY <1>r, <4>1
      <4>3. l = [k EXCEPT !.ended = e]
        BY <4>2 DEF Made
      <4> QED
        BY <4>1, <4>3
    <3>4. Changes(l, reserved)
      BY <2>1, <2>3, <3>3
    <3> HIDE DEF l
    <3> QED
      BY <1>1, <3>2, <3>4
  <2> DEFINE others == Without(mem.ended, id)
             kept == Pruned(Append(others, id))
  <2>4. others \in Seq(1..mem.seq) /\ kept \in Seq(1..mem.seq)
    BY <1>1, <2>2, Moved DEF Covers
  <2>5. mem.active \ {id} \subseteq 1..mem.seq /\ mem.active \cup {id} \subseteq 1..mem.seq
    BY <1>1, <2>2 DEF Covers
  <2>6. \/ Updated(mem, id, ends) = [mem EXCEPT !.active = mem.active \ {id}, !.ended = kept]
        \/ Updated(mem, id, ends) = [mem EXCEPT !.active = mem.active \cup {id}, !.ended = others]
    BY DEF Updated
  <2> HIDE DEF kept, others
  <2> QED
    BY <2>3, <2>4, <2>5, <2>6
<1>7. CASE ClearTerminal
  <2> DEFINE l == Made(mem.seq, mem.active, <<>>, mem.change)
  <2>1. <<>> \in Seq(1..mem.seq)
    OBVIOUS
  <2>2. Covers(mem.seq, mem.active, <<>>)
    BY <1>1, <2>1 DEF Covers
  <2>3. IsLedger(l) /\ l.seq = mem.seq
    BY <1>2, <2>2
  <2>4. l = [mem EXCEPT !.ended = <<>>]
    BY <1>r DEF Made
  <2>5. Changes([mem EXCEPT !.ended = <<>>], reserved)
    BY <1>7 DEF ClearTerminal
  <2>6. Changes(l, reserved)
    BY <2>4, <2>5
  <2> HIDE DEF l
  <2> QED
    BY <1>1, <2>3, <2>6
<1> QED
  BY <1>4, <1>5, <1>6, <1>7

LEMMA StoreKeeps ==
  ASSUME FileInv, ReserveId \/ Create \/ Update \/ ClearTerminal
  PROVE  FileInv'
BY StoreMakes, ChangeKeeps

LEMMA WriteKeeps ==
  ASSUME FileInv, WriteTmp \/ SyncTmp
  PROVE  FileInv'
<1>1. Untorn' /\ NothingLost' /\ OneChangeLost'
  BY FilesUntouched DEF WriteTmp, SyncTmp, history
<1>2. Typed' /\ Flushing'
  BY DEF WriteTmp, SyncTmp, store, history, FileInv, Typed, Stages, Flushing
<1>3. BackupServes'
  BY DEF WriteTmp, SyncTmp, BackupServes
<1> QED
  BY <1>1, <1>2, <1>3 DEF FileInv

LEMMA BackupKeeps ==
  ASSUME FileInv, Backup
  PROVE  FileInv'
<1>1. /\ up /\ stage = "synced" /\ stage' = "backed" /\ IsView(disk) /\ disk \in views
      /\ saved \in Nat /\ before \in Nat /\ before <= saved
      /\ UNCHANGED <<up, mem, reserved, changes, tmp, handed, saved, before>>
  BY DEF Backup, store, history, FileInv, Typed, Flushing
<1>2. CASE disk.main # NoFile /\ mishaps' = mishaps
             /\ disk' = [main |-> NoFile, bak |-> disk.main] /\ views' = views \cup {disk'}
  <2>1. /\ IsView(disk') /\ disk'.main = NoFile /\ disk'.bak = disk.main
        /\ disk.main # Torn => Worth(disk') = Worth(disk) /\ Reserve(disk') = Worth(disk)
    BY <1>1, <1>2, BackedUp
  <2>2. Typed' /\ Flushing'
    BY <1>1, <1>2, <2>1 DEF FileInv, Typed, Stages, Flushing
  <2>3. Untorn'
    BY <1>1, <1>2, <2>1, FilesDiffer DEF FileInv, Untorn
  <2>4. NothingLost'
    <3> SUFFICES ASSUME mishaps \cap {"damage", "sync"} = {}, NEW v \in views'
                 PROVE  Worth(v) >= saved
      BY <1>1, <1>2 DEF NothingLost, Worth
    <3>1. Worth(disk') = Worth(disk)
      BY <1>1, <2>1 DEF FileInv, Untorn
    <3> QED
      BY <1>1, <1>2, <3>1 DEF FileInv, NothingLost
  <2>5. BackupServes'
    BY <1>1, <2>1 DEF BackupServes
  <2>6. OneChangeLost'
    <3> SUFFICES ASSUME mishaps \cap {"backup", "sync", "archive"} = {}, NEW v \in views'
                 PROVE  IF "damage" \in mishaps THEN Worth(v) >= before ELSE Reserve(v) >= before
      BY <1>1, <1>2 DEF OneChangeLost, Worth, Reserve
    <3>1. Worth(disk') = Worth(disk) /\ Reserve(disk') = Worth(disk)
      BY <1>1, <2>1 DEF FileInv, Untorn
    <3>2. Worth(disk) \in Nat
      BY <1>1, WorthIsChange
    <3>3. "damage" \notin mishaps => Worth(disk) >= saved
      BY <1>1 DEF FileInv, NothingLost
    <3> QED
      BY <1>1, <1>2, <3>1, <3>2, <3>3 DEF FileInv, OneChangeLost
  <2> QED
    BY <2>2, <2>3, <2>4, <2>5, <2>6 DEF FileInv
<1>3. CASE disk.main = NoFile /\ UNCHANGED <<disk, views, mishaps>>
  <2>1. Untorn' /\ NothingLost' /\ OneChangeLost'
    BY <1>1, <1>3, FilesUntouched
  <2>2. Typed' /\ Flushing' /\ BackupServes'
    BY <1>1, <1>3 DEF FileInv, Typed, Stages, Flushing, BackupServes
  <2> QED
    BY <2>1, <2>2 DEF FileInv
<1>4. CASE mishaps' = mishaps \cup {"backup"} /\ UNCHANGED <<disk, views>>
  <2>1. Typed' /\ Flushing' /\ BackupServes'
    BY <1>1, <1>4 DEF FileInv, Typed, Stages, Flushing, BackupServes
  <2>2. Untorn'
    BY <1>1, <1>4 DEF FileInv, Untorn
  <2>3. NothingLost'
    BY <1>1, <1>4 DEF FileInv, NothingLost, Worth
  <2>4. OneChangeLost'
    BY <1>4 DEF OneChangeLost
  <2> QED
    BY <2>1, <2>2, <2>3, <2>4 DEF FileInv
<1> QED
  BY <1>2, <1>3, <1>4 DEF Backup, Renamed, Happens
LEMMA ReplaceKeeps ==
  ASSUME FileInv, Replace
  PROVE  FileInv'
<1>1. /\ up /\ stage = "backed" /\ stage' = "replaced" /\ tmp = "synced"
      /\ IsView(disk) /\ disk \in views /\ IsLedger(mem) /\ mem.change = changes
      /\ saved \in Nat /\ before \in Nat /\ before <= saved /\ saved <= changes
      /\ disk' = [disk EXCEPT !.main = File(mem)] /\ views' = views \cup {disk'}
      /\ UNCHANGED <<up, mem, reserved, changes, saved, before, mishaps>>
  BY DEF Replace, Renamed, store, history, FileInv, Typed, Flushing
<1>2. /\ IsView(disk') /\ disk'.main = File(mem) /\ disk'.bak = disk.bak
      /\ Worth(disk') = changes /\ Reserve(disk') = Reserve(disk)
  BY <1>1, Replaced
<1>3. Typed' /\ Flushing'
  BY <1>1, <1>2 DEF FileInv, Typed, Stages, Flushing
<1>4. Untorn'
  BY <1>1, <1>2, FilesDiffer DEF FileInv, Untorn
<1>5. NothingLost'
  <2> SUFFICES ASSUME mishaps \cap {"damage", "sync"} = {}, NEW v \in views'
               PROVE  Worth(v) >= saved
    BY <1>1 DEF NothingLost, Worth
  <2> QED
    BY <1>1, <1>2 DEF FileInv, NothingLost, Typed
<1>6. BackupServes'
  <2> SUFFICES ASSUME mishaps \cap {"damage", "sync", "backup"} = {}
               PROVE  Reserve(disk') >= saved
    BY <1>1 DEF BackupServes, Reserve, Worth
  <2>1. disk.main = NoFile
    BY <1>1 DEF FileInv, BackupServes
  <2>2. Reserve(disk) = Worth(disk)
    BY <1>1, <2>1, WorthIsChange
  <2> QED
    BY <1>1, <1>2, <2>2 DEF FileInv, NothingLost
<1>7. OneChangeLost'
  <2> SUFFICES ASSUME mishaps \cap {"backup", "sync", "archive"} = {}, NEW v \in views'
               PROVE  IF "damage" \in mishaps THEN Worth(v) >= before ELSE Reserve(v) >= before
    BY <1>1 DEF OneChangeLost, Worth, Reserve
  <2>1. changes >= before
    BY <1>1 DEF FileInv, Typed
  <2> QED
    BY <1>1, <1>2, <2>1 DEF FileInv, OneChangeLost
<1> QED
  BY <1>3, <1>4, <1>5, <1>6, <1>7 DEF FileInv

LEMMA SyncDirKeeps ==
  ASSUME FileInv, SyncDir
  PROVE  FileInv'
<1>1. /\ up /\ stage = "replaced" /\ stage' = "idle" /\ disk.main = File(mem)
      /\ IsView(disk) /\ disk \in views /\ IsLedger(mem) /\ mem.change = changes
      /\ saved \in Nat /\ before \in Nat /\ before <= saved /\ saved <= changes
      /\ changes \in Nat /\ saved' = changes /\ before' = saved
      /\ UNCHANGED <<up, mem, reserved, changes, tmp, disk>>
  BY DEF SyncDir, Returns, store, FileInv, Typed, Flushing
<1>2. disk = [disk EXCEPT !.main = File(mem)]
  BY <1>1 DEF IsView
<1>3. Worth(disk) = changes
  BY <1>1, <1>2, Replaced
<1>4. views' \subseteq views /\ disk' \in views' /\ mishaps \subseteq mishaps'
  BY <1>1 DEF SyncDir, Happens
<1>5. Typed' /\ Flushing' /\ BackupServes'
  BY <1>1, <1>4 DEF FileInv, Typed, Stages, Flushing, BackupServes
<1>6. Untorn'
  BY <1>1, <1>4 DEF FileInv, Untorn
<1>7. CASE views' = {disk} /\ UNCHANGED mishaps
  <2>1. NothingLost'
    BY <1>1, <1>3, <1>7 DEF NothingLost, Worth
  <2>2. OneChangeLost'
    <3> SUFFICES ASSUME mishaps \cap {"backup", "sync", "archive"} = {}
                 PROVE  IF "damage" \in mishaps THEN Worth(disk) >= saved ELSE Reserve(disk) >= saved
      BY <1>1, <1>7 DEF OneChangeLost, Worth, Reserve
    <3>1. "damage" \notin mishaps => Reserve(disk) >= saved
      BY <1>1 DEF FileInv, BackupServes
    <3> QED
      BY <1>1, <1>3, <3>1
  <2> QED
    BY <1>5, <1>6, <2>1, <2>2 DEF FileInv
<1>8. CASE "sync" \in mishaps'
  <2>1. NothingLost' /\ OneChangeLost'
    BY <1>8 DEF NothingLost, OneChangeLost
  <2> QED
    BY <1>5, <1>6, <2>1 DEF FileInv
<1> QED
  BY <1>7, <1>8 DEF SyncDir, Happens

LEMMA FlushFailsKeeps ==
  ASSUME FileInv, FlushFails
  PROVE  FileInv'
<1>1. /\ mishaps' = mishaps \cup {"flush"} /\ stage' = "idle"
      /\ UNCHANGED <<up, mem, reserved, changes, tmp, disk, views, saved, before>>
  BY DEF FlushFails, Happens, Returns, store
<1>2. Typed' /\ Flushing' /\ BackupServes'
  BY <1>1 DEF FileInv, Typed, Stages, Flushing, BackupServes
<1>3. Untorn'
  BY <1>1 DEF FileInv, Untorn
<1>4. NothingLost'
  BY <1>1 DEF FileInv, NothingLost, Worth
<1>5. OneChangeLost'
  BY <1>1 DEF FileInv, OneChangeLost, Worth, Reserve
<1> QED
  BY <1>2, <1>3, <1>4, <1>5 DEF FileInv

LEMMA DiesKeeps ==
  ASSUME FileInv, NEW d \in views, Dies(d)
  PROVE  FileInv'
<1>1. /\ up' = FALSE /\ mem' = Empty /\ reserved' = {} /\ stage' = "idle" /\ disk' = d /\ views' = {d}
      /\ UNCHANGED <<changes, saved, before, mishaps>>
  BY DEF Dies, history
<1>2. Typed' /\ Flushing' /\ BackupServes'
  BY <1>1, FilesDiffer DEF FileInv, Typed, Stages, Flushing, BackupServes
<1>3. Untorn'
  BY <1>1 DEF FileInv, Untorn
<1>4. NothingLost'
  BY <1>1 DEF FileInv, NothingLost, Worth
<1>5. OneChangeLost'
  BY <1>1 DEF FileInv, OneChangeLost, Worth, Reserve
<1> QED
  BY <1>2, <1>3, <1>4, <1>5 DEF FileInv

LEMMA DiskDamagedKeeps ==
  ASSUME FileInv, DiskDamaged
  PROVE  FileInv'
<1>1. /\ ~up /\ "damage" \notin mishaps /\ mishaps' = mishaps \cup {"damage"}
      /\ disk' = Damaged(disk) /\ views' = {disk'} /\ disk \in views /\ IsView(disk)
      /\ UNCHANGED <<up, mem, reserved, changes, stage, tmp, saved, before>>
  BY DEF DiskDamaged, Happens, store, history, FileInv, Typed
<1>2. IsView(disk') /\ Worth(disk') = Reserve(disk) /\ disk'.bak = disk.bak
  BY <1>1, WorthIsChange
<1>3. Typed' /\ Flushing' /\ BackupServes'
  BY <1>1, <1>2 DEF FileInv, Typed, Stages, Flushing, BackupServes
<1>4. Untorn'
  BY <1>1, <1>2 DEF FileInv, Untorn
<1>5. NothingLost'
  BY <1>1 DEF NothingLost
<1>6. OneChangeLost'
  <2> SUFFICES ASSUME mishaps \cap {"backup", "sync", "archive"} = {}
               PROVE  Worth(disk') >= before
    BY <1>1 DEF OneChangeLost, Worth, Reserve
  <2> QED
    BY <1>1, <1>2 DEF FileInv, OneChangeLost
<1> QED
  BY <1>3, <1>4, <1>5, <1>6 DEF FileInv

LEMMA StartKeeps ==
  ASSUME FileInv, Start
  PROVE  FileInv'
<1>1. /\ ~up /\ up' /\ mem' = Loaded(disk) /\ stage = "idle" /\ IsView(disk) /\ disk \in views
      /\ UNCHANGED <<reserved, changes, stage, tmp, saved, before>> /\ reserved = {}
  BY DEF Start, history, FileInv, Typed, Flushing
<1>2. IsLedger(Loaded(disk))
  BY <1>1, FilesDiffer DEF IsView, IsFile, Loaded
<1>3. CASE disk.main # Torn /\ UNCHANGED <<disk, views, mishaps>>
  <2>1. Typed' /\ Flushing' /\ BackupServes'
    BY <1>1, <1>2, <1>3 DEF FileInv, Typed, Stages, Flushing, BackupServes
  <2>2. Untorn'
    BY <1>3 DEF FileInv, Untorn
  <2>3. NothingLost' /\ OneChangeLost'
    BY <1>1, <1>3 DEF FileInv, NothingLost, OneChangeLost, Worth, Reserve
  <2> QED
    BY <2>1, <2>2, <2>3 DEF FileInv
<1>4. CASE /\ disk.main = Torn /\ UNCHANGED mishaps
           /\ disk' = [disk EXCEPT !.main = NoFile] /\ views' = views \cup {disk'}
  <2>1. /\ IsView(disk') /\ disk'.main = NoFile /\ disk'.bak = disk.bak
        /\ Worth(disk') = Worth(disk) /\ Reserve(disk') = Reserve(disk)
    BY <1>1, <1>4, PutAside
  <2>2. Typed' /\ Flushing' /\ BackupServes'
    BY <1>1, <1>2, <1>4, <2>1 DEF FileInv, Typed, Stages, Flushing, BackupServes
  <2>3. Untorn'
    BY <1>1, <1>4, <2>1, FilesDiffer DEF FileInv, Untorn
  <2>4. NothingLost'
    <3> SUFFICES ASSUME mishaps \cap {"damage", "sync"} = {}, NEW v \in views'
                 PROVE  Worth(v) >= saved
      BY <1>1, <1>4 DEF NothingLost, Worth
    <3> QED
      BY <1>1, <1>4, <2>1 DEF FileInv, NothingLost
  <2>5. OneChangeLost'
    <3> SUFFICES ASSUME mishaps \cap {"backup", "sync", "archive"} = {}, NEW v \in views'
                 PROVE  IF "damage" \in mishaps THEN Worth(v) >= before ELSE Reserve(v) >= before
      BY <1>1, <1>4 DEF OneChangeLost, Worth, Reserve
    <3> QED
      BY <1>1, <1>4, <2>1 DEF FileInv, OneChangeLost
  <2> QED
    BY <2>2, <2>3, <2>4, <2>5 DEF FileInv
<1>5. CASE disk.main = Torn /\ mishaps' = mishaps \cup {"archive"} /\ UNCHANGED <<disk, views>>
  <2>1. Typed' /\ Flushing' /\ BackupServes'
    BY <1>1, <1>2, <1>5 DEF FileInv, Typed, Stages, Flushing, BackupServes
  <2>2. Untorn'
    BY <1>5 DEF FileInv, Untorn
  <2>3. NothingLost'
    BY <1>1, <1>5 DEF FileInv, NothingLost, Worth
  <2>4. OneChangeLost'
    BY <1>5 DEF OneChangeLost
  <2> QED
    BY <2>1, <2>2, <2>3, <2>4 DEF FileInv
<1> QED
  BY <1>3, <1>4, <1>5 DEF Start, Renamed, Happens

LEMMA FileStep == FileInv /\ [Next]_vars => FileInv'
<1> SUFFICES ASSUME FileInv, [Next]_vars PROVE FileInv'
  OBVIOUS
<1>1. CASE UNCHANGED vars
  <2>1. UNCHANGED <<up, mem, reserved, changes, stage, tmp, disk, views, saved, before, mishaps>>
    BY <1>1 DEF vars, store, history
  <2>2. Typed' /\ Flushing' /\ BackupServes'
    BY <2>1 DEF FileInv, Typed, Flushing, BackupServes, Reserve, Worth
  <2> QED
    BY <2>1, <2>2, FilesUntouched DEF FileInv
<1>2. ASSUME ProcessDies \/ PowerFails PROVE FileInv'
  <2>1. \E d \in views : Dies(d)
    BY <1>2 DEF ProcessDies, PowerFails, FileInv, Typed
  <2> QED
    BY <2>1, DiesKeeps
<1> QED
  BY <1>1, <1>2, StoreKeeps, WriteKeeps, BackupKeeps, ReplaceKeeps, SyncDirKeeps,
     FlushFailsKeeps, DiskDamagedKeeps, StartKeeps
  DEF Next

----------------------------------------------------------------------------
(* The ids                                                                 *)

(* Without the mishaps that the property excepts, the counter in memory,   *)
(* and the one that any death would leave, covers every id given.          *)
Covered ==
  mishaps \cap {"damage", "flush", "sync"} = {} =>
    /\ handed \subseteq Nat
    /\ up => \A h \in handed : h <= mem.seq
    /\ \A v \in views : \A h \in handed : h <= Loaded(v).seq

(* What is loaded where no file is torn.                                   *)
LEMMA LoadedIs ==
  ASSUME NEW v, IsView(v), v.main # Torn
  PROVE  /\ IsLedger(Loaded(v)) /\ Loaded(v).seq \in Nat
         /\ \A d : d = [main |-> NoFile, bak |-> v.main] /\ v.main # NoFile => Loaded(d) = Loaded(v)
         /\ \A m : IsLedger(m) => Loaded([v EXCEPT !.main = File(m)]) = m
         /\ \A m : IsLedger(m) /\ v.main = File(m) => Loaded(v) = m
<1>1. /\ v = [main |-> v.main, bak |-> v.bak] /\ IsFile(v.main) /\ IsFile(v.bak)
  BY DEF IsView
<1>2. \A f : IsFile(f) /\ Readable(f) => IsLedger(f.ledger)
  BY FilesDiffer DEF IsFile
<1>3. IsLedger(Loaded(v))
  BY <1>1, <1>2, EmptyIsLedger DEF Loaded
<1>4. Loaded(v).seq \in Nat
  BY <1>3 DEF IsLedger, Covers
<1>5. ASSUME NEW d, d = [main |-> NoFile, bak |-> v.main], v.main # NoFile
      PROVE  Loaded(d) = Loaded(v)
  <2>1. Readable(v.main)
    BY <1>1, <1>5, FilesDiffer DEF IsFile
  <2> QED
    BY <1>5, <2>1, FilesDiffer DEF Loaded
<1>6. ASSUME NEW m, IsLedger(m)
      PROVE  Loaded([v EXCEPT !.main = File(m)]) = m
  BY <1>1, FilesDiffer DEF Loaded
<1>7. ASSUME NEW m, IsLedger(m), v.main = File(m)
      PROVE  Loaded(v) = m
  BY <1>7, FilesDiffer DEF Loaded
<1> QED
  BY <1>3, <1>4, <1>5, <1>6, <1>7

LEMMA CoveredSays == FileInv /\ Covered => IdsNeverReused
<1> SUFFICES ASSUME FileInv, Covered, mishaps \cap {"damage", "flush", "sync"} = {}
             PROVE  /\ up /\ stage = "idle" => \A h \in handed : NextId(mem) > h
                    /\ \A v \in views : \A h \in handed : NextId(Loaded(v)) > h
  BY DEF FileInv, Typed, IdsNeverReused
<1>1. NextId(mem) = mem.seq + 1 /\ mem.seq \in Nat
  BY NextIdIs DEF FileInv, Typed
<1>2. \A v \in views : NextId(Loaded(v)) = Loaded(v).seq + 1 /\ Loaded(v).seq \in Nat
  BY LoadedIs, NextIdIs DEF FileInv, Typed, Untorn
<1> QED
  BY <1>1, <1>2 DEF Covered

LEMMA CoveredStep == FileInv /\ Covered /\ [Next]_vars => Covered'
<1> SUFFICES ASSUME FileInv, Covered, [Next]_vars, mishaps' \cap {"damage", "flush", "sync"} = {}
             PROVE  /\ handed' \subseteq Nat
                    /\ up' => \A h \in handed' : h <= mem'.seq
                    /\ \A v \in views' : \A h \in handed' : h <= Loaded(v).seq
  BY DEF Covered, Loaded, Readable
<1>m. mishaps \subseteq mishaps'
  BY DEF Next, ReserveId, Create, Update, ClearTerminal, Changes, WriteTmp, SyncTmp, Backup,
         Replace, SyncDir, FlushFails, ProcessDies, PowerFails, Dies, DiskDamaged, Start, Happens,
         history, vars
<1>t. /\ \A v \in views : IsView(v) /\ v.main # Torn
      /\ disk \in views /\ IsLedger(mem) /\ mem.seq \in Nat
      /\ Known(mem) \cup reserved \subseteq 1..mem.seq
      /\ \A h \in handed : h \in Nat
      /\ up => \A h \in handed : h <= mem.seq
      /\ \A v \in views : \A h \in handed : h <= Loaded(v).seq
  BY <1>m DEF FileInv, Typed, Untorn, Covered, IsLedger, Covers, Known, ToSet
<1>1. CASE ReserveId \/ Create \/ Update \/ ClearTerminal
  <2>1. PICK l, promised : IsLedger(l) /\ l.seq >= mem.seq /\ Changes(l, promised)
    BY <1>1, StoreMakes
  <2>2. up /\ UNCHANGED <<views, handed>> /\ mem' = [l EXCEPT !.change = changes + 1]
    BY <2>1 DEF Changes, history
  <2>3. l.seq \in Nat /\ mem'.seq = l.seq
    BY <2>1, <2>2 DEF IsLedger, Covers
  <2>4. \A h \in handed : h <= mem'.seq
    BY <1>t, <2>1, <2>2, <2>3
  <2> QED
    BY <1>t, <2>2, <2>4
<1>2. CASE UNCHANGED <<up, mem, views, handed>>
  BY <1>t, <1>2
<1>3. CASE Backup
  <2>1. /\ up /\ UNCHANGED <<up, mem, handed>>
        /\ \/ UNCHANGED views
           \/ disk.main # NoFile /\ views' = views \cup {[main |-> NoFile, bak |-> disk.main]}
    BY <1>3 DEF Backup, Renamed, store, history
  <2>2. disk.main # NoFile => Loaded([main |-> NoFile, bak |-> disk.main]) = Loaded(disk)
    BY <1>t, LoadedIs
  <2> QED
    BY <1>t, <2>1, <2>2
<1>4. CASE Replace
  <2>1. /\ up /\ UNCHANGED <<up, mem, handed>>
        /\ views' = views \cup {[disk EXCEPT !.main = File(mem)]}
    BY <1>4 DEF Replace, Renamed, store, history, FileInv, Flushing
  <2>2. Loaded([disk EXCEPT !.main = File(mem)]) = mem
    BY <1>t, LoadedIs
  <2> QED
    BY <1>t, <2>1, <2>2
<1>5. CASE SyncDir
  <2>1. /\ UNCHANGED <<up, mem>> /\ up /\ disk.main = File(mem)
        /\ handed' = handed \cup Known(mem) \cup reserved
    BY <1>5 DEF SyncDir, Returns, store, FileInv, Flushing
  <2>2. views' = {disk}
    BY <1>5 DEF SyncDir, Happens
  <2>3. Loaded(disk) = mem
    BY <1>t, <2>1, LoadedIs
  <2>4. \A h \in handed' : h \in Nat /\ h <= mem.seq
    BY <1>t, <2>1
  <2> QED
    BY <2>1, <2>2, <2>3, <2>4
<1>6. CASE ProcessDies \/ PowerFails
  <2>1. \E d \in views : up' = FALSE /\ views' = {d} /\ handed' = handed
    BY <1>6, <1>t DEF ProcessDies, PowerFails, Dies, history
  <2> QED
    BY <1>t, <2>1
<1>7. CASE Start
  <2>1. mem' = Loaded(disk) /\ handed' = handed /\ views' = views
    BY <1>7, <1>t DEF Start, history
  <2> QED
    BY <1>t, <2>1
<1>8. ~DiskDamaged /\ ~FlushFails
  BY DEF DiskDamaged, FlushFails, Happens
<1>9. CASE WriteTmp \/ SyncTmp \/ UNCHANGED vars
  BY <1>2, <1>9 DEF WriteTmp, SyncTmp, store, history, vars
<1> QED
  BY <1>1, <1>3, <1>4, <1>5, <1>6, <1>7, <1>8, <1>9 DEF Next

----------------------------------------------------------------------------

(* After any changes, flushes, errors and deaths, what was saved is loaded *)
(* by the next start, and damage to the file in use costs one change       *)
(* (store.py: _flush, atomic_write, _read_json).                           *)
THEOREM Survives == Spec => []SavedSurvives
<1>1. Spec => []FileInv
  BY FileInit, FileStep, PTL DEF Spec
<1> QED
  BY <1>1, FileInvSays, PTL

(* An id that a caller has is not given again: not after a restart, after  *)
(* Sessions were pruned or cleared, nor after a death between any two file *)
(* operations, for any number of changes (store.py: _allocate_session_id). *)
THEOREM NeverReused == Spec => []IdsNeverReused
<1>1. Init => Covered
  <2> SUFFICES ASSUME Init PROVE handed = {}
    BY DEF Covered
  <2> QED
    BY DEF Init
<1>2. Spec => [](FileInv /\ Covered)
  BY <1>1, FileInit, FileStep, CoveredStep, PTL DEF Spec
<1> QED
  BY <1>2, CoveredSays, PTL

=============================================================================
