-------------------------------- MODULE AltosFat --------------------------------
(***************************************************************************)
(* The file system on an SD card, drivers/ao_fat.c, with the two tasks that *)
(* use it: the one that logs, drivers/ao_log_fat.c, and the console, whose *)
(* commands D and W read and write a file.  The card has FAT16 with two    *)
(* copies of the table.  Each call holds the lock of the file system.  It  *)
(* changes sectors one entry at a time, in a cache that brings them to the *)
(* card at any time and in any order (AltosBlocks).  The power may fail at *)
(* any time; as the values that the card may have only grow until a flush, *)
(* a failure within a call leaves nothing that one after it does not, and  *)
(* a call is one step.  The card itself does not fail.                     *)
(***************************************************************************)
EXTENDS Integers, FiniteSets, SequencesExt

CONSTANTS
  NumberCluster,   \* number_cluster: the clusters are 2 .. number_cluster - 1
  PerSector,       \* the entries of the table in a sector
  PerCluster,      \* the writes that fit in a cluster
  RootSizes,       \* the lengths of the directory, of which a card has one
  NFile,           \* AO_FAT_NFILE, for the entries of ao_file_dirent
  Days,            \* the days that the GPS receiver tells, the names of the logs
  Typed,           \* the names given to the console
  NoName           \* no name: an entry of the directory after the last one

Users == {"log", "console"}
Names == Days \union Typed

ASSUME FatAssumption ==
  /\ NumberCluster \in Nat /\ NumberCluster > 2
  /\ PerSector \in Nat \ {0} /\ PerCluster \in Nat \ {0}
  /\ RootSizes \subseteq Nat \ {0}
  /\ NFile \in Nat /\ NFile >= Cardinality(Users)
  /\ NoName \notin Names

Clusters == 2 .. NumberCluster - 1
LastCluster == NumberCluster
BadCluster == NumberCluster + 1
Dirents == 0 .. NFile - 1

FatSector(fat, c) == <<"fat", fat, c \div PerSector>>
RootSector == <<"root", 0, 0>>
DataSector(c) == <<"data", 0, c>>
TableSectors(fats) == {FatSector(fat, c) : fat \in fats, c \in Clusters}
DataSectors == {DataSector(c) : c \in Clusters}
FatSectors == TableSectors({1, 2}) \union {RootSector} \union DataSectors

Dent(name, size, cluster) == [name |-> name, size |-> size, cluster |-> cluster]
NoDent == Dent(NoName, 0, 0)

(* What is written names its file and its place in it.                     *)
Mark(name, offset) == <<name, offset>>
Blank == Mark(NoName, 0)

VARIABLES
  root_entries,     \* what the card says of itself
  mem, may,         \* the cache, of AltosBlocks
  file,             \* the ao_file of each user
  ao_file_dirent,
  next_free,
  filesystem_full,
  task,             \* what each user does next
  name,             \* the name that each user has given
  wrote,            \* ghost: what was written to each file since it was created
  kept,             \* ghost: what of it was there at the last flush
  broken            \* ghost: why the file system is not followed further

cacheVars == <<mem, may>>
fatVars == <<root_entries, cacheVars, file, ao_file_dirent, next_free,
             filesystem_full, task, name, wrote, kept, broken>>

Store == INSTANCE AltosBlocks
  WITH Sectors <- FatSectors, Values <- {}, failed <- {}

Entries == 0 .. root_entries - 1

NewSector(s) ==
  CASE s[1] = "fat" -> [c \in {d \in Clusters : d \div PerSector = s[3]} |-> 0]
    [] s[1] = "root" -> [e \in Entries |-> NoDent]
    [] s[1] = "data" -> [i \in 0 .. PerCluster - 1 |-> Blank]

NewCard == [s \in FatSectors |-> NewSector(s)]

NoFile == [busy |-> FALSE, dirent |-> 0, offset |-> 0, cluster_offset |-> 0,
           cluster |-> 0]
NoDirent == [entry |-> root_entries, size |-> 0, cluster |-> 0]

RamInit ==
  /\ file = [u \in Users |-> NoFile]
  /\ ao_file_dirent = [d \in Dirents |-> NoDirent]
  /\ next_free = 0 /\ filesystem_full = FALSE
  /\ task = [u \in Users |-> "idle"] /\ name = [u \in Users |-> NoName]

FatInit ==
  /\ root_entries \in RootSizes
  /\ mem = NewCard /\ may = [s \in FatSectors |-> {NewCard[s]}]
  /\ RamInit
  /\ wrote = [n \in Names |-> {}] /\ kept = [n \in Names |-> {}]
  /\ broken = "no"

-----------------------------------------------------------------------------
(* The table.                                                              *)
Valid(c) == c \in Clusters

Entry(store, c) == IF Valid(c) THEN store[FatSector(1, c)][c] ELSE BadCluster

(* The clusters from c on, up to the value that ends them, and the number  *)
(* of those that are valid.                                                *)
Chain(store, c) ==
  LET chain[i \in 0 .. NumberCluster] ==
        IF i = 0 THEN c
        ELSE LET last == chain[i - 1]
             IN IF Valid(last) THEN Entry(store, last) ELSE last
  IN chain

Length(store, c) ==
  LET chain == Chain(store, c)
  IN Cardinality({i \in 0 .. NumberCluster : Valid(chain[i])})

FreeClusters == {c \in Clusters : Entry(mem, c) = 0}

(* A change of one entry of a sector, and the cache after some changes.    *)
Put(s, key, value) == <<[sector |-> s, key |-> key, value |-> value]>>

Changed(cache, put) ==
  LET new == [cache.mem[put.sector] EXCEPT ![put.key] = put.value]
  IN [mem |-> [cache.mem EXCEPT ![put.sector] = new],
      may |-> [cache.may EXCEPT ![put.sector] = @ \union {new}]]

After(puts) == FoldLeft(Changed, [mem |-> mem, may |-> may], puts)

Change(puts) == mem' = After(puts).mem /\ may' = After(puts).may

(* A mistake: the second copy of the table is left behind.                 *)
ReplaceFirst(c, value) == Put(FatSector(1, c), c, value)

(* _ao_fat_entry_replace: the first copy and then the second.              *)
Replace(c, value) ==
  Put(FatSector(1, c), c, value) \o Put(FatSector(2, c), c, value)

(* _ao_fat_cluster_set_size: the chain from first on is made size long.    *)
Result(first, puts, next, full, ok, short) ==
  [first |-> first, puts |-> puts, next_free |-> next, full |-> full,
   ok |-> ok, short |-> short]

(* A mistake: room that is freed does not make the file system less full.  *)
FullForGood(freed) == filesystem_full

StaysFull(freed) == filesystem_full /\ freed = <<>>

Shrunk(first, size) ==
  LET chain == Chain(mem, first)
      freed == [i \in 1 .. Length(mem, first) - size |-> chain[size + i - 1]]
      end == IF size = 0 \/ freed = <<>> THEN <<>>
             ELSE Replace(chain[size - 1], LastCluster)
  IN Result(IF size = 0 /\ freed # <<>> THEN 0 ELSE first,
            end \o FlattenSeq([i \in DOMAIN freed |-> Replace(freed[i], 0)]),
            Min(ToSet(freed) \union {next_free}), StaysFull(freed), TRUE, FALSE)

(* The search begins at next_free and goes round.  The loop that takes the *)
(* clusters ends as it comes to next_free, which it has just moved there:  *)
(* it takes one, however many are needed.                                  *)
Grown(first, have, need) ==
  LET start == IF Valid(next_free) THEN next_free ELSE 2
      Round(c) == (c - start) % (NumberCluster - 2)
      got == CHOOSE c \in FreeClusters :
               \A d \in FreeClusters : Round(c) <= Round(d)
  IN IF filesystem_full
     THEN Result(BadCluster, <<>>, next_free, TRUE, FALSE, FALSE)
     ELSE IF need > Cardinality(FreeClusters)
     THEN Result(BadCluster, <<>>, start, TRUE, FALSE, need > 1)
     ELSE Result(IF have = 0 THEN got ELSE first,
                 (IF have = 0 THEN <<>>
                  ELSE Replace(Chain(mem, first)[have - 1], got))
                   \o Replace(got, LastCluster),
                 IF Valid(got + 1) THEN got + 1 ELSE 2, FALSE, TRUE, need > 1)

SetSize(first, size) ==
  LET have == Length(mem, first)
  IN IF have >= size THEN Shrunk(first, size)
     ELSE Grown(first, have, size - have)

-----------------------------------------------------------------------------
(* Open files.                                                             *)
ClustersFor(size) == (size + PerCluster - 1) \div PerCluster

(* A mistake: the files do not forget the cluster they were at.            *)
KeepPlaces(files, d, size, cluster) == files

(* _ao_fat_invalidate_cluster_offset.                                      *)
ForgetPlaces(files, d, size, cluster) ==
  [u \in Users |->
     IF files[u].busy /\ files[u].dirent = d /\ files[u].cluster_offset >= size
     THEN [files[u] EXCEPT !.cluster_offset = 0, !.cluster = cluster]
     ELSE files[u]]

(* _ao_fat_set_size: the table is changed from the cluster on that the     *)
(* file is at, or from the first one, and then the directory.              *)
FromHere(f, size) == f.cluster # 0 /\ size > f.cluster_offset

InTable(f, d, size) ==
  LET need == ClustersFor(size) IN
  IF ClustersFor(d.size) = need
    THEN Result(d.cluster, <<>>, next_free, filesystem_full, TRUE, FALSE)
  ELSE IF FromHere(f, size)
    THEN SetSize(f.cluster, need - f.cluster_offset \div PerCluster)
  ELSE SetSize(d.cluster, need)

Sized(r, puts, files, dirents) ==
  [puts |-> puts, files |-> files, dirents |-> dirents, next_free |-> r.next_free,
   full |-> r.full, ok |-> r.ok, short |-> r.short]

InDirectory(files, dirents, f, d, size, r) ==
  LET first == IF FromHere(f, size) THEN d.cluster ELSE r.first
      dent == Dent(mem[RootSector][d.entry].name, size, first)
  IN IF size = d.size \/ ~r.ok
     THEN Sized(r, <<>>, files, dirents)
     ELSE Sized(r, r.puts \o Put(RootSector, d.entry, dent),
                IF ClustersFor(d.size) > ClustersFor(size)
                THEN ForgetPlaces(files, f.dirent, size, first) ELSE files,
                [dirents EXCEPT ![f.dirent].size = size,
                                ![f.dirent].cluster = first])

Resize(files, dirents, u, size) ==
  LET d == dirents[files[u].dirent]
  IN InDirectory(files, dirents, files[u], d, size, InTable(files[u], d, size))

(* The entry of a name, root_entries if there is none.                      *)
EntryOf(n) ==
  Min({e \in Entries : mem[RootSector][e].name = n} \union {root_entries})

(* _ao_fat_file_dirent_alloc, of an entry: the one another file has of it, *)
(* or a free one.                                                          *)
DirentFor(e) ==
  LET shared == {d \in Dirents : ao_file_dirent[d].entry = e}
  IN Min(IF shared # {} THEN shared
         ELSE {d \in Dirents : ao_file_dirent[d] = NoDirent})

OpenAt(u, d, dirents, cluster) ==
  [files |-> [file EXCEPT ![u] = [NoFile EXCEPT !.busy = TRUE, !.dirent = d,
                                               !.cluster = cluster]],
   dirents |-> dirents]

(* _ao_fat_open, of an entry that is there.                                *)
Opened(u, e) ==
  LET d == DirentFor(e)
      dent == mem[RootSector][e]
      dirents == IF ao_file_dirent[d].entry = e THEN ao_file_dirent
                 ELSE [ao_file_dirent EXCEPT ![d] =
                         [entry |-> e, size |-> dent.size, cluster |-> dent.cluster]]
  IN OpenAt(u, d, dirents, dirents[d].cluster)

(* _ao_fat_current_sector: the cluster of a file with its place, which     *)
(* the file keeps; it may have come to the end of the chain.               *)
Placed(store, f, dirents) ==
  LET again == f.cluster = 0 \/ f.offset < f.cluster_offset
      from == IF again THEN dirents[f.dirent].cluster ELSE f.cluster
      passed == IF again THEN 0 ELSE f.cluster_offset \div PerCluster
      to == Chain(store, from)[f.offset \div PerCluster - passed]
  IN IF Valid(to)
     THEN [f EXCEPT !.cluster = to,
                    !.cluster_offset = PerCluster * (f.offset \div PerCluster)]
     ELSE [f EXCEPT !.cluster = from, !.cluster_offset = PerCluster * passed]

OnCluster(f) == Valid(f.cluster) /\ f.offset < f.cluster_offset + PerCluster

-----------------------------------------------------------------------------
(* Calls.                                                                  *)
Resizing(r, puts, files) ==
  /\ Change(puts)
  /\ file' = files /\ ao_file_dirent' = r.dirents
  /\ next_free' = r.next_free /\ filesystem_full' = r.full

ao_fat_open(u, n) ==
  LET r == Opened(u, EntryOf(n)) IN
  /\ file' = r.files /\ ao_file_dirent' = r.dirents
  /\ UNCHANGED <<cacheVars, next_free, filesystem_full, wrote, kept, broken>>

(* A file of the name is made empty.                                       *)
CreatOld(u, n) ==
  LET o == Opened(u, EntryOf(n))
      r == Resize(o.files, o.dirents, u, 0)
  IN
  /\ Resizing(r, r.puts, r.files)
  /\ wrote' = [wrote EXCEPT ![n] = {}] /\ kept' = [kept EXCEPT ![n] = {}]
  /\ UNCHANGED broken

(* The first entry of the directory that is free, and always the first     *)
(* ao_file_dirent, even if another file has it: the two are mixed up, and  *)
(* not followed further.                                                   *)
CreatNew(u, n) ==
  LET e == EntryOf(NoName)
      r == OpenAt(u, 0, [ao_file_dirent EXCEPT ![0] =
                           [entry |-> e, size |-> 0, cluster |-> 0]],
                  ao_file_dirent[0].cluster)
  IN /\ Change(Put(RootSector, e, Dent(n, 0, 0)))
     /\ file' = r.files /\ ao_file_dirent' = r.dirents
     /\ broken' = IF ao_file_dirent[0] = NoDirent THEN broken ELSE "mixed"
     /\ UNCHANGED <<next_free, filesystem_full, wrote, kept>>

(* A write to the end of a file or within it, in one cluster.  The file    *)
(* grows first, and if there is no room for it the write is refused.  The  *)
(* file system is not followed further once more than one cluster was      *)
(* needed.                                                                 *)
AtEnd(u) == file[u].offset >= ao_file_dirent[file[u].dirent].size
Grows(u) ==
  LET size == ao_file_dirent[file[u].dirent].size
  IN Resize(file, ao_file_dirent, u, IF AtEnd(u) THEN file[u].offset + 1 ELSE size)

WriteRefused(r) == ~r.ok /\ Resizing(r, r.puts, r.files) /\ UNCHANGED wrote

WriteDone(u, r, f) ==
  LET data == Put(DataSector(f.cluster), f.offset % PerCluster,
                  Mark(name[u], f.offset))
  IN /\ r.ok /\ OnCluster(f)
     /\ Resizing(r, r.puts \o data,
                 [r.files EXCEPT ![u] = [f EXCEPT !.offset = @ + 1]])
     /\ wrote' = [wrote EXCEPT ![name[u]] = @ \union {f.offset}]

WriteLost(u, r, f) ==
  /\ r.ok /\ ~OnCluster(f)
  /\ Resizing(r, r.puts, [r.files EXCEPT ![u] = f]) /\ UNCHANGED wrote

ao_fat_write(u) ==
  /\ \E r \in {Grows(u)} :
       /\ \/ WriteRefused(r)
          \/ \E f \in {Placed(After(r.puts).mem, file[u], r.dirents)} :
               WriteDone(u, r, f) \/ WriteLost(u, r, f)
       /\ broken' = IF r.short THEN "short" ELSE broken
  /\ UNCHANGED kept

ao_fat_read(u) ==
  /\ \E f \in {Placed(mem, file[u], ao_file_dirent)} :
       file' = [file EXCEPT ![u] = IF OnCluster(f) THEN [f EXCEPT !.offset = @ + 1]
                                   ELSE f]
  /\ UNCHANGED <<cacheVars, ao_file_dirent, next_free, filesystem_full, wrote,
                 kept, broken>>

SeekEnd(u) ==
  /\ file' = [file EXCEPT ![u].offset = ao_file_dirent[file[u].dirent].size]
  /\ UNCHANGED <<cacheVars, ao_file_dirent, next_free, filesystem_full, wrote,
                 kept, broken>>

(* A mistake: the call returns before the sectors are on the card.         *)
SyncLater ==
  /\ kept' = wrote
  /\ UNCHANGED <<cacheVars, next_free, filesystem_full, wrote, broken>>

ao_fat_sync ==
  /\ Store!Flush /\ kept' = wrote
  /\ UNCHANGED <<next_free, filesystem_full, wrote, broken>>

ReleaseDirent(u) ==
  ao_file_dirent' =
    IF \E v \in Users \ {u} : file[v].busy /\ file[v].dirent = file[u].dirent
    THEN ao_file_dirent
    ELSE [ao_file_dirent EXCEPT ![file[u].dirent] = NoDirent]

ao_fat_close(u) ==
  /\ file' = [file EXCEPT ![u] = NoFile]
  /\ ReleaseDirent(u)
  /\ ao_fat_sync

-----------------------------------------------------------------------------
(* The two tasks.                                                          *)
At(u, where) == broken = "no" /\ task[u] = where
Goes(u, to, n) ==
  task' = [task EXCEPT ![u] = to] /\ name' = [name EXCEPT ![u] = n]

Exists(n) == EntryOf(n) < root_entries
RootFull == EntryOf(NoName) = root_entries

(* ao_fat_creat, where it succeeds.                                        *)
ao_fat_creat(u, n) ==
  \/ Exists(n) /\ CreatOld(u, n)
  \/ ~Exists(n) /\ ~RootFull /\ CreatNew(u, n)

CallFails ==
  UNCHANGED <<cacheVars, file, ao_file_dirent, next_free, filesystem_full, wrote,
              kept, broken>>

(* ao_log_mega: the first record of a day goes to the file of the day,     *)
(* ao_log_open, and each record to the card at once.                       *)
LogDay(day) ==
  /\ At("log", "idle")
  /\ \/ file["log"].busy /\ day # name["log"] /\ ao_fat_close("log")
     \/ ~file["log"].busy /\ CallFails
  /\ Goes("log", "open", day)

LogOpens ==
  LET n == name["log"] IN
  /\ At("log", "open")
  /\ \/ Exists(n) /\ ao_fat_open("log", n) /\ Goes("log", "seek", n)
     \/ ~Exists(n) /\ CallFails /\ Goes("log", "creat", n)

LogSeeks ==
  At("log", "seek") /\ SeekEnd("log") /\ Goes("log", "write", name["log"])

LogCreates ==
  LET n == name["log"] IN
  /\ At("log", "creat")
  /\ \/ ao_fat_creat("log", n) /\ Goes("log", "write", n)
     \/ ~Exists(n) /\ RootFull /\ CallFails /\ Goes("log", "idle", n)

LogWrites ==
  /\ At("log", "write") \/ (At("log", "idle") /\ file["log"].busy)
  /\ ao_fat_write("log") /\ Goes("log", "sync", name["log"])

LogSyncs ==
  /\ At("log", "sync")
  /\ ao_fat_sync /\ UNCHANGED <<file, ao_file_dirent>>
  /\ Goes("log", "idle", name["log"])

(* The console: D reads a file to its end, W creates one and writes until  *)
(* the user stops or a write fails.                                        *)
Dump(n) ==
  /\ At("console", "idle") /\ Exists(n)
  /\ ao_fat_open("console", n) /\ Goes("console", "read", n)

DumpReads ==
  /\ At("console", "read") /\ ~AtEnd("console")
  /\ ao_fat_read("console")
  /\ Goes("console", IF OnCluster(file["console"]') THEN "read" ELSE "close",
          name["console"])

Type(n) ==
  /\ At("console", "idle")
  /\ ao_fat_creat("console", n) /\ Goes("console", "type", n)

TypeWrites ==
  /\ At("console", "type") /\ ao_fat_write("console")
  /\ Goes("console", IF file["console"].offset' = file["console"].offset
                     THEN "close" ELSE "type", name["console"])

ConsoleCloses ==
  /\ \/ At("console", "read") /\ AtEnd("console")
     \/ At("console", "type") \/ At("console", "close")
  /\ ao_fat_close("console") /\ Goes("console", "idle", NoName)

-----------------------------------------------------------------------------
(* check_fs of test/ao_fat_test.c: the two copies of the table agree, no   *)
(* entry of the directory comes after its end, each file has a chain of    *)
(* its own that is as long as its size asks for, and no other cluster is   *)
(* in use.                                                                 *)
check_fs(store) ==
  LET root == store[RootSector]
      files == {e \in Entries : root[e].name # NoName}
      long == [e \in files |-> Length(store, root[e].cluster)]
      chain == [e \in files |-> Chain(store, root[e].cluster)]
      used == [e \in files |-> {chain[e][i] : i \in 0 .. long[e] - 1}]
  IN /\ \A c \in Clusters : store[FatSector(1, c)][c] = store[FatSector(2, c)][c]
     /\ \A e \in files : 0 .. e \subseteq files
     /\ \A e \in files :
          /\ long[e] = ClustersFor(root[e].size)
          /\ long[e] > 0 => chain[e][long[e]] = LastCluster
          /\ Cardinality(used[e]) = long[e]
          /\ \A d \in files \ {e} : used[d] \cap used[e] = {}
     /\ \A c \in Clusters :
          Entry(store, c) # 0 <=> \E e \in files : c \in used[e]

(* What the card may have of some sectors, and of a card some copies of    *)
(* the table and the directory.                                            *)
OnCard(sectors) ==
  {card \in [sectors -> UNION {may[s] : s \in sectors}] :
     \A s \in sectors : card[s] \in may[s]}

Joined(some, others) ==
  [s \in DOMAIN some \union DOMAIN others |->
     IF s \in DOMAIN some THEN some[s] ELSE others[s]]

Layouts(fats) ==
  {Joined(tables, [s \in {RootSector} |-> root]) :
     tables \in OnCard(TableSectors(fats)), root \in may[RootSector]}

(* The power fails and comes back: the card is mounted as it is.  What     *)
(* becomes of a card that is damaged is not followed.                      *)
FatReboot ==
  /\ \E layout \in {l \in Layouts({1, 2}) : check_fs(l)},
        data \in OnCard(DataSectors) : mem' = Joined(layout, data)
  /\ Store!PowerFails
  /\ file' = [u \in Users |-> NoFile]
  /\ ao_file_dirent' = [d \in Dirents |-> NoDirent]
  /\ next_free' = 0 /\ filesystem_full' = FALSE
  /\ task' = [u \in Users |-> "idle"] /\ name' = [u \in Users |-> NoName]
  /\ wrote' = kept /\ UNCHANGED kept
  /\ broken' = "no"

LogStep ==
  \/ \E day \in Days : LogDay(day)
  \/ LogOpens \/ LogSeeks \/ LogCreates \/ LogWrites \/ LogSyncs

FilesStep ==
  \/ \E n \in Names : Dump(n)
  \/ \E n \in Typed : Type(n)
  \/ DumpReads \/ TypeWrites \/ ConsoleCloses

FatNext == (LogStep \/ FilesStep \/ FatReboot) /\ UNCHANGED root_entries

FatSpec == FatInit /\ [][FatNext]_fatVars

-----------------------------------------------------------------------------
(* The file system passes check_fs between two calls, whichever calls of   *)
(* the log and the console came before, as long as no file was created     *)
(* under an open one and no write needed two clusters.  That the layout    *)
(* survives a power failure is assumed, not shown: FatReboot goes on with  *)
(* the cards that pass check_fs and with no others.                        *)
CheckFs == broken = "no" => check_fs(mem)

(* What a store has of a file.                                             *)
Reads(store, n, offset) ==
  \E e \in Entries :
    LET dent == store[RootSector][e]
        c == Chain(store, dent.cluster)[offset \div PerCluster]
    IN /\ dent.name = n /\ offset < dent.size
       /\ Valid(c) /\ store[DataSector(c)][offset % PerCluster] = Mark(n, offset)

(* What was written to a file is what is read from it, and what an open    *)
(* file keeps of its entry and its place is true, also when the other task *)
(* has made the file longer or empty in between.                           *)
FilesTrue ==
  broken = "no" =>
    /\ \A n \in Names : \A offset \in wrote[n] : Reads(mem, n, offset)
    /\ \A u \in Users : file[u].busy =>
         LET f == file[u]
             d == ao_file_dirent[f.dirent]
         IN /\ mem[RootSector][d.entry] = Dent(name[u], d.size, d.cluster)
            /\ f.cluster # 0 =>
                 f.cluster = Chain(mem, d.cluster)[f.cluster_offset \div PerCluster]

(* What a flush has brought to the card stays on it, whatever sectors are  *)
(* written of later calls before the power fails, until the file is        *)
(* created again.                                                          *)
FlushedKept ==
  broken = "no" =>
    \A n \in Names : \A offset \in kept[n] :
      \A layout \in Layouts({1}), data \in OnCard(DataSectors) :
        Reads(Joined(layout, data), n, offset)

(* "Returns true if the filesystem cannot take more data": it is full only *)
(* while no cluster is free, for writes that need one cluster.  One that   *)
(* needs more also sets it when there are some, but not enough; that case  *)
(* is set aside (broken = "short").                                        *)
FullIsFull == broken = "no" /\ filesystem_full => FreeClusters = {}
=============================================================================
