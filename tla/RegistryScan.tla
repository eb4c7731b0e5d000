---------------------------- MODULE RegistryScan ----------------------------
(***************************************************************************)
(* The listing of the registry (registry/list.rs, list/metadata_cache.rs): *)
(* one directory read, then each file at a time of its own, strict or      *)
(* tolerant, with or without the record cache that lives from one scan to  *)
(* the next.                                                               *)
(***************************************************************************)
EXTENDS RegistryFiles

CONSTANT Scans  \* bound: scans begun

VARIABLES
  sat,      \* the step the scan is at
  strict,   \* list_sessions_strict_in or a tolerant listing
  caching,  \* RegistryListCache::list
  entries,  \* the names the directory read returned
  since,    \* SystemTime::now() of the cached read
  got,      \* what was read: record, pid file, socket named by the directory
  errs,     \* did the scanner note an error?
  cache,    \* the record cache: identity and record
  inventory,\* the answer: entries, whether it is complete, and if it was asked for strictly
  scans,    \* scans begun so far
  held      \* ghost: the records the file held during this scan, {NoRecord} when it was absent

svars == <<files, procs, fork, daemon, clock, sat, strict, caching, entries, since, got, errs, cache,
           inventory, scans, held>>

Nothing == [rec |-> NoRecord, pid |-> 0, socket |-> FALSE]
NoEntry == [ino |-> 0, at |-> 0, rec |-> NoRecord]
RecordNow == IF ~Here(files["meta"]) THEN NoRecord ELSE files["meta"].val
Present == {f \in FileNames : Here(files[f])}

(* The Inventory a scan returns; what it read is gone with it. *)
Returns(listed, complete) ==
  /\ sat' = "idle" /\ inventory' = [listed |-> listed, complete |-> complete, strict |-> strict]
  /\ strict' = FALSE /\ caching' = FALSE /\ entries' = {} /\ since' = 0 /\ got' = Nothing /\ errs' = FALSE

(* scan_sessions_with_probe: the directory, or no root to read. *)
BeginScan ==
  /\ sat = "idle" /\ scans < Scans
  /\ scans' = scans + 1
  /\ \E mode \in {<<TRUE, FALSE>>, <<FALSE, FALSE>>, <<FALSE, TRUE>>} : strict' = mode[1] /\ caching' = mode[2]
  /\ sat' = "named" /\ entries' = Present /\ held' = {RecordNow}
  /\ UNCHANGED <<fvars, since, got, errs, cache, inventory>>

NoRoot ==
  /\ sat = "named"
  /\ Returns({}, ~strict)
  /\ cache' = IF caching THEN NoEntry ELSE cache
  /\ UNCHANGED <<fvars, scans, held>>

(* The session's socket is the one at its canonical address; a digest name *)
(* needs a companion to tell whose it is.  A name comes from a record, a *)
(* socket, or, strictly, a pid file alone. *)
Named ==
  /\ sat = "named"
  /\ LET companion == entries \cap {"meta", "pid"} # {}
         sockets == entries \cap {"sock", "bsock"}
         canonical == {f \in sockets : f = SocketPathIn(Present) /\ (f = "bsock" => companion)}
         named == "meta" \in entries \/ (strict /\ "pid" \in entries) \/ canonical # {}
         err == strict /\ sockets # canonical
     IN  /\ cache' = IF caching /\ ~named THEN NoEntry ELSE cache
         /\ \/ ~named /\ Returns({}, ~err)
            \/ /\ named
               /\ sat' = "meta" /\ since' = clock
               /\ got' = [got EXCEPT !.socket = canonical # {}] /\ errs' = err
               /\ UNCHANGED <<strict, caching, entries, inventory>>
  /\ UNCHANGED <<fvars, scans, held>>

(* Mutant: only a file that has vanished is an error. *)
MissingIsErrorOnlyIfGone(f, unreadable) == strict /\ f \in entries /\ ~unreadable

(* read_optional: what a failed read is, strictly: a file the directory *)
(* named, or one that is there and cannot be read. *)
MissingIsError(f, unreadable) == strict /\ (f \in entries \/ unreadable)

AfterMetadata(rec, err) ==
  \/ /\ ~strict /\ rec = NoRecord /\ ~got.socket
     /\ Returns({}, TRUE)
  \/ /\ strict \/ rec # NoRecord \/ got.socket
     /\ got' = [got EXCEPT !.rec = rec] /\ errs' = (errs \/ err) /\ sat' = "pid"
     /\ UNCHANGED <<strict, caching, entries, since, inventory>>

(* Scanner::metadata without the cache: read, or absent, or unreadable. *)
ReadMetadata ==
  /\ sat = "meta" /\ ~caching
  /\ \/ Here(files["meta"]) /\ AfterMetadata(RecordNow, FALSE)
     \/ ~Here(files["meta"]) /\ AfterMetadata(NoRecord, MissingIsError("meta", FALSE))
     \/ Here(files["meta"]) /\ AfterMetadata(NoRecord, MissingIsError("meta", TRUE))
  /\ UNCHANGED <<fvars, cache, scans, held>>

(* Mutant: every identity is settled. *)
SettledAlways(at) == TRUE

(* Identity::settled: no write can still be given the stamp that was seen. *)
Settled(at) == since > at

(* RegistryListCache::metadata: an entry of the same identity answers for *)
(* the file; a settled read replaces it; an error drops it. *)
CachedMetadata ==
  /\ sat = "meta" /\ caching
  /\ LET file == files["meta"]  hit == cache # NoEntry /\ cache.ino = file.ino /\ cache.at = file.at IN
     \/ Here(file) /\ hit /\ AfterMetadata(cache.rec, FALSE) /\ UNCHANGED cache
     \/ /\ Here(file) /\ ~hit /\ AfterMetadata(RecordNow, FALSE)
        /\ cache' = IF Settled(file.at) THEN [ino |-> file.ino, at |-> file.at, rec |-> file.val] ELSE NoEntry
     \/ AfterMetadata(NoRecord, FALSE) /\ cache' = NoEntry
  /\ UNCHANGED <<fvars, scans, held>>

ReadPid ==
  /\ sat = "pid"
  /\ \/ /\ Here(files["pid"])
        /\ got' = [got EXCEPT !.pid = files["pid"].val] /\ UNCHANGED errs
     \/ /\ got' = got
        /\ errs' = (errs \/ MissingIsError("pid", Here(files["pid"])))
  /\ sat' = "judge"
  /\ UNCHANGED <<fvars, strict, caching, entries, since, cache, inventory, scans, held>>

(* The identity, the status and the entry; an orphan pid file is an error *)
(* of a strict scan, and so is an identity that cannot be told. *)
JudgeEntry ==
  /\ sat = "judge"
  /\ LET orphan == got.rec = NoRecord /\ ~got.socket
         id == IF orphan THEN CheckRecordIdentity(got.pid, NoRecord, procs, Boot)
               ELSE CheckRecordIdentityIn(got.pid, SocketPathIn(Present) \in Present, got.rec, procs, Boot)
         status == IF got.rec.exited THEN "exited"
                   ELSE IF id \in {"match", "unknown"} THEN "running" ELSE "vanished"
         err == strict /\ id = "unknown" /\ (orphan => got.pid # 0 /\ ~errs)
     IN  Returns(IF orphan THEN {} ELSE {[rec |-> got.rec, status |-> status, identity |-> id]},
                 ~errs /\ ~err)
  /\ UNCHANGED <<fvars, cache, scans, held>>

World ==
  /\ FilesStep
  /\ held' = IF sat = "idle" THEN held ELSE held \cup {RecordNow'}
  /\ UNCHANGED <<sat, strict, caching, entries, since, got, errs, cache, inventory, scans>>

ScanInit ==
  /\ FilesInit
  /\ sat = "idle" /\ strict = FALSE /\ caching = FALSE /\ entries = {} /\ since = 0 /\ got = Nothing
  /\ errs = FALSE /\ cache = NoEntry /\ inventory = [listed |-> {}, complete |-> FALSE, strict |-> FALSE]
  /\ scans = 0
  /\ held = {}

ScanNext ==
  BeginScan \/ NoRoot \/ Named \/ ReadMetadata \/ CachedMetadata \/ ReadPid \/ JudgeEntry \/ World

ScanSpec == ScanInit /\ [][ScanNext]_svars

----------------------------------------------------------------------------
(* A listed record is one its file held while the scan ran, also when the *)
(* cache answered for it: however the record is rewritten, removed and *)
(* published again within a tick of the file system's clock, on an inode *)
(* that comes back (metadata_cache.rs, settled). *)
ListedRecordWasThere ==
  sat = "idle" => \A s \in inventory.listed : s.rec \in held \cup {NoRecord}

(* A strict inventory that calls itself complete lists every session whose *)
(* record stood in the registry for the whole scan. *)
CompleteMeansComplete ==
  sat = "idle" /\ inventory.strict /\ inventory.complete /\ held # {} /\ NoRecord \notin held =>
    \E s \in inventory.listed : s.rec # NoRecord
=============================================================================
