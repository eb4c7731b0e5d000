--------------------------- MODULE MetadataPatch ---------------------------
(***************************************************************************)
(* Changes to one session's record (registry/mutate.rs): patches, which    *)
(* write the record and one event under both locks, compare-and-set, which *)
(* takes the creation lock only, and the publication and removal of the    *)
(* row they meet.  Waits end by the clock; a writer may die anywhere.      *)
(***************************************************************************)
EXTENDS Integers, Sequences

CONSTANTS
  Writers,    \* processes that change the record
  Ops,        \* what they may do: "patch", "tag", "name", "cas"
  EventWait,  \* EVENT_LOCK_WAIT, in ticks
  PatchWait,  \* METADATA_PATCH_LOCK_WAIT, in ticks
  MaxOps,     \* bound: operations begun
  MaxForeign, \* bound: writes by a program that takes no lock
  MaxTick     \* bound: ticks of the clock

VARIABLES
  rec,        \* the record: generation (0: none), tag, display name
  log,        \* the changes its event log tells, since it was last cleared
  event,      \* holder of <name>.events.lock, 0 when free
  creation,   \* holder of <name>.lock
  wr,         \* writer -> the operation it is at
  pub,        \* the launch: the step it is at and its deadline
  begun,      \* operations begun so far
  now,        \* the clock
  foreign,    \* ghost: writes outside the protocol
  published,  \* ghost: the changes published since the log was cleared
  lost        \* ghost: the numbers of those whose event could not be written

mvars == <<rec, log, event, creation, wr, pub, begun, now, foreign, published, lost>>

Publisher == 99
NoRec == [gen |-> 0, tag |-> 0, name |-> 0]
Idle == [at |-> "idle", op |-> "none", want |-> 0, gen |-> 0, deadline |-> 0, read |-> NoRec, result |-> "none"]

(* MetadataPatch, TagCompareAndSetRequest: the record after the request; *)
(* a compare-and-set expects the tag it names. *)
Requested(w, r) ==
  CASE wr[w].op = "name" -> [r EXCEPT !.name = wr[w].want]
    [] wr[w].op = "cas" -> IF r.tag = 0 THEN [r EXCEPT !.tag = wr[w].want] ELSE r
    [] OTHER -> [r EXCEPT !.tag = wr[w].want]

Emits(w) == wr[w].op # "cas"
Frees(w) ==
  /\ event' = IF event = w THEN 0 ELSE event
  /\ creation' = IF creation = w THEN 0 ELSE creation
Returns(w, result) == wr' = [wr EXCEPT ![w] = [Idle EXCEPT !.result = result]] /\ Frees(w)

(* patch_metadata_by_id, apply_metadata_patch_by_id (set_display_name, *)
(* update_tags), compare_and_set_tag_value: a fail-fast caller has no time *)
(* to wait. *)
Begin(w, op, want) ==
  /\ wr[w].at = "idle" /\ begun < MaxOps
  /\ begun' = begun + 1
  /\ wr' = [wr EXCEPT ![w] =
       [at |-> CASE op = "patch" -> "settled" [] op = "cas" -> "creation" [] OTHER -> "event",
        op |-> op, want |-> want, gen |-> IF op = "cas" THEN rec.gen ELSE 0,
        deadline |-> now + (IF op = "patch" THEN PatchWait ELSE 0), read |-> NoRec, result |-> "none"]]
  /\ UNCHANGED <<rec, log, event, creation, pub, now, foreign, published, lost>>

(* The wait of patch_metadata_by_id for the creation lock to be free, and *)
(* the look for the record. *)
CreationSettled(w) ==
  /\ wr[w].at = "settled"
  /\ \/ /\ creation = 0 /\ rec.gen # 0
        /\ wr' = [wr EXCEPT ![w].at = "event"]
        /\ UNCHANGED <<event, creation>>
     \/ creation = 0 /\ rec.gen = 0 /\ Returns(w, "not found")
     \/ creation # 0 /\ now >= wr[w].deadline /\ Returns(w, "busy")
  /\ UNCHANGED <<rec, log, pub, begun, now, foreign, published, lost>>

TakeEventLock(w) ==
  /\ wr[w].at = "event"
  /\ \/ event = 0 /\ event' = w /\ wr' = [wr EXCEPT ![w].at = "creation"] /\ UNCHANGED creation
     \/ event # 0 /\ now >= wr[w].deadline /\ Returns(w, "busy")
  /\ UNCHANGED <<rec, log, pub, begun, now, foreign, published, lost>>

(* Mutant: a busy creation lock does not keep the writer out. *)
TakeCreationLockShared(w) ==
  /\ wr[w].at = "creation"
  /\ creation' = IF creation = 0 THEN w ELSE creation
  /\ wr' = [wr EXCEPT ![w].at = "read"]
  /\ UNCHANGED <<rec, log, event, pub, begun, now, foreign, published, lost>>

TakeCreationLock(w) ==
  /\ wr[w].at = "creation"
  /\ \/ creation = 0 /\ creation' = w /\ wr' = [wr EXCEPT ![w].at = "read"] /\ UNCHANGED event
     \/ creation # 0 /\ now >= wr[w].deadline /\ Returns(w, "busy")
  /\ UNCHANGED <<rec, log, pub, begun, now, foreign, published, lost>>

(* mutate_metadata_under_lock_core up to the decision: missing, another *)
(* generation than expected, nothing to change. *)
Decide(w) ==
  /\ wr[w].at = "read"
  /\ \/ rec.gen = 0 /\ Returns(w, "missing")
     \/ rec.gen # 0 /\ wr[w].gen \notin {0, rec.gen} /\ Returns(w, "generation-mismatch")
     \/ /\ rec.gen # 0 /\ wr[w].gen \in {0, rec.gen} /\ Requested(w, rec) = rec
        /\ Returns(w, IF wr[w].op = "cas" /\ rec.tag # 0 THEN "value-mismatch" ELSE "unchanged")
     \/ /\ rec.gen # 0 /\ wr[w].gen \in {0, rec.gen} /\ Requested(w, rec) # rec
        /\ wr' = [wr EXCEPT ![w].at = "reread", ![w].read = rec]
        /\ UNCHANGED <<event, creation>>
  /\ UNCHANGED <<rec, log, pub, begun, now, foreign, published, lost>>

(* The second read: a record rewritten meanwhile is stale. *)
Reread(w) ==
  /\ wr[w].at = "reread"
  /\ \/ rec # wr[w].read /\ Returns(w, "stale")
     \/ rec = wr[w].read /\ wr' = [wr EXCEPT ![w].at = "write"] /\ UNCHANGED <<event, creation>>
  /\ UNCHANGED <<rec, log, pub, begun, now, foreign, published, lost>>

(* The change, with its number among the published ones. *)
Change(w, n) == [nr |-> n, prev |-> wr[w].read, val |-> Requested(w, wr[w].read)]

WriteSucceeds(w) ==
  /\ rec' = Requested(w, wr[w].read)
  /\ published' = IF Emits(w) THEN Append(published, Change(w, Len(published) + 1)) ELSE published
  /\ wr' = [wr EXCEPT ![w].at = "append"]
  /\ UNCHANGED <<event, creation>>

(* Mutant: the error of write_metadata_map is ignored. *)
WriteRecordOrNot(w) ==
  /\ wr[w].at = "write"
  /\ WriteSucceeds(w) \/ (wr' = [wr EXCEPT ![w].at = "append"] /\ UNCHANGED <<rec, published, event, creation>>)
  /\ UNCHANGED <<log, pub, begun, now, foreign, lost>>

WriteRecord(w) ==
  /\ wr[w].at = "write"
  /\ WriteSucceeds(w) \/ (Returns(w, "stale") /\ UNCHANGED <<rec, published>>)
  /\ UNCHANGED <<log, pub, begun, now, foreign, lost>>

(* on_published: the event, still under the locks. *)
AppendEvent(w) ==
  /\ wr[w].at = "append"
  /\ log' = IF Emits(w) THEN Append(log, Change(w, Len(published))) ELSE log
  /\ Returns(w, "changed")
  /\ UNCHANGED <<rec, pub, begun, now, foreign, published, lost>>

(* The change of a writer that is telling it has no event, and never will. *)
Untold(w) == lost' = IF wr[w].at = "append" /\ Emits(w) THEN lost \cup {Len(published)} ELSE lost

(* append_event_locked fails: its error is ignored, the caller hears that *)
(* the record changed. *)
AppendFails(w) ==
  /\ wr[w].at = "append" /\ Emits(w)
  /\ Untold(w)
  /\ Returns(w, "changed")
  /\ UNCHANGED <<rec, log, pub, begun, now, foreign, published>>

(* A writer dies: the next taker steals its locks. *)
Dies(w) ==
  /\ wr[w].at # "idle"
  /\ Untold(w)
  /\ Returns(w, "died")
  /\ UNCHANGED <<rec, log, pub, begun, now, foreign, published>>

----------------------------------------------------------------------------
(* publish_session, under the creation lock its launcher delegated: clear *)
(* the events, publish the record. *)
PublishBegins ==
  /\ pub.at = "idle" /\ rec.gen < 2 /\ creation = 0
  /\ creation' = Publisher
  /\ pub' = [at |-> "clear", deadline |-> now + EventWait]
  /\ UNCHANGED <<rec, log, event, wr, begun, now, foreign, published, lost>>

PublishClears ==
  /\ pub.at = "clear"
  /\ \/ event = 0 /\ log' = <<>> /\ published' = <<>> /\ lost' = {} /\ pub' = [pub EXCEPT !.at = "write"] /\ UNCHANGED creation
     \/ /\ event # 0 /\ now >= pub.deadline
        /\ pub' = [pub EXCEPT !.at = "failed"] /\ creation' = 0
        /\ UNCHANGED <<log, published, lost>>
  /\ UNCHANGED <<rec, event, wr, begun, now, foreign>>

PublishWrites ==
  /\ pub.at = "write"
  /\ rec' = [gen |-> rec.gen + 1, tag |-> 0, name |-> 0]
  /\ pub' = [pub EXCEPT !.at = "idle"] /\ creation' = 0
  /\ UNCHANGED <<log, event, wr, begun, now, foreign, published, lost>>

(* cleanup_all: both locks, neither waited for. *)
CleanupAll ==
  /\ event = 0 /\ creation = 0 /\ rec.gen = 1
  /\ rec' = NoRec /\ log' = <<>> /\ published' = <<>> /\ lost' = {}
  /\ UNCHANGED <<event, creation, wr, pub, begun, now, foreign>>

ForeignWrite ==
  /\ foreign < MaxForeign /\ rec.gen # 0
  /\ foreign' = foreign + 1
  /\ rec' = [rec EXCEPT !.name = 9]
  /\ UNCHANGED <<log, event, creation, wr, pub, begun, now, published, lost>>

Tick == now < MaxTick /\ now' = now + 1 /\ UNCHANGED <<rec, log, event, creation, wr, pub, begun, foreign, published, lost>>

PatchInit ==
  /\ rec = [gen |-> 1, tag |-> 0, name |-> 0]
  /\ log = <<>> /\ published = <<>> /\ lost = {} /\ event = 0 /\ creation = 0
  /\ wr = [w \in Writers |-> Idle]
  /\ pub = [at |-> "idle", deadline |-> 0]
  /\ begun = 0 /\ now = 0 /\ foreign = 0

PatchNext ==
  \/ \E w \in Writers :
       \/ \E op \in Ops : Begin(w, op, w)
       \/ CreationSettled(w) \/ TakeEventLock(w) \/ TakeCreationLock(w) \/ Decide(w)
       \/ Reread(w) \/ WriteRecord(w) \/ AppendEvent(w) \/ AppendFails(w) \/ Dies(w)
  \/ PublishBegins \/ PublishClears \/ PublishWrites \/ CleanupAll \/ ForeignWrite \/ Tick

PatchSpec == PatchInit /\ [][PatchNext]_mvars

----------------------------------------------------------------------------
(* The log tells the published changes of the record, each at most once, *)
(* in the order they were published and with the values before and after; *)
(* a change is missing only if its writer died, or could not append, *)
(* between the record and the event: through stale reads, failed writes, *)
(* busy locks and a republication that clears the log (mutate.rs, *)
(* on_published). *)
EventPerChange ==
  (\A w \in Writers : wr[w].at # "append") =>
    /\ \A i \in DOMAIN log : log[i].nr \in DOMAIN published \ lost /\ log[i] = published[log[i].nr]
    /\ \A i, j \in DOMAIN log : i < j => log[i].nr < log[j].nr
    /\ \A n \in DOMAIN published \ lost : \E i \in DOMAIN log : log[i].nr = n

(* mutate.rs, apply_metadata_patch_by_id: "append exactly one event when *)
(* something changed".  Not so when the append fails or the writer dies before it. *)
ExactlyOneEvent == (\A w \in Writers : wr[w].at # "append") => log = published

(* No change of the record is overwritten by a writer that did not see it: *)
(* what a writer is about to replace is what it read, as long as every *)
(* writer takes the creation lock, whoever dies holding it. *)
NoPatchIsLost ==
  foreign = 0 => \A w \in Writers : wr[w].at \in {"reread", "write"} => wr[w].read = rec

(* mutate.rs, patch_metadata_by_id: a live creation lock is waited out *)
(* before taking the event lock, so daemon publication keeps its own *)
(* bounded budget for that lock. *)
PublicationKeepsItsBudget == pub.at # "failed"
=============================================================================
