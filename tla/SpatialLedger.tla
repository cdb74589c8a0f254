----------------------------- MODULE SpatialLedger -----------------------------
(***************************************************************************)
(* DurableSpatialLedger of services/governed_spatial_state.py: the         *)
(* histories of ReceiptLog as one private JSON file per receipt and an     *)
(* index.json that names them.  Several processes share the directory: an  *)
(* flock serialises them, and whoever takes it reloads the index and       *)
(* compares it with the files there are.  A receipt is written to a        *)
(* temporary file beside its place and renamed into it, then the index is  *)
(* replaced the same way.  A process may die between any two of these      *)
(* steps, and the disk may refuse one.                                     *)
(*                                                                         *)
(* A reload that finds the directory damaged raises, and so does a call    *)
(* the rules of ReceiptLog refuse or have answered before: neither changes *)
(* anything, so neither is an action.                                      *)
(***************************************************************************)
EXTENDS Naturals, Sequences, FiniteSets, Functions

CONSTANTS
  Composition, Build, Scope, MaxAttempts,  \* as in ReceiptLog
  Proc,       \* processes that opened the directory
  Offered,    \* [Key -> set of the receipts callers may bring]
  Nobody,
  MaxLength,  \* bound on the receipts of one key
  Faults,     \* the kinds that occur: subset of {"crash", "write", "sync"}
  MaxFaults   \* bound on how many occur

ASSUME FaultKinds == Faults \subseteq {"crash", "write", "sync"}
ASSUME Bounds == MaxLength \in Nat /\ MaxFaults \in Nat

VARIABLES
  index,   \* index.json: per key, the receipts it names, in order
  files,   \* the receipt files: a function from <<key, sequence>> to the receipt
  temps,   \* temporary files in the family directories, by the file they were for
  lock,    \* who holds the flock on .ledger.lock
  cache,   \* per process: the histories it loaded last
  pc,      \* per process: where it is in _save
  saving,  \* per process: the key and the receipt it saves
  acked,   \* per key: the receipts a save has returned to its caller
  faults

vars == <<index, files, temps, lock, cache, pc, saving, acked, faults>>

Log == INSTANCE ReceiptLog WITH log <- index
Key == Log!Key

Receipts == UNION Range(Offered)

ASSUME OfferedPerKey == DOMAIN Offered = Key
ASSUME NobodyApart == Nobody \notin Proc

Path(p) == <<saving[p][1], Len(cache[p][saving[p][1]]) + 1>>

\* The files the index names.
Named == {f \in Key \X (1..MaxLength) : f[2] <= Len(index[f[1]])}

\* _load_locked: every file the index names is there with the digest it names, and
\* the family directories hold nothing else.
Loads ==
  /\ temps = {}
  /\ DOMAIN files = Named
  /\ \A f \in Named : files[f] = index[f[1]][f[2]]

\* Mutant of Reload: the histories in memory are trusted.
ReloadSkipped(p) == UNCHANGED cache

\* Mutant of Reload: the index is read and the directory not compared with it.
ReloadUnchecked(p) == cache' = [cache EXCEPT ![p] = index]

\* _guard: the reload of whoever took the lock.
Reload(p) == Loads /\ cache' = [cache EXCEPT ![p] = index]

Init ==
  /\ index = [k \in Key |-> <<>>]
  /\ files = [f \in {} |-> Nobody]
  /\ temps = {}
  /\ lock = Nobody
  /\ cache = [p \in Proc |-> [k \in Key |-> <<>>]]
  /\ pc = [p \in Proc |-> "idle"]
  /\ saving = [p \in Proc |-> <<>>]
  /\ acked = [k \in Key |-> {}]
  /\ faults = 0

Fault(kind) == kind \in Faults /\ faults < MaxFaults /\ faults' = faults + 1

Release(p, where) ==
  /\ pc' = [pc EXCEPT ![p] = where]
  /\ lock' = Nobody

\* find_build, build_history, privacy_status, find_composition, integrity_summary.
Read(p) ==
  /\ pc[p] = "idle" /\ lock = Nobody
  /\ Reload(p)
  /\ UNCHANGED <<index, files, temps, lock, pc, saving, acked, faults>>

\* Mutant of Enter: whatever a caller brings is saved.
EnterUnchecked(p, k, r) ==
  /\ pc[p] = "idle" /\ lock = Nobody
  /\ Reload(p)
  /\ Len(cache'[p][k]) < MaxLength
  /\ lock' = p
  /\ pc' = [pc EXCEPT ![p] = "accepted"]
  /\ saving' = [saving EXCEPT ![p] = <<k, r>>]
  /\ UNCHANGED <<index, files, temps, acked, faults>>

\* save_composition, _save_build_transition, record_privacy_action, up to the write.
Enter(p, k, r) ==
  /\ pc[p] = "idle" /\ lock = Nobody
  /\ Reload(p)
  /\ Len(cache'[p][k]) < MaxLength
  /\ Log!Accepts(k, cache'[p][k], r)
  /\ lock' = p
  /\ pc' = [pc EXCEPT ![p] = "accepted"]
  /\ saving' = [saving EXCEPT ![p] = <<k, r>>]
  /\ UNCHANGED <<index, files, temps, acked, faults>>

\* _write_private opens the temporary file, fills it and syncs it.
WriteTemp(p) ==
  /\ pc[p] = "accepted"
  /\ temps' = temps \cup {Path(p)}
  /\ pc' = [pc EXCEPT ![p] = "written"]
  /\ UNCHANGED <<index, files, lock, cache, saving, acked, faults>>

\* ... or an error on the way: the finally clause unlinks it, the call raises.
WriteFails(p) ==
  /\ pc[p] = "written" /\ Fault("write")
  /\ temps' = temps \ {Path(p)}
  /\ Release(p, "idle")
  /\ UNCHANGED <<index, files, cache, saving, acked>>

\* os.replace puts the receipt in its place.
Rename(p) ==
  /\ pc[p] = "written"
  /\ temps' = temps \ {Path(p)}
  /\ files' = [f \in DOMAIN files \cup {Path(p)} |->
                IF f = Path(p) THEN saving[p][2] ELSE files[f]]
  /\ pc' = [pc EXCEPT ![p] = "placed"]
  /\ UNCHANGED <<index, lock, cache, saving, acked, faults>>

\* The sync of the family directory fails: the call raises and leaves the receipt.
SyncFails(p) ==
  /\ pc[p] = "placed" /\ Fault("sync")
  /\ Release(p, "idle")
  /\ UNCHANGED <<index, files, temps, cache, saving, acked>>

\* _persist_index: what this process loaded, and the new receipt, replace the index.
\* Its temporary file is beside it, where no reload looks.
PersistIndex(p) ==
  /\ pc[p] = "placed"
  /\ LET k == saving[p][1] IN
       index' = [cache[p] EXCEPT ![k] = Append(@, saving[p][2])]
  /\ pc' = [pc EXCEPT ![p] = "indexed"]
  /\ UNCHANGED <<files, temps, lock, cache, saving, acked, faults>>

\* It fails, before the index is replaced or when the root directory is synced.
PersistFails(p) ==
  /\ \/ pc[p] = "placed" /\ Fault("write")
     \/ pc[p] = "indexed" /\ Fault("sync")
  /\ pc' = [pc EXCEPT ![p] = "undo"]
  /\ UNCHANGED <<index, files, temps, lock, cache, saving, acked>>

\* _unlink_new_record, and the call raises.
UnlinkNewRecord(p) ==
  /\ pc[p] = "undo"
  /\ files' = Restrict(files, DOMAIN files \ {Path(p)})
  /\ Release(p, "idle")
  /\ UNCHANGED <<index, temps, cache, saving, acked, faults>>

\* The receipt is in this process's history, and returned.
Return(p) ==
  /\ pc[p] = "indexed"
  /\ LET k == saving[p][1]  r == saving[p][2] IN
       /\ cache' = [cache EXCEPT ![p][k] = Append(@, r)]
       /\ acked' = [acked EXCEPT ![k] = @ \cup {r}]
  /\ Release(p, "idle")
  /\ UNCHANGED <<index, files, temps, saving, faults>>

\* The process dies; the system drops its flock and keeps its files.
Crash(p) ==
  /\ pc[p] # "down" /\ Fault("crash")
  /\ pc' = [pc EXCEPT ![p] = "down"]
  /\ lock' = IF lock = p THEN Nobody ELSE lock
  /\ UNCHANGED <<index, files, temps, cache, saving, acked>>

\* DurableSpatialLedger(root): a directory that does not load raises here too.
Start(p) ==
  /\ pc[p] = "down" /\ lock = Nobody
  /\ Reload(p)
  /\ pc' = [pc EXCEPT ![p] = "idle"]
  /\ UNCHANGED <<index, files, temps, lock, saving, acked, faults>>

Next ==
  \E p \in Proc :
    \/ Read(p) \/ Start(p) \/ Crash(p)
    \/ \E k \in Key : \E r \in Offered[k] : Enter(p, k, r)
    \/ WriteTemp(p) \/ WriteFails(p) \/ Rename(p) \/ SyncFails(p)
    \/ PersistIndex(p) \/ PersistFails(p) \/ UnlinkNewRecord(p) \/ Return(p)

Spec == Init /\ [][Next]_vars
-----------------------------------------------------------------------------
TypeOK ==
  /\ index \in [Key -> Seq(Receipts)]
  /\ DOMAIN files \subseteq Key \X (1..MaxLength) /\ Range(files) \subseteq Receipts
  /\ temps \subseteq Key \X (1..MaxLength)
  /\ lock \in Proc \cup {Nobody}
  /\ cache \in [Proc -> [Key -> Seq(Receipts)]]
  /\ pc \in [Proc ->
       {"idle", "accepted", "written", "placed", "indexed", "undo", "down"}]
  /\ saving \in [Proc -> {<<>>} \cup (Key \X Receipts)]
  /\ acked \in [Key -> SUBSET Receipts]
  /\ faults \in 0..MaxFaults

\* A directory nobody is writing in can be opened.  _load_locked refuses one whose
\* files are not exactly those the index names.
Loadable == lock = Nobody => Loads

\* A receipt a caller was given is named by the index and its file is there: another
\* process's save, a failed one or a crash never takes it back.
AcksKept ==
  \A k \in Key : \A r \in acked[k] :
    \E n \in DOMAIN index[k] :
      index[k][n] = r /\ <<k, n>> \in DOMAIN files /\ files[<<k, n>>] = r

\* A receipt is in its place before the index names it, so that a reader never
\* follows the index to a file that is not there, whenever the writer died.
RecordsFirst ==
  \A f \in Named : f \in DOMAIN files /\ files[f] = index[f[1]][f[2]]

\* Whoever meets a damaged directory leaves it as it is: nobody gets as far as a
\* save, so nothing is written over it and the damage lasts.
DamageFrozen ==
  [][(lock = Nobody /\ ~Loads) => UNCHANGED <<index, files, temps, lock>>]_vars

\* The index goes through the histories of ReceiptLog: every save takes effect at
\* once, in one order for all processes, and a dead process's save wholly or not.
ImplementsReceiptLog == Log!LogSpec

\* ... and so the index keeps what those histories keep: quota for which an attempt was
\* committed is never recorded as given back.
AttemptsNotReleased == Log!AttemptsNotReleased
=============================================================================
