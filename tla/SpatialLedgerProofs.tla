-------------------------- MODULE SpatialLedgerProofs --------------------------
(***************************************************************************)
(* What the ledger's files keep for any number of processes, keys, faults  *)
(* and receipts: the index is a ReceiptLog, a returned receipt is never    *)
(* lost, and damage is never written over.  And what builds over such      *)
(* histories keep (SpatialBuild), for any number of workers and deaths: no *)
(* operation is called twice or unannounced, what is settled is settled.   *)
(***************************************************************************)
EXTENDS SpatialLedger, TLAPS

Saves(p) == pc[p] \in {"accepted", "written", "placed", "indexed", "undo"}

\* The index once the receipt p saves is in it.
Extended(p) ==
  [cache[p] EXCEPT ![saving[p][1]] = Append(cache[p][saving[p][1]], saving[p][2])]

\* Every receipt that was returned is in history h, with its file.
KeptIn(h) ==
  \A k \in Key : \A r \in acked[k] :
    \E n \in DOMAIN h[k] :
      h[k][n] = r /\ <<k, n>> \in DOMAIN files /\ files[<<k, n>>] = r

Types ==
  /\ index \in [Key -> Seq(Receipts)]
  /\ cache \in [Proc -> [Key -> Seq(Receipts)]]
  /\ acked \in [Key -> SUBSET Receipts]
  /\ pc \in [Proc ->
       {"idle", "accepted", "written", "placed", "indexed", "undo", "down"}]
  /\ DOMAIN saving = Proc

\* Whoever is inside a save holds the flock and brought a receipt of a key.
Locked == \A p \in Proc : Saves(p) => lock = p /\ saving[p] \in Key \X Receipts

\* Until the index is replaced it is what the holder of the flock loaded, and its
\* receipt is one the rules accept after it.
Fresh == \A p \in Proc :
  pc[p] \in {"accepted", "written", "placed"} =>
    /\ cache[p] = index
    /\ Log!Accepts(saving[p][1], index[saving[p][1]], saving[p][2])

\* From the rename to the return the receipt's file is there.
InPlace == \A p \in Proc :
  pc[p] \in {"placed", "indexed"} =>
    Path(p) \in DOMAIN files /\ files[Path(p)] = saving[p][2]

Replaced == \A p \in Proc :
  /\ pc[p] = "indexed" => index = Extended(p)
  /\ pc[p] = "undo" => index = cache[p] \/ index = Extended(p)

\* What was returned before a save began is in what the saver loaded.
Kept == KeptIn(index) /\ \A p \in Proc : Saves(p) => KeptIn(cache[p])

IInv == Types /\ Locked /\ Fresh /\ InPlace /\ Replaced /\ Kept

LEMMA InitIInv == Init => IInv
BY DEF Init, IInv, Types, Locked, Fresh, InPlace, Replaced, Kept, KeptIn, Saves

\* Appending a receipt to a history leaves the older ones where they are.
LEMMA AppendKeeps ==
  ASSUME NEW h \in Seq(Receipts), NEW r \in Receipts
  PROVE  /\ Append(h, r) \in Seq(Receipts)
         /\ Len(h) \in Nat /\ Len(Append(h, r)) = Len(h) + 1
         /\ DOMAIN h = 1..Len(h) /\ DOMAIN Append(h, r) = 1..(Len(h) + 1)
         /\ \A n \in DOMAIN h : n \in DOMAIN Append(h, r) /\ Append(h, r)[n] = h[n]
         /\ Append(h, r)[Len(h) + 1] = r
OBVIOUS

\* The index with one more receipt has what was loaded where it was.
LEMMA ExtendedFirst ==
  ASSUME Types, Locked, NEW p \in Proc, Saves(p), NEW j \in Key, NEW n \in DOMAIN cache[p][j]
  PROVE  n \in DOMAIN Extended(p)[j] /\ Extended(p)[j][n] = cache[p][j][n]
<1> DEFINE k == saving[p][1]
           r == saving[p][2]
<1>1. k \in Key /\ r \in Receipts /\ cache[p] \in [Key -> Seq(Receipts)]
  BY DEF Types, Locked
<1>2. CASE j = k
  <2>1. Extended(p)[j] = Append(cache[p][k], r)
    BY <1>1, <1>2 DEF Extended
  <2> QED
    BY <1>1, <1>2, <2>1, AppendKeeps
<1>3. CASE j # k
  BY <1>1, <1>3 DEF Extended
<1> QED
  BY <1>2, <1>3

\* ... and so holds all that was returned.
LEMMA ExtendedKeeps ==
  ASSUME Types, Locked, NEW p \in Proc, Saves(p), KeptIn(cache[p])
  PROVE  KeptIn(Extended(p)) /\ Extended(p) \in [Key -> Seq(Receipts)]
<1> DEFINE k == saving[p][1]
           r == saving[p][2]
<1>1. k \in Key /\ r \in Receipts /\ cache[p] \in [Key -> Seq(Receipts)]
  BY DEF Types, Locked
<1>2. Append(cache[p][k], r) \in Seq(Receipts)
  BY <1>1, AppendKeeps
<1>3. Extended(p) \in [Key -> Seq(Receipts)]
  BY <1>1, <1>2 DEF Extended
<1> SUFFICES ASSUME NEW j \in Key, NEW a \in acked[j]
             PROVE  \E n \in DOMAIN Extended(p)[j] :
                      /\ Extended(p)[j][n] = a
                      /\ <<j, n>> \in DOMAIN files /\ files[<<j, n>>] = a
  BY <1>3 DEF KeptIn
<1>5. PICK n \in DOMAIN cache[p][j] :
        cache[p][j][n] = a /\ <<j, n>> \in DOMAIN files /\ files[<<j, n>>] = a
  BY DEF KeptIn
<1> QED
  BY <1>5, ExtendedFirst

-----------------------------------------------------------------------------
\* Two processes are never inside a save at once.
LEMMA OneSaves ==
  ASSUME Locked, NEW p \in Proc, NEW q \in Proc, Saves(p), Saves(q)
  PROVE  p = q
BY DEF Locked

\* Nobody is inside a save while the flock is free.
LEMMA FreeMeansNoSave ==
  ASSUME Locked, lock = Nobody, NEW p \in Proc
  PROVE  ~Saves(p)
BY NobodyApart DEF Locked

LEMMA ReadIInv ==
  ASSUME IInv, NEW p \in Proc, Read(p) \/ Start(p)
  PROVE  IInv'
<1>1. \A q \in Proc : ~Saves(q)
  BY FreeMeansNoSave DEF IInv, Read, Start
<1>2. \A q \in Proc : ~Saves(q)'
  BY <1>1 DEF Saves, Read, Start, IInv, Types
<1>3. Types'
  BY DEF IInv, Types, Read, Start, Reload
<1>4. Kept'
  BY <1>2 DEF IInv, Kept, KeptIn, Read, Start
<1> QED
  BY <1>2, <1>3, <1>4 DEF IInv, Locked, Fresh, InPlace, Replaced, Saves

LEMMA EnterIInv ==
  ASSUME IInv, NEW p \in Proc, NEW k \in Key, NEW r \in Offered[k], Enter(p, k, r)
  PROVE  IInv'
<1>1. \A q \in Proc : ~Saves(q)
  BY FreeMeansNoSave DEF IInv, Enter
<1>2. r \in Receipts /\ <<k, r>> \in Key \X Receipts
  BY OfferedPerKey DEF Receipts, Range
<1>3. /\ pc' = [pc EXCEPT ![p] = "accepted"] /\ lock' = p
      /\ saving' = [saving EXCEPT ![p] = <<k, r>>] /\ cache' = [cache EXCEPT ![p] = index]
      /\ UNCHANGED <<index, files, acked>> /\ Log!Accepts(k, cache'[p][k], r)
  BY DEF Enter, Reload
<1>4. Types'
  BY <1>3 DEF IInv, Types
<1>5. cache'[p] = index /\ saving'[p] = <<k, r>> /\ pc'[p] = "accepted"
  BY <1>3 DEF IInv, Types
<1>6. \A q \in Proc : q # p => ~Saves(q)'
  BY <1>1, <1>3 DEF Saves, IInv, Types
<1>7. Locked'
  BY <1>2, <1>3, <1>5, <1>6 DEF Locked
<1>8. Fresh'
  BY <1>3, <1>5, <1>6 DEF Fresh, Saves
<1>9. InPlace' /\ Replaced'
  BY <1>5, <1>6 DEF InPlace, Replaced, Saves
<1>10. Kept'
  <2>1. KeptIn(index)'
    BY <1>3 DEF IInv, Kept, KeptIn
  <2>2. KeptIn(cache[p])'
    BY <1>3, <1>5, <2>1 DEF KeptIn
  <2> QED
    BY <1>6, <2>1, <2>2 DEF Kept
<1> QED
  BY <1>4, <1>7, <1>8, <1>9, <1>10 DEF IInv

\* A step inside p's save that keeps index, cache and the returned receipts, with the
\* files at places other than those returned receipts take.
LEMMA InsideKept ==
  ASSUME IInv, NEW p \in Proc, Saves(p), UNCHANGED <<index, cache, acked>>,
         \A f \in DOMAIN files : f # Path(p) => f \in DOMAIN files' /\ files'[f] = files[f]
  PROVE  KeptIn(cache[p])'
<1> SUFFICES ASSUME NEW j \in Key, NEW a \in acked[j]
             PROVE  \E n \in DOMAIN cache[p][j] :
                      /\ cache[p][j][n] = a
                      /\ <<j, n>> \in DOMAIN files' /\ files'[<<j, n>>] = a
  BY DEF KeptIn
<1>1. PICK n \in DOMAIN cache[p][j] :
        cache[p][j][n] = a /\ <<j, n>> \in DOMAIN files /\ files[<<j, n>>] = a
  BY DEF IInv, Kept, KeptIn
<1>2. cache[p][j] \in Seq(Receipts) /\ saving[p][1] \in Key
  BY DEF IInv, Types, Locked
<1>3. <<j, n>> # Path(p)
  BY <1>2 DEF Path
<1> QED
  BY <1>1, <1>3

\* p ends its save, or dies in it: nobody is inside one afterwards.
LEMMA LeaveIInv ==
  ASSUME IInv, NEW p \in Proc, Saves(p), NEW w \in {"idle", "down"},
         pc' = [pc EXCEPT ![p] = w], UNCHANGED saving, Types', KeptIn(index)'
  PROVE  IInv'
<1>1. \A q \in Proc : ~Saves(q)'
  <2> SUFFICES ASSUME NEW q \in Proc PROVE ~Saves(q)'
    OBVIOUS
  <2>1. CASE q = p
    BY <2>1 DEF Saves, IInv, Types
  <2>2. CASE q # p
    <3>1. ~Saves(q)
      BY <2>2, OneSaves DEF IInv
    <3> QED
      BY <2>2, <3>1 DEF Saves, IInv, Types
  <2> QED
    BY <2>1, <2>2
<1> QED
  BY <1>1 DEF IInv, Locked, Fresh, InPlace, Replaced, Kept, Saves

\* p goes on in its save: what has to hold is about p alone.
LEMMA StayIInv ==
  ASSUME IInv, NEW p \in Proc, Saves(p),
         NEW w \in {"written", "placed", "indexed", "undo"},
         pc' = [pc EXCEPT ![p] = w], UNCHANGED <<lock, saving, cache, acked>>, Types',
         w \in {"written", "placed"} =>
           cache[p] = index' /\ Log!Accepts(saving[p][1], index[saving[p][1]], saving[p][2])'
  PROVE  /\ (w \in {"placed", "indexed"} =>
               Path(p) \in DOMAIN files' /\ files'[Path(p)] = saving[p][2])
         /\ (w = "indexed" => index' = Extended(p))
         /\ (w = "undo" => index' = cache[p] \/ index' = Extended(p))
         /\ KeptIn(index)' /\ KeptIn(cache[p])'
         => IInv'
<1>1. pc'[p] = w /\ \A q \in Proc : q # p => ~Saves(q)'
  BY OneSaves DEF Saves, IInv, Types
<1>2. Path(p)' = Path(p) /\ Extended(p)' = Extended(p)
  BY DEF Path, Extended
<1>3. Locked'
  BY <1>1 DEF IInv, Locked, Saves
<1>4. Fresh'
  BY <1>1 DEF Fresh, Saves
<1>5. SUFFICES ASSUME
           /\ (w \in {"placed", "indexed"} =>
                 Path(p) \in DOMAIN files' /\ files'[Path(p)] = saving[p][2])
           /\ (w = "indexed" => index' = Extended(p))
           /\ (w = "undo" => index' = cache[p] \/ index' = Extended(p))
           /\ KeptIn(index)' /\ KeptIn(cache[p])'
         PROVE IInv'
  OBVIOUS
<1>6. InPlace'
  BY <1>1, <1>2, <1>5 DEF InPlace, Saves
<1>7. Replaced'
  BY <1>1, <1>2, <1>5 DEF Replaced, Saves
<1>8. Kept'
  BY <1>1, <1>5 DEF Kept
<1> QED
  BY <1>3, <1>4, <1>6, <1>7, <1>8 DEF IInv

LEMMA WriteTempIInv ==
  ASSUME IInv, NEW p \in Proc, WriteTemp(p)
  PROVE  IInv'
<1>1. Saves(p) /\ pc' = [pc EXCEPT ![p] = "written"]
  BY DEF WriteTemp, Saves
<1>2. UNCHANGED <<index, files, lock, cache, saving, acked>>
  BY DEF WriteTemp
<1>3. Types'
  BY <1>1, <1>2 DEF IInv, Types
<1>4. KeptIn(index)' /\ KeptIn(cache[p])'
  BY <1>1, <1>2 DEF IInv, Kept, KeptIn
<1>5. cache[p] = index' /\ Log!Accepts(saving[p][1], index[saving[p][1]], saving[p][2])'
  BY <1>2 DEF IInv, Fresh, WriteTemp
<1> QED
  BY <1>1, <1>2, <1>3, <1>4, <1>5, StayIInv

LEMMA RenameIInv ==
  ASSUME IInv, NEW p \in Proc, Rename(p)
  PROVE  IInv'
<1>1. Saves(p) /\ pc' = [pc EXCEPT ![p] = "placed"]
  BY DEF Rename, Saves
<1>2. UNCHANGED <<index, lock, cache, saving, acked>>
  BY DEF Rename
<1>3. Types'
  BY <1>1, <1>2 DEF IInv, Types
<1>4. /\ Path(p) \in DOMAIN files' /\ files'[Path(p)] = saving[p][2]
      /\ \A f \in DOMAIN files : f # Path(p) => f \in DOMAIN files' /\ files'[f] = files[f]
  BY DEF Rename
<1>5. KeptIn(cache[p])'
  BY <1>1, <1>2, <1>4, InsideKept
<1>6. cache[p] = index
  BY DEF IInv, Fresh, Rename
<1>7. KeptIn(index)'
  BY <1>2, <1>5, <1>6 DEF KeptIn
<1>8. Log!Accepts(saving[p][1], index[saving[p][1]], saving[p][2])'
  BY <1>2 DEF IInv, Fresh, Rename
<1> QED
  BY <1>1, <1>2, <1>3, <1>4, <1>5, <1>6, <1>7, <1>8, StayIInv

LEMMA PersistIndexIInv ==
  ASSUME IInv, NEW p \in Proc, PersistIndex(p)
  PROVE  IInv'
<1>1. Saves(p) /\ pc' = [pc EXCEPT ![p] = "indexed"] /\ pc[p] = "placed"
  BY DEF PersistIndex, Saves
<1>2. UNCHANGED <<files, lock, cache, saving, acked>> /\ index' = Extended(p)
  BY DEF PersistIndex, Extended
<1>3. KeptIn(cache[p]) /\ Types /\ Locked
  BY <1>1 DEF IInv, Kept
<1>4. KeptIn(Extended(p)) /\ Extended(p) \in [Key -> Seq(Receipts)]
  BY <1>1, <1>3, ExtendedKeeps
<1>5. Types'
  BY <1>1, <1>2, <1>4 DEF IInv, Types
<1>6. KeptIn(index)' /\ KeptIn(cache[p])'
  BY <1>2, <1>3, <1>4 DEF KeptIn
<1>7. Path(p) \in DOMAIN files' /\ files'[Path(p)] = saving[p][2]
  BY <1>1, <1>2 DEF IInv, InPlace
<1> QED
  BY <1>1, <1>2, <1>5, <1>6, <1>7, StayIInv

LEMMA PersistFailsIInv ==
  ASSUME IInv, NEW p \in Proc, PersistFails(p)
  PROVE  IInv'
<1>1. Saves(p) /\ pc' = [pc EXCEPT ![p] = "undo"]
  BY DEF PersistFails, Saves
<1>2. UNCHANGED <<index, files, lock, cache, saving, acked>>
  BY DEF PersistFails
<1>3. Types'
  BY <1>1, <1>2 DEF IInv, Types
<1>4. KeptIn(index)' /\ KeptIn(cache[p])'
  BY <1>1, <1>2 DEF IInv, Kept, KeptIn
<1>5. index' = cache[p] \/ index' = Extended(p)
  BY <1>2 DEF IInv, Fresh, Replaced, PersistFails
<1> QED
  BY <1>1, <1>2, <1>3, <1>4, <1>5, StayIInv

LEMMA FailsIInv ==
  ASSUME IInv, NEW p \in Proc, WriteFails(p) \/ SyncFails(p)
  PROVE  IInv'
<1>1. Saves(p) /\ pc' = [pc EXCEPT ![p] = "idle"]
  BY DEF WriteFails, SyncFails, Release, Saves
<1>2. UNCHANGED <<index, files, cache, saving, acked>>
  BY DEF WriteFails, SyncFails
<1>3. Types' /\ KeptIn(index)'
  BY <1>1, <1>2 DEF IInv, Types, Kept, KeptIn
<1> QED
  BY <1>1, <1>2, <1>3, LeaveIInv

LEMMA UnlinkIInv ==
  ASSUME IInv, NEW p \in Proc, UnlinkNewRecord(p)
  PROVE  IInv'
<1>1. Saves(p) /\ pc' = [pc EXCEPT ![p] = "idle"] /\ pc[p] = "undo"
  BY DEF UnlinkNewRecord, Release, Saves
<1>2. UNCHANGED <<index, cache, saving, acked>>
  BY DEF UnlinkNewRecord
<1>3. Types'
  BY <1>1, <1>2 DEF IInv, Types
<1>4. \A f \in DOMAIN files : f # Path(p) => f \in DOMAIN files' /\ files'[f] = files[f]
  BY DEF UnlinkNewRecord, Restrict
<1>5. KeptIn(cache[p])'
  BY <1>1, <1>2, <1>4, InsideKept
<1>6. KeptIn(index)'
  <2>1. CASE index = cache[p]
    BY <1>2, <1>5, <2>1 DEF KeptIn
  <2>2. CASE index = Extended(p)
    <3> SUFFICES ASSUME NEW j \in Key, NEW a \in acked[j]
                 PROVE  \E n \in DOMAIN index[j] :
                          /\ index[j][n] = a
                          /\ <<j, n>> \in DOMAIN files' /\ files'[<<j, n>>] = a
      BY <1>2 DEF KeptIn
    <3>1. PICK n \in DOMAIN cache[p][j] :
            cache[p][j][n] = a /\ <<j, n>> \in DOMAIN files' /\ files'[<<j, n>>] = a
      BY <1>2, <1>5 DEF KeptIn
    <3>2. n \in DOMAIN index[j] /\ index[j][n] = cache[p][j][n]
      BY <1>1, <2>2, ExtendedFirst DEF IInv
    <3> QED
      BY <3>1, <3>2
  <2> QED
    BY <1>1, <2>1, <2>2 DEF IInv, Replaced
<1> QED
  BY <1>1, <1>2, <1>3, <1>6, LeaveIInv

LEMMA ReturnIInv ==
  ASSUME IInv, NEW p \in Proc, Return(p)
  PROVE  IInv'
<1> DEFINE k == saving[p][1]
           r == saving[p][2]
<1>1. Saves(p) /\ pc' = [pc EXCEPT ![p] = "idle"] /\ pc[p] = "indexed"
  BY DEF Return, Release, Saves
<1>2. UNCHANGED <<index, files, saving>> /\ acked' = [acked EXCEPT ![k] = acked[k] \cup {r}]
  BY DEF Return
<1>3. k \in Key /\ r \in Receipts /\ cache[p] \in [Key -> Seq(Receipts)]
  BY <1>1 DEF IInv, Locked, Types
<1>4. cache' = [cache EXCEPT ![p] = Extended(p)]
  BY <1>3 DEF Return, Extended, IInv, Types
<1>5. Extended(p) \in [Key -> Seq(Receipts)]
  BY <1>1, ExtendedKeeps DEF IInv, Kept
<1>6. Types'
  BY <1>1, <1>2, <1>3, <1>4, <1>5 DEF IInv, Types
<1>7. KeptIn(index)'
  <2> SUFFICES ASSUME NEW j \in Key, NEW a \in acked'[j]
               PROVE  \E n \in DOMAIN index[j] :
                        /\ index[j][n] = a
                        /\ <<j, n>> \in DOMAIN files /\ files[<<j, n>>] = a
    BY <1>2 DEF KeptIn
  <2>1. CASE a \in acked[j]
    BY <2>1 DEF IInv, Kept, KeptIn
  <2>2. CASE a \notin acked[j]
    <3>1. j = k /\ a = r
      BY <1>2, <1>3, <2>2 DEF IInv, Types
    <3>2. index[k] = Append(cache[p][k], r)
      BY <1>1, <1>3 DEF IInv, Replaced, Extended
    <3>3. Len(cache[p][k]) + 1 \in DOMAIN index[k] /\ index[k][Len(cache[p][k]) + 1] = r
      BY <1>3, <3>2, AppendKeeps
    <3>4. Path(p) = <<k, Len(cache[p][k]) + 1>>
      BY DEF Path
    <3>5. Path(p) \in DOMAIN files /\ files[Path(p)] = r
      BY <1>1 DEF IInv, InPlace
    <3> QED
      BY <3>1, <3>3, <3>4, <3>5
  <2> QED
    BY <2>1, <2>2
<1> QED
  BY <1>1, <1>2, <1>6, <1>7, LeaveIInv

LEMMA CrashIInv ==
  ASSUME IInv, NEW p \in Proc, Crash(p)
  PROVE  IInv'
<1>1. pc' = [pc EXCEPT ![p] = "down"] /\ UNCHANGED <<index, files, cache, saving, acked>>
  BY DEF Crash
<1>2. Types' /\ KeptIn(index)'
  BY <1>1 DEF IInv, Types, Kept, KeptIn
<1>3. CASE Saves(p)
  BY <1>1, <1>2, <1>3, LeaveIInv
<1>4. CASE ~Saves(p)
  <2>1. \A q \in Proc : Saves(q)' => Saves(q) /\ pc'[q] = pc[q] /\ q # p
    BY <1>1, <1>4 DEF Saves, IInv, Types
  <2>2. \A q \in Proc : Path(q)' = Path(q) /\ Extended(q)' = Extended(q)
    BY <1>1 DEF Path, Extended
  <2>3. Locked'
    <3>1. \A q \in Proc : Saves(q) /\ q # p => lock' = q
      BY DEF Crash, IInv, Locked
    <3> QED
      BY <1>1, <2>1, <3>1 DEF IInv, Locked
  <2>4. Fresh'
    BY <1>1, <2>1 DEF IInv, Fresh, Saves
  <2>5. InPlace'
    BY <1>1, <2>1, <2>2 DEF IInv, InPlace, Saves
  <2>6. Replaced'
    BY <1>1, <2>1, <2>2 DEF IInv, Replaced, Saves
  <2>7. Kept'
    BY <1>1, <1>2, <2>1 DEF IInv, Kept, KeptIn
  <2> QED
    BY <1>2, <2>3, <2>4, <2>5, <2>6, <2>7 DEF IInv
<1> QED
  BY <1>3, <1>4

LEMMA NextIInv == IInv /\ [Next]_vars => IInv'
<1> SUFFICES ASSUME IInv, [Next]_vars PROVE IInv'
  OBVIOUS
<1>1. CASE UNCHANGED vars
  <2>1. \A q \in Proc : Path(q)' = Path(q) /\ Extended(q)' = Extended(q)
    BY <1>1 DEF vars, Path, Extended
  <2>2. Types' /\ Locked' /\ Fresh'
    BY <1>1 DEF vars, IInv, Types, Locked, Fresh, Saves
  <2>3. InPlace' /\ Replaced'
    BY <1>1, <2>1 DEF vars, IInv, InPlace, Replaced
  <2>4. Kept'
    BY <1>1 DEF vars, IInv, Kept, KeptIn, Saves
  <2> QED
    BY <2>2, <2>3, <2>4 DEF IInv
<1>2. CASE Next
  <2>1. PICK p \in Proc :
          \/ Read(p) \/ Start(p) \/ Crash(p)
          \/ \E k \in Key : \E r \in Offered[k] : Enter(p, k, r)
          \/ WriteTemp(p) \/ WriteFails(p) \/ Rename(p) \/ SyncFails(p)
          \/ PersistIndex(p) \/ PersistFails(p) \/ UnlinkNewRecord(p) \/ Return(p)
    BY <1>2 DEF Next
  <2> QED
    BY <2>1, ReadIInv, CrashIInv, EnterIInv, WriteTempIInv, FailsIInv, RenameIInv,
       PersistIndexIInv, PersistFailsIInv, UnlinkIInv, ReturnIInv
<1> QED
  BY <1>1, <1>2

LEMMA SpecIInv == Spec => []IInv
BY InitIInv, NextIInv, PTL DEF Spec

\* A receipt a caller was given stays named by the index with its file in place, whatever
\* other processes save, wherever one dies and whichever write the disk refuses.
THEOREM ReturnedReceiptsStay == Spec => []AcksKept
<1>1. IInv => AcksKept
  BY DEF IInv, Kept, KeptIn, AcksKept
<1> QED
  BY <1>1, SpecIInv, PTL

\* Damage a dead process or a failed write left is never written over.
THEOREM DamageStays == Spec => DamageFrozen
<1>1. IInv /\ [Next]_vars
        => [(lock = Nobody /\ ~Loads) => UNCHANGED <<index, files, temps, lock>>]_vars
  <2> SUFFICES ASSUME IInv, Next, lock = Nobody, ~Loads
               PROVE  UNCHANGED <<index, files, temps, lock>>
    OBVIOUS
  <2>1. \A p \in Proc : ~Saves(p)
    BY FreeMeansNoSave DEF IInv
  <2>2. PICK p \in Proc :
          \/ Read(p) \/ Start(p) \/ Crash(p)
          \/ \E k \in Key : \E r \in Offered[k] : Enter(p, k, r)
          \/ WriteTemp(p) \/ WriteFails(p) \/ Rename(p) \/ SyncFails(p)
          \/ PersistIndex(p) \/ PersistFails(p) \/ UnlinkNewRecord(p) \/ Return(p)
    BY DEF Next
  <2>3. CASE Crash(p)
    BY <2>3 DEF Crash
  <2> QED
    BY <2>1, <2>2, <2>3 DEF Saves, Read, Start, Reload, Enter, WriteTemp, WriteFails, Rename,
       SyncFails, PersistIndex, PersistFails, UnlinkNewRecord, Return
<1> QED
  BY <1>1, SpecIInv, PTL DEF Spec, DamageFrozen

-----------------------------------------------------------------------------
LEMMA InitLogInit == Init => Log!LogInit
BY DEF Init, Log!LogInit, Key

\* Only the replacement of index.json changes the histories, and it appends one receipt
\* the rules accept.
LEMMA NextLogNext == IInv /\ [Next]_vars => [Log!LogNext]_index
<1> SUFFICES ASSUME IInv, Next, index' # index PROVE Log!LogNext
  BY DEF vars
<1>1. PICK p \in Proc : PersistIndex(p)
  BY DEF Next, Read, Start, Crash, Enter, WriteTemp, WriteFails, Rename, SyncFails,
     PersistFails, UnlinkNewRecord, Return
<1> DEFINE k == saving[p][1]
           r == saving[p][2]
<1>2. k \in Key /\ r \in Receipts /\ index \in [Key -> Seq(Receipts)]
  BY <1>1 DEF IInv, Locked, Types, PersistIndex, Saves
<1>3. cache[p] = index /\ Log!Accepts(k, index[k], r)
  BY <1>1 DEF IInv, Fresh, PersistIndex
<1>4. index' = [index EXCEPT ![k] = Append(index[k], r)]
  BY <1>1, <1>3 DEF PersistIndex
<1>5. index'[k] = Append(index[k], r)
  BY <1>2, <1>4
<1>6. index'[k] # <<>> /\ index'[k][Len(index'[k])] = r
  BY <1>2, <1>5, AppendKeeps
<1>7. Log!Grows(k)
  BY <1>3, <1>4, <1>6 DEF Log!Grows, Log!Newest
<1> QED
  BY <1>2, <1>7 DEF Log!LogNext, Key

\* DurableSpatialLedger implements ReceiptLog: every save takes effect in one step, in one
\* order for all processes, and that of a process that dies wholly or not at all.
THEOREM LedgerIsReceiptLog == Spec => ImplementsReceiptLog
BY InitLogInit, NextLogNext, SpecIInv, PTL DEF Spec, ImplementsReceiptLog, Log!LogSpec

-----------------------------------------------------------------------------
(* What the rules of ReceiptLog keep, for every key, request and number of attempts. *)

\* The strengthening of AttemptsNotReleased: histories are sequences of well-formed
\* receipts whose attempt numbers never go down.
AttemptsOrdered ==
  /\ DOMAIN index = Key
  /\ \A b \in Build :
       /\ index[b] = [n \in 1..Len(index[b]) |-> index[b][n]] /\ Len(index[b]) \in Nat
       /\ \A n \in 1..Len(index[b]) : Log!WellFormed(index[b][n])
       /\ \A m, n \in 1..Len(index[b]) : m < n => index[b][m].attempt <= index[b][n].attempt

\* A release carries no attempt.
LEMMA ReleaseHasNoAttempt ==
  ASSUME NEW r, Log!WellFormed(r), r.state = "released"
  PROVE  r.attempt = 0
BY DEF Log!WellFormed, Log!Attempted, Log!Consumed

LEMMA OrderedInit == Log!LogInit => AttemptsOrdered
BY DEF Log!LogInit, AttemptsOrdered, Key, Log!Key

\* One accepted receipt keeps the order: it has at least the attempt of the newest.
LEMMA OrderedNext ==
  ASSUME Log!AttemptBound, Log!FamiliesApart
  PROVE  AttemptsOrdered /\ [Log!LogNext]_index => AttemptsOrdered'
<1> SUFFICES ASSUME AttemptsOrdered, [Log!LogNext]_index PROVE AttemptsOrdered'
  OBVIOUS
<1>1. CASE UNCHANGED index
  BY <1>1 DEF AttemptsOrdered, Log!WellFormed, Log!BuildStates, Log!QuotaOf
<1>2. CASE Log!LogNext
  <2>1. PICK k \in Key : Log!Grows(k)
    BY <1>2 DEF Log!LogNext, Key
  <2> DEFINE r == Log!Newest(index'[k])
  <2>2. Log!Accepts(k, index[k], r) /\ index' = [index EXCEPT ![k] = Append(index[k], r)]
    BY <2>1 DEF Log!Grows
  <2>3. DOMAIN index' = Key
    BY <2>2 DEF AttemptsOrdered
  <2> SUFFICES ASSUME NEW b \in Build
      PROVE /\ index'[b] = [n \in 1..Len(index'[b]) |-> index'[b][n]] /\ Len(index'[b]) \in Nat
            /\ \A n \in 1..Len(index'[b]) : Log!WellFormed(index'[b][n])
            /\ \A m, n \in 1..Len(index'[b]) :
                 m < n => index'[b][m].attempt <= index'[b][n].attempt
    BY <2>3 DEF AttemptsOrdered
  <2>4. CASE b # k
    BY <2>2, <2>4 DEF AttemptsOrdered, Key, Log!Key
  <2>5. CASE b = k
    <3> DEFINE h == index[b]
               h2 == Append(h, r)
    <3>1. b \in DOMAIN index /\ index'[b] = h2
      BY <2>2, <2>5 DEF AttemptsOrdered, Key, Log!Key
    <3>2. Log!BuildAccepts(h, r)
      BY <2>2, <2>5 DEF Log!Accepts, Log!FamiliesApart
    <3>3. Log!WellFormed(r)
      BY <3>2 DEF Log!BuildAccepts
    <3>4. /\ Len(h) \in Nat /\ h = [n \in 1..Len(h) |-> h[n]]
          /\ \A n \in 1..Len(h) : Log!WellFormed(h[n])
          /\ \A m, n \in 1..Len(h) : m < n => h[m].attempt <= h[n].attempt
      BY DEF AttemptsOrdered
    <3>5. h \in Seq({h[n] : n \in 1..Len(h)} \cup {r})
      BY <3>4
    <3>6. /\ Len(h2) = Len(h) + 1
          /\ h2 = [n \in 1..Len(h2) |-> h2[n]]
          /\ \A n \in 1..Len(h) : h2[n] = h[n]
          /\ h2[Len(h) + 1] = r
      BY <3>5
    <3>7. \A n \in 1..Len(h2) : Log!WellFormed(h2[n])
      BY <3>3, <3>4, <3>6
    <3>8. \A n \in 1..Len(h) : h[n].attempt <= r.attempt
      <4> SUFFICES ASSUME NEW n \in 1..Len(h) PROVE h[n].attempt <= r.attempt
        OBVIOUS
      <4>1. h # <<>>
        BY <3>4
      <4>2. r.attempt >= h[Len(h)].attempt
        BY <3>2, <4>1 DEF Log!BuildAccepts, Log!Follows, Log!Newest
      <4>3. h[n].attempt <= h[Len(h)].attempt
        <5>1. h[n].attempt \in Int /\ h[Len(h)].attempt \in Int
          BY <3>4, Log!AttemptBound DEF Log!WellFormed, Log!AttemptBound
        <5> QED
          BY <5>1, <3>4
      <4>4. r.attempt \in Int /\ h[n].attempt \in Int /\ h[Len(h)].attempt \in Int
        BY <3>3, <3>4, Log!AttemptBound DEF Log!WellFormed, Log!AttemptBound
      <4> QED
        BY <4>2, <4>3, <4>4
    <3>9. \A m, n \in 1..Len(h2) : m < n => h2[m].attempt <= h2[n].attempt
      <4> SUFFICES ASSUME NEW m \in 1..Len(h2), NEW n \in 1..Len(h2), m < n
                   PROVE  h2[m].attempt <= h2[n].attempt
        OBVIOUS
      <4>1. m \in 1..Len(h)
        BY <3>6, <3>4
      <4>2. CASE n \in 1..Len(h)
        BY <4>1, <4>2, <3>4, <3>6
      <4>3. CASE n = Len(h) + 1
        BY <4>1, <4>3, <3>6, <3>8
      <4> QED
        BY <4>2, <4>3, <3>6, <3>4
    <3> QED
      BY <3>1, <3>4, <3>6, <3>7, <3>9
  <2> QED
    BY <2>4, <2>5
<1> QED
  BY <1>1, <1>2

LEMMA OrderedImplies ==
  ASSUME Log!AttemptBound
  PROVE  AttemptsOrdered => Log!AttemptsNotReleased
<1> SUFFICES ASSUME AttemptsOrdered, NEW b \in Build,
                    NEW m \in DOMAIN index[b], NEW n \in DOMAIN index[b],
                    m < n, index[b][m].attempt > 0, index[b][n].state = "released"
             PROVE  FALSE
  BY DEF Log!AttemptsNotReleased
<1>1. m \in 1..Len(index[b]) /\ n \in 1..Len(index[b])
  BY DEF AttemptsOrdered
<1>2. Log!WellFormed(index[b][m]) /\ Log!WellFormed(index[b][n])
  BY <1>1 DEF AttemptsOrdered
<1>3. index[b][n].attempt = 0
  BY <1>2, ReleaseHasNoAttempt
<1>4. index[b][m].attempt <= index[b][n].attempt
  BY <1>1 DEF AttemptsOrdered
<1>5. index[b][m].attempt \in Int
  BY <1>2, Log!AttemptBound DEF Log!WellFormed, Log!AttemptBound
<1> QED
  BY <1>3, <1>4, <1>5

\* Whatever callers bring and however builds go on, a history the ledger's rules accept
\* never has a release after a committed attempt: _save_build_transition.
THEOREM AttemptsFinal ==
  ASSUME Log!AttemptBound, Log!FamiliesApart
  PROVE  Log!LogSpec => []Log!AttemptsNotReleased
<1>1. Log!LogSpec => []AttemptsOrdered
  BY OrderedInit, OrderedNext, PTL DEF Log!LogSpec
<1> QED
  BY <1>1, OrderedImplies, PTL

\* Quota for which an attempt was committed is never given back in a directory either:
\* what it records are histories of ReceiptLog.
THEOREM QuotaStays ==
  ASSUME Log!AttemptBound, Log!FamiliesApart
  PROVE  Spec => []AttemptsNotReleased
BY LedgerIsReceiptLog, AttemptsFinal DEF ImplementsReceiptLog, AttemptsNotReleased
-----------------------------------------------------------------------------
(* Builds over those histories (SpatialBuild), for any number of workers, builds and *)
(* deaths.                                                                           *)

CONSTANTS Worker, Request, ScopeOf, Material, NoBuild, MaxCrashes

VARIABLES log, workerPc, build, request, latest, answer, calls, took, crashes

Render == INSTANCE SpatialBuild WITH Composition <- {}, pc <- workerPc

\* What a receipt that announces op says, what is called after op, and what took
\* effect before it.
StateOf(op) ==
  CASE op = "reserve"        -> "authorization_verified"
    [] op = "commit_attempt" -> "reservation_held"
    [] op = "execute"        -> "attempt_committed"
    [] op = "consume"        -> "charge_pending"
    [] op = "quality_gate"   -> "consumed"
    [] op = "compensate"     -> "compensation_pending"

After(op) ==
  CASE op = "reserve"        -> {"commit_attempt", "execute", "consume", "quality_gate", "compensate"}
    [] op = "commit_attempt" -> {"execute", "consume", "quality_gate", "compensate"}
    [] op = "execute"        -> {"consume", "quality_gate", "compensate"}
    [] op = "consume"        -> {"quality_gate", "compensate"}
    [] op = "quality_gate"   -> {"compensate"}
    [] op = "compensate"     -> {}

Effected(op) ==
  CASE op = "reserve"        -> {}
    [] op = "commit_attempt" -> {"reserve"}
    [] op = "execute"        -> {"reserve", "commit_attempt"}
    [] op = "consume"        -> {"reserve", "commit_attempt", "execute"}
    [] op \in {"quality_gate", "compensate"} -> {"reserve", "commit_attempt", "execute", "consume"}

BuildReceipt ==
  [req : Request \cup {NoBuild}, state : Render!BuildStates \cup {"none"}, attempt : Nat,
   quota : SUBSET {"reservation", "mutation", "consumption", "compensation"}, output : BOOLEAN,
   pending : Render!Operations \cup {"none"}, failed : Render!Operations \cup {"none"},
   settled : BOOLEAN]

Announces(r) ==
  /\ r.pending \in Render!Operations
  /\ r.state = StateOf(r.pending)
  /\ r.quota = Render!QuotaOf(r.state)
  /\ r.attempt = IF r.pending \in {"reserve", "commit_attempt"} THEN 0 ELSE 1
  /\ (r.output <=> r.pending = "quality_gate")
  /\ r.failed = "none" /\ ~r.settled

MayDecline(op) == op \in {"execute", "quality_gate", "compensate"}

BuildTypes ==
  /\ Render!TypeOK
  /\ DOMAIN log = Render!Key
  /\ \A b \in Build : log[b] \in Seq(BuildReceipt)
  /\ \A s \in Scope : log[s] \in Seq(Material)
  /\ latest \in [Worker -> BuildReceipt]
  /\ \A w \in Worker : workerPc[w] # "idle" => build[w] \in Build /\ request[w] \in Request

Owns(w, b) == workerPc[w] \in {"call", "record"} /\ build[w] = b

\* What holds of a worker at place whose last receipt is r and answer a, given its build's
\* history h, effects t and numbers of calls c: r is the newest receipt, announces the
\* call that comes next or has been made, and all before it has taken effect.
Rightful(place, r, a, h, t, c) ==
  /\ h # <<>> /\ r = Render!Newest(h) /\ Announces(r)
  /\ Effected(r.pending) \subseteq t
  /\ place = "call" => c[r.pending] = 0
  /\ place = "record" =>
       /\ a # "none"
       /\ a = "declined" => MayDecline(r.pending)
       /\ a = "ok" => r.pending \in t

\* Whoever calls or has called wrote the newest receipt, which announces the call.
Owning ==
  \A w \in Worker : workerPc[w] \in {"call", "record"} =>
    Rightful(workerPc[w], latest[w], answer[w], log[build[w]], took[build[w]], calls[build[w]])

OneOwner == \A b \in Build : \A v, w \in Worker : Owns(v, b) /\ Owns(w, b) => v = w

\* What was not announced yet was not called.
NotYet ==
  \A b \in Build :
    /\ log[b] = <<>> => took[b] = {} /\ \A op \in Render!Operations : calls[b][op] = 0
    /\ log[b] # <<>> /\ Render!Newest(log[b]).pending \in Render!Operations =>
         \A op \in After(Render!Newest(log[b]).pending) : calls[b][op] = 0

BuildInv ==
  /\ BuildTypes /\ Owning /\ OneOwner /\ NotYet
  /\ Render!CalledOnce /\ Render!Announced /\ Render!SettledMeansSettled

USE DEF Render!Go, Render!Operations

LEMMA InitBuildInv ==
  ASSUME Render!BuildAssumption
  PROVE  Render!Init => BuildInv
<1> SUFFICES ASSUME Render!Init PROVE BuildInv
  OBVIOUS
<1>1. \A k \in Render!Key : log[k] = <<>>
  BY DEF Render!Init, Render!LogInit
<1>2. DOMAIN log = Render!Key
  BY DEF Render!Init, Render!LogInit
<1>3. Render!NoReceipt \in BuildReceipt
  BY DEF Render!NoReceipt, BuildReceipt
<1>4. \A b \in Build : b \in Render!Key
  BY DEF Render!Key
<1>5. \A s \in Scope : s \in Render!Key
  BY DEF Render!Key
<1>6. BuildTypes
  <2>1. \A b \in Build : \A n \in DOMAIN log[b] : Render!WellFormed(log[b][n])
    BY <1>1, <1>4
  <2>2. \A s \in Scope : Render!Range(log[s]) \subseteq Material
    BY <1>1, <1>5 DEF Render!Range
  <2>3. Render!TypeOK
    BY <2>1, <2>2 DEF Render!TypeOK, Render!Init, Render!Answers
  <2> QED
    <3>0. <<>> \in Seq(BuildReceipt) /\ <<>> \in Seq(Material)
      OBVIOUS
    <3>1. /\ latest \in [Worker -> BuildReceipt]
          /\ \A w \in Worker : workerPc[w] = "idle"
      BY <1>3 DEF Render!Init
    <3> QED
      BY <2>3, <3>0, <3>1, <1>1, <1>2, <1>4, <1>5 DEF BuildTypes
<1>7. Owning /\ OneOwner
  BY DEF Owning, OneOwner, Owns, Render!Init
<1>8. NotYet /\ Render!CalledOnce /\ Render!Announced /\ Render!SettledMeansSettled
  BY <1>1, <1>4 DEF NotYet, Render!CalledOnce, Render!Announced, Render!SettledMeansSettled, Render!Init
<1> QED
  BY <1>6, <1>7, <1>8 DEF BuildInv

-----------------------------------------------------------------------------
\* The receipt that is written is the newest of its build; nothing else moves.
LEMMA WrittenLog ==
  ASSUME Render!BuildAssumption, BuildTypes,
         NEW b \in Build, NEW r \in BuildReceipt, Render!Write(b, r)
  PROVE  /\ DOMAIN log' = Render!Key
         /\ log'[b] \in Seq(BuildReceipt) /\ log'[b] # <<>> /\ Render!Newest(log'[b]) = r
         /\ \A k \in Render!Key \ {b} : log'[k] = log[k]
         /\ DOMAIN log'[b] = DOMAIN log[b] \cup {Len(log[b]) + 1}
         /\ \A n \in DOMAIN log[b] : log'[b][n] = log[b][n]
         /\ log'[b][Len(log[b]) + 1] = r
<1> DEFINE h == log[b]
<1>1. h \in Seq(BuildReceipt) /\ b \in Render!Key /\ DOMAIN log = Render!Key
  BY DEF BuildTypes, Render!Key
<1>2. /\ log'[b] = Append(h, r) /\ DOMAIN log' = Render!Key
      /\ \A k \in Render!Key \ {b} : log'[k] = log[k]
  BY <1>1 DEF Render!Write
<1> HIDE DEF h
<1>3. /\ Append(h, r) \in Seq(BuildReceipt) /\ Append(h, r) # <<>>
      /\ Append(h, r)[Len(Append(h, r))] = r
      /\ DOMAIN Append(h, r) = DOMAIN h \cup {Len(h) + 1}
      /\ \A n \in DOMAIN h : Append(h, r)[n] = h[n]
      /\ Append(h, r)[Len(h) + 1] = r
  BY <1>1
<1> QED
  BY <1>2, <1>3 DEF h, Render!Newest

\* A second first receipt is refused.
LEMMA FirstOnly ==
  ASSUME Render!BuildAssumption, BuildTypes, NEW b \in Build, NEW q,
         Render!Accepts(b, log[b], Render!VerifiedReceipt(q))
  PROVE  log[b] = <<>>
<1> DEFINE r == Render!VerifiedReceipt(q)
           prior == Render!Newest(log[b])
<1> SUFFICES ASSUME log[b] # <<>> PROVE FALSE
  OBVIOUS
<1>1. Render!BuildAccepts(log[b], r)
  BY DEF Render!Accepts, Render!BuildAssumption, Render!FamiliesApart
<1>2. /\ r.state = prior.state => Render!MayRepeat(prior, r)
      /\ r.state \in Render!AllowedTransitions[prior.state]
  BY <1>1 DEF Render!BuildAccepts, Render!Follows
<1>3. Render!WellFormed(prior)
  <2>1. log[b] \in Seq(BuildReceipt)
    BY DEF BuildTypes
  <2>2. Len(log[b]) \in DOMAIN log[b]
    BY <2>1
  <2> QED
    BY <2>2 DEF BuildTypes, Render!TypeOK, Render!Newest
<1>4. prior.state \in Render!BuildStates
  BY <1>3 DEF Render!WellFormed
<1>5. r.state = "authorization_verified" /\ r.failed = "none"
  BY DEF Render!VerifiedReceipt, Render!NoReceipt
<1>6. prior.state = "authorization_verified"
  BY <1>2, <1>4, <1>5 DEF Render!AllowedTransitions, Render!BuildStates, Render!Blocked,
     Render!Attempted, Render!Consumed, Render!Compensated
<1> QED
  BY <1>2, <1>5, <1>6 DEF Render!MayRepeat

LEMMA NewestFormed ==
  ASSUME BuildTypes, NEW b \in Build, log[b] # <<>>
  PROVE  Render!Newest(log[b]) \in BuildReceipt /\ Render!WellFormed(Render!Newest(log[b]))
<1>1. log[b] \in Seq(BuildReceipt)
  BY DEF BuildTypes
<1>2. Len(log[b]) \in DOMAIN log[b] /\ Render!Newest(log[b]) \in BuildReceipt
  BY <1>1 DEF Render!Newest
<1> QED
  BY <1>2 DEF BuildTypes, Render!TypeOK, Render!Newest

\* Receipt x answers q, is in state with its quota, announces op, reports failed, and so on.
Has(x, q, state, op, failed, attempt, output, settled) ==
  /\ x \in BuildReceipt
  /\ x.req = q /\ x.state = state /\ x.quota = Render!QuotaOf(state) /\ x.pending = op
  /\ x.failed = failed /\ x.attempt = attempt /\ (x.output <=> output) /\ (x.settled <=> settled)

LEMMA AnnouncedHas ==
  ASSUME NEW q, NEW s, NEW p, NEW f, NEW n, NEW o, NEW c, NEW r, Has(r, q, s, p, f, n, o, c),
         NEW state \in Render!BuildStates, NEW op \in Render!Operations \cup {"none"}
  PROVE  Has(Render!Announce(r, state, op), q, state, op, f, n, o, c)
<1> DEFINE quota == Render!QuotaOf(state)
<1>1. quota \in SUBSET {"reservation", "mutation", "consumption", "compensation"}
  BY DEF Render!QuotaOf, Render!BuildStates, Render!Blocked, Render!Attempted, Render!Consumed,
     Render!Compensated
<1>2. Render!Announce(r, state, op) = [r EXCEPT !.state = state, !.quota = quota, !.pending = op]
  BY DEF Render!Announce
<1> HIDE DEF quota
<1>3. [r EXCEPT !.state = state, !.quota = quota, !.pending = op] \in BuildReceipt
  BY <1>1 DEF Has, BuildReceipt
<1> QED
  BY <1>1, <1>2, <1>3 DEF quota, Has, BuildReceipt

LEMMA UnknownHas ==
  ASSUME NEW q, NEW s, NEW p, NEW f, NEW n, NEW o, NEW c, NEW r, Has(r, q, s, p, f, n, o, c),
         NEW state \in Render!BuildStates, Render!QuotaOf(state) = Render!QuotaOf(s)
  PROVE  Has(Render!Unknown(r, state), q, state, "none", p, n, o, c)
BY DEF Has, BuildReceipt, Render!Unknown

LEMMA CancelledHas ==
  ASSUME NEW q, NEW s, NEW p, NEW f, NEW n, NEW o, NEW c, NEW r, Has(r, q, s, p, f, n, o, c),
         Render!QuotaOf("cancelled_reconciliation_pending") = Render!QuotaOf(s)
  PROVE  Has(Render!Cancelled(r), q, "cancelled_reconciliation_pending", "none", f, n, o, c)
BY DEF Has, BuildReceipt, Render!Cancelled, Render!BuildStates, Render!Attempted

LEMMA AttemptedHas ==
  ASSUME NEW q, NEW s, NEW p, NEW f, NEW n, NEW o, NEW c, NEW r, Has(r, q, s, p, f, n, o, c)
  PROVE  Has([r EXCEPT !.attempt = 1], q, s, p, f, 1, o, c)
BY DEF Has, BuildReceipt

LEMMA OutputHas ==
  ASSUME NEW q, NEW s, NEW p, NEW f, NEW n, NEW o, NEW c, NEW r, Has(r, q, s, p, f, n, o, c)
  PROVE  Has([r EXCEPT !.output = TRUE], q, s, p, f, n, TRUE, c)
BY DEF Has, BuildReceipt

LEMMA NoOutputHas ==
  ASSUME NEW q, NEW s, NEW p, NEW f, NEW n, NEW o, NEW c, NEW r, Has(r, q, s, p, f, n, o, c)
  PROVE  Has([r EXCEPT !.output = FALSE], q, s, p, f, n, FALSE, c)
BY DEF Has, BuildReceipt

LEMMA SettledHas ==
  ASSUME NEW q, NEW s, NEW p, NEW f, NEW n, NEW o, NEW c, NEW r, Has(r, q, s, p, f, n, o, c)
  PROVE  Has([r EXCEPT !.settled = TRUE], q, s, p, f, n, o, TRUE)
BY DEF Has, BuildReceipt

\* The receipt x that records answer a to operation op of request q.
Records(x, q, op, a) ==
  CASE op = "reserve" ->
         IF a = "ok"
         THEN Has(x, q, "reservation_held", "commit_attempt", "none", 0, FALSE, FALSE)
         ELSE Has(x, q, "authorization_verified", "none", op, 0, FALSE, FALSE)
    [] op = "commit_attempt" ->
         IF a = "ok" THEN Has(x, q, "attempt_committed", "execute", "none", 1, FALSE, FALSE)
         ELSE Has(x, q, "reservation_held", "none", op, 0, FALSE, FALSE)
    [] op = "execute" ->
         IF a = "ok" THEN Has(x, q, "charge_pending", "consume", "none", 1, FALSE, FALSE)
         ELSE Has(x, q, "cancelled_reconciliation_pending", "none",
                  IF a = "declined" THEN "none" ELSE op, 1, FALSE, FALSE)
    [] op = "consume" ->
         IF a = "ok" THEN Has(x, q, "consumed", "quality_gate", "none", 1, TRUE, FALSE)
         ELSE Has(x, q, "cancelled_reconciliation_pending", "none", op, 1, FALSE, FALSE)
    [] op = "quality_gate" ->
         IF a = "ok" THEN Has(x, q, "closed_consumed", "none", "none", 1, TRUE, TRUE)
         ELSE Has(x, q, "compensation_pending", "compensate", "none", 1, FALSE, FALSE)
    [] op = "compensate" ->
         IF a = "ok" THEN Has(x, q, "compensated", "none", "none", 1, FALSE, TRUE)
         ELSE Has(x, q, "compensation_failed_blocked", "none", "none", 1, FALSE, FALSE)

LEMMA States ==
  /\ "authorization_verified" \in Render!BuildStates /\ "reservation_held" \in Render!BuildStates
  /\ "attempt_committed" \in Render!BuildStates /\ "charge_pending" \in Render!BuildStates
  /\ "cancelled_reconciliation_pending" \in Render!BuildStates
  /\ "consumed" \in Render!BuildStates /\ "closed_consumed" \in Render!BuildStates
  /\ "compensation_pending" \in Render!BuildStates /\ "compensated" \in Render!BuildStates
  /\ "compensation_failed_blocked" \in Render!BuildStates /\ "blocked" \in Render!BuildStates
BY DEF Render!BuildStates, Render!Attempted, Render!Consumed, Render!Compensated, Render!Blocked

LEMMA Quotas ==
  /\ Render!QuotaOf("cancelled_reconciliation_pending") = Render!QuotaOf("attempt_committed")
  /\ Render!QuotaOf("cancelled_reconciliation_pending") = Render!QuotaOf("charge_pending")
BY DEF Render!QuotaOf, Render!Attempted, Render!Consumed, Render!Compensated

LEMMA RecordedRecords ==
  ASSUME NEW r \in BuildReceipt, Announces(r), NEW a \in {"ok", "declined", "error"},
         a = "declined" => MayDecline(r.pending)
  PROVE  Records(Render!Recorded(r, a), r.req, r.pending, a)
<1> DEFINE x == Render!Recorded(r, a)
           q == r.req
<1>0. r.pending \in Render!Operations
  BY DEF Announces
<1>1. CASE r.pending = "reserve"
  <2>0. Has(r, q, "authorization_verified", "reserve", "none", 0, FALSE, FALSE)
    BY <1>1 DEF Announces, StateOf, Has
  <2>1. CASE a = "ok"
    <3>1. x = Render!Announce(r, "reservation_held", "commit_attempt")
      BY <1>1, <2>1 DEF Render!Recorded
    <3>2. Has(Render!Announce(r, "reservation_held", "commit_attempt"), q, "reservation_held",
              "commit_attempt", "none", 0, FALSE, FALSE)
      BY <2>0, States, AnnouncedHas
    <3> QED
      BY <1>1, <2>1, <3>1, <3>2 DEF Records
  <2>2. CASE a # "ok"
    <3>1. x = Render!Unknown(r, "authorization_verified")
      BY <1>1, <2>2 DEF Render!Recorded
    <3>2. Has(Render!Unknown(r, "authorization_verified"), q, "authorization_verified", "none",
              "reserve", 0, FALSE, FALSE)
      BY <2>0, States, UnknownHas
    <3> QED
      BY <1>1, <2>2, <3>1, <3>2 DEF Records
  <2> QED
    BY <2>1, <2>2
<1>2. CASE r.pending = "commit_attempt"
  <2>0. Has(r, q, "reservation_held", "commit_attempt", "none", 0, FALSE, FALSE)
    BY <1>2 DEF Announces, StateOf, Has
  <2>1. CASE a = "ok"
    <3> DEFINE y == Render!Announce(r, "attempt_committed", "execute")
    <3>1. x = [y EXCEPT !.attempt = 1]
      BY <1>2, <2>1 DEF Render!Recorded
    <3>2. Has(y, q, "attempt_committed", "execute", "none", 0, FALSE, FALSE)
      BY <2>0, States, AnnouncedHas
    <3> HIDE DEF y
    <3>3. Has([y EXCEPT !.attempt = 1], q, "attempt_committed", "execute", "none", 1, FALSE, FALSE)
      BY <3>2, AttemptedHas
    <3> QED
      BY <1>2, <2>1, <3>1, <3>3 DEF Records
  <2>2. CASE a # "ok"
    <3>1. x = Render!Unknown(r, "reservation_held")
      BY <1>2, <2>2 DEF Render!Recorded
    <3>2. Has(Render!Unknown(r, "reservation_held"), q, "reservation_held", "none",
              "commit_attempt", 0, FALSE, FALSE)
      BY <2>0, States, UnknownHas
    <3> QED
      BY <1>2, <2>2, <3>1, <3>2 DEF Records
  <2> QED
    BY <2>1, <2>2
<1>3. CASE r.pending = "execute"
  <2>0. Has(r, q, "attempt_committed", "execute", "none", 1, FALSE, FALSE)
    BY <1>3 DEF Announces, StateOf, Has
  <2>1. CASE a = "ok"
    <3>1. x = Render!Announce(r, "charge_pending", "consume")
      BY <1>3, <2>1 DEF Render!Recorded
    <3>2. Has(Render!Announce(r, "charge_pending", "consume"), q, "charge_pending", "consume",
              "none", 1, FALSE, FALSE)
      BY <2>0, States, AnnouncedHas
    <3> QED
      BY <1>3, <2>1, <3>1, <3>2 DEF Records
  <2>2. CASE a = "declined"
    <3>1. x = Render!Cancelled(r)
      BY <1>3, <2>2 DEF Render!Recorded
    <3>2. Has(Render!Cancelled(r), q, "cancelled_reconciliation_pending", "none", "none", 1,
              FALSE, FALSE)
      BY <2>0, Quotas, CancelledHas
    <3> QED
      BY <1>3, <2>2, <3>1, <3>2 DEF Records
  <2>3. CASE a = "error"
    <3>1. x = Render!Unknown(r, "cancelled_reconciliation_pending")
      BY <1>3, <2>3 DEF Render!Recorded
    <3>2. Has(Render!Unknown(r, "cancelled_reconciliation_pending"), q,
              "cancelled_reconciliation_pending", "none", "execute", 1, FALSE, FALSE)
      BY <2>0, States, Quotas, UnknownHas
    <3> QED
      BY <1>3, <2>3, <3>1, <3>2 DEF Records
  <2> QED
    BY <2>1, <2>2, <2>3
<1>4. CASE r.pending = "consume"
  <2>0. Has(r, q, "charge_pending", "consume", "none", 1, FALSE, FALSE)
    BY <1>4 DEF Announces, StateOf, Has
  <2>1. CASE a = "ok"
    <3> DEFINE y == Render!Announce(r, "consumed", "quality_gate")
    <3>1. x = [y EXCEPT !.output = TRUE]
      BY <1>4, <2>1 DEF Render!Recorded
    <3>2. Has(y, q, "consumed", "quality_gate", "none", 1, FALSE, FALSE)
      BY <2>0, States, AnnouncedHas
    <3> HIDE DEF y
    <3>3. Has([y EXCEPT !.output = TRUE], q, "consumed", "quality_gate", "none", 1, TRUE, FALSE)
      BY <3>2, OutputHas
    <3> QED
      BY <1>4, <2>1, <3>1, <3>3 DEF Records
  <2>2. CASE a # "ok"
    <3>1. x = Render!Unknown(r, "cancelled_reconciliation_pending")
      BY <1>4, <2>2 DEF Render!Recorded
    <3>2. Has(Render!Unknown(r, "cancelled_reconciliation_pending"), q,
              "cancelled_reconciliation_pending", "none", "consume", 1, FALSE, FALSE)
      BY <2>0, States, Quotas, UnknownHas
    <3> QED
      BY <1>4, <2>2, <3>1, <3>2 DEF Records
  <2> QED
    BY <2>1, <2>2
<1>5. CASE r.pending = "quality_gate"
  <2>0. Has(r, q, "consumed", "quality_gate", "none", 1, TRUE, FALSE)
    BY <1>5 DEF Announces, StateOf, Has
  <2>1. CASE a = "ok"
    <3> DEFINE y == Render!Announce(r, "closed_consumed", "none")
    <3>1. x = [y EXCEPT !.settled = TRUE]
      BY <1>5, <2>1 DEF Render!Recorded
    <3>2. Has(y, q, "closed_consumed", "none", "none", 1, TRUE, FALSE)
      BY <2>0, States, AnnouncedHas
    <3> HIDE DEF y
    <3>3. Has([y EXCEPT !.settled = TRUE], q, "closed_consumed", "none", "none", 1, TRUE, TRUE)
      BY <3>2, SettledHas
    <3> QED
      BY <1>5, <2>1, <3>1, <3>3 DEF Records
  <2>2. CASE a # "ok"
    <3> DEFINE y == Render!Announce(r, "compensation_pending", "compensate")
    <3>1. x = [y EXCEPT !.output = FALSE]
      BY <1>5, <2>2 DEF Render!Recorded
    <3>2. Has(y, q, "compensation_pending", "compensate", "none", 1, TRUE, FALSE)
      BY <2>0, States, AnnouncedHas
    <3> HIDE DEF y
    <3>3. Has([y EXCEPT !.output = FALSE], q, "compensation_pending", "compensate", "none", 1,
              FALSE, FALSE)
      BY <3>2, NoOutputHas
    <3> QED
      BY <1>5, <2>2, <3>1, <3>3 DEF Records
  <2> QED
    BY <2>1, <2>2
<1>6. CASE r.pending = "compensate"
  <2>0. Has(r, q, "compensation_pending", "compensate", "none", 1, FALSE, FALSE)
    BY <1>6 DEF Announces, StateOf, Has
  <2>1. CASE a = "ok"
    <3> DEFINE y == Render!Announce(r, "compensated", "none")
    <3>1. x = [y EXCEPT !.settled = TRUE]
      BY <1>6, <2>1 DEF Render!Recorded
    <3>2. Has(y, q, "compensated", "none", "none", 1, FALSE, FALSE)
      BY <2>0, States, AnnouncedHas
    <3> HIDE DEF y
    <3>3. Has([y EXCEPT !.settled = TRUE], q, "compensated", "none", "none", 1, FALSE, TRUE)
      BY <3>2, SettledHas
    <3> QED
      BY <1>6, <2>1, <3>1, <3>3 DEF Records
  <2>2. CASE a # "ok"
    <3>1. x = Render!Announce(r, "compensation_failed_blocked", "none")
      BY <1>6, <2>2 DEF Render!Recorded
    <3>2. Has(Render!Announce(r, "compensation_failed_blocked", "none"), q,
              "compensation_failed_blocked", "none", "none", 1, FALSE, FALSE)
      BY <2>0, States, AnnouncedHas
    <3> QED
      BY <1>6, <2>2, <3>1, <3>2 DEF Records
  <2> QED
    BY <2>1, <2>2
<1> QED
  BY <1>0, <1>1, <1>2, <1>3, <1>4, <1>5, <1>6

\* It announces an operation that comes later, with all before it done, or nothing; it
\* settles the build only at its two ends.
Goes(r, a, x) ==
  /\ x \in BuildReceipt
  /\ x.pending # "none" =>
       /\ Announces(x) /\ x.pending \in After(r.pending)
       /\ After(x.pending) \subseteq After(r.pending)
       /\ Effected(x.pending) \subseteq
            Effected(r.pending) \cup (IF a = "ok" THEN {r.pending} ELSE {})
  /\ x.settled => \/ x.state = "closed_consumed" /\ r.pending = "quality_gate"
                  \/ x.state = "compensated" /\ r.pending = "compensate" /\ a = "ok"

LEMMA RecordedReceipt ==
  ASSUME NEW r \in BuildReceipt, Announces(r), NEW a \in {"ok", "declined", "error"},
         a = "declined" => MayDecline(r.pending)
  PROVE  Goes(r, a, Render!Recorded(r, a))
<1> SUFFICES ASSUME NEW x, Records(x, r.req, r.pending, a) PROVE Goes(r, a, x)
  BY RecordedRecords
<1>0. r.pending \in Render!Operations
  BY DEF Announces
<1> USE DEF Goes, Records, Has, Announces, StateOf, After, Effected
<1>1. CASE r.pending = "reserve"
  BY <1>1
<1>2. CASE r.pending = "commit_attempt"
  BY <1>2
<1>3. CASE r.pending = "execute"
  BY <1>3
<1>4. CASE r.pending = "consume"
  BY <1>4
<1>5. CASE r.pending = "quality_gate"
  BY <1>5
<1>6. CASE r.pending = "compensate"
  BY <1>6
<1> QED
  BY <1>0, <1>1, <1>2, <1>3, <1>4, <1>5, <1>6

-----------------------------------------------------------------------------
(* Types *)

LogTyped(l) ==
  /\ DOMAIN l = Render!Key
  /\ \A b \in Build : l[b] \in Seq(BuildReceipt)
  /\ \A s \in Scope : l[s] \in Seq(Material)
  /\ \A b \in Build : \A n \in DOMAIN l[b] : Render!WellFormed(l[b][n])

WorkTyped ==
  /\ workerPc \in [Worker -> {"idle", "check", "block", "admit", "call", "record"}]
  /\ build \in [Worker -> Build \cup {NoBuild}]
  /\ request \in [Worker -> Request \cup {NoBuild}]
  /\ answer \in [Worker -> Render!Answers]
  /\ latest \in [Worker -> BuildReceipt]
  /\ \A w \in Worker : workerPc[w] # "idle" => build[w] \in Build /\ request[w] \in Request

EffectTyped ==
  /\ calls \in [Build -> [Render!Operations -> Nat]]
  /\ took \in [Build -> SUBSET Render!Operations]

LEMMA TypesParts == BuildTypes => LogTyped(log) /\ WorkTyped /\ EffectTyped
BY DEF BuildTypes, Render!TypeOK, LogTyped, WorkTyped, EffectTyped

LEMMA PartsTypes ==
  ASSUME LogTyped(log'), WorkTyped', EffectTyped'
  PROVE  BuildTypes'
<1>1. \A b \in Build : \A n \in DOMAIN log'[b] : Render!WellFormed(log[b][n])'
  BY DEF LogTyped, Render!WellFormed, Render!QuotaOf, Render!BuildStates
<1>2. \A s \in Scope : Render!Range(log[s])' \subseteq Material
  BY DEF LogTyped, Render!Range
<1>3. Render!TypeOK'
  BY <1>1, <1>2 DEF Render!TypeOK, WorkTyped, EffectTyped, Render!Answers
<1> QED
  BY <1>3 DEF BuildTypes, LogTyped, WorkTyped, Render!Key

LEMMA WriteTyped ==
  ASSUME Render!BuildAssumption, BuildTypes,
         NEW b \in Build, NEW r \in BuildReceipt, Render!WellFormed(r), Render!Write(b, r)
  PROVE  LogTyped(log')
<1>1. /\ DOMAIN log' = Render!Key /\ log'[b] \in Seq(BuildReceipt)
      /\ \A k \in Render!Key \ {b} : log'[k] = log[k]
      /\ DOMAIN log'[b] = DOMAIN log[b] \cup {Len(log[b]) + 1}
      /\ \A n \in DOMAIN log[b] : log'[b][n] = log[b][n]
      /\ log'[b][Len(log[b]) + 1] = r
  BY WrittenLog
<1>2. Build \cup Scope \subseteq Render!Key /\ b \notin Scope
  BY DEF Render!Key, Render!BuildAssumption, Render!FamiliesApart
<1>3. LogTyped(log)
  BY TypesParts
<1>4. \A n \in DOMAIN log'[b] : Render!WellFormed(log'[b][n])
  BY <1>1, <1>3 DEF LogTyped
<1>5. \A c \in Build \ {b} : log'[c] = log[c]
  BY <1>1, <1>2
<1>6. \A s \in Scope : log'[s] = log[s]
  BY <1>1, <1>2
<1> QED
  BY <1>1, <1>3, <1>4, <1>5, <1>6 DEF LogTyped

\* A tombstone is added to a scope; no build's history moves.
LEMMA PrivacyLog ==
  ASSUME Render!BuildAssumption, BuildTypes,
         NEW s \in Scope, NEW m \in Material, Render!Write(s, m)
  PROVE  LogTyped(log') /\ \A b \in Build : log'[b] = log[b]
<1>1. Build \cup Scope \subseteq Render!Key /\ s \notin Build
  BY DEF Render!Key, Render!BuildAssumption, Render!FamiliesApart
<1>2. LogTyped(log)
  BY TypesParts
<1>3. /\ DOMAIN log' = Render!Key /\ log'[s] = Append(log[s], m)
      /\ \A k \in Render!Key \ {s} : log'[k] = log[k]
  BY <1>1, <1>2 DEF LogTyped, Render!Write
<1>4. log[s] \in Seq(Material)
  BY <1>2 DEF LogTyped
<1>5. log'[s] \in Seq(Material)
  BY <1>3, <1>4
<1>6. \A b \in Build : log'[b] = log[b]
  BY <1>1, <1>3
<1>7. \A t \in Scope : log'[t] \in Seq(Material)
  BY <1>1, <1>2, <1>3, <1>5 DEF LogTyped
<1> QED
  BY <1>2, <1>3, <1>6, <1>7 DEF LogTyped

\* Leaving keeps the types.
LEMMA LeaveTyped ==
  ASSUME BuildTypes, NEW w \in Worker, Render!Leave(w)
  PROVE  WorkTyped'
<1>1. Render!NoReceipt \in BuildReceipt
  BY DEF Render!NoReceipt, BuildReceipt
<1>2. WorkTyped
  BY TypesParts
<1> QED
  BY <1>1, <1>2 DEF WorkTyped, Render!Leave, Render!Answers

\* The first receipts.
LEMMA FirstReceipts ==
  ASSUME Render!BuildAssumption, NEW q \in Request
  PROVE  LET v == Render!VerifiedReceipt(q)  x == Render!BlockedReceipt(q) IN
         /\ v \in BuildReceipt /\ Announces(v) /\ v.pending = "reserve" /\ ~v.settled
         /\ x \in BuildReceipt /\ x.state = "blocked" /\ x.pending = "none"
         /\ Render!WellFormed(x)
<1> DEFINE v == Render!VerifiedReceipt(q)
           x == Render!BlockedReceipt(q)
           n == Render!NoReceipt
           asked == [n EXCEPT !.req = q]
<1>a. "authorization_verified" \in Render!BuildStates /\ "blocked" \in Render!BuildStates
  BY DEF Render!BuildStates, Render!Blocked
<1>1. /\ n \in BuildReceipt /\ n.quota = {} /\ n.attempt = 0 /\ ~n.output
      /\ n.pending = "none" /\ n.failed = "none" /\ ~n.settled
  BY DEF Render!NoReceipt, BuildReceipt
<1>d. /\ v = [asked EXCEPT !.state = "authorization_verified", !.pending = "reserve"]
      /\ x = [asked EXCEPT !.state = "blocked", !.settled = TRUE]
  BY DEF Render!VerifiedReceipt, Render!BlockedReceipt, Render!Blocked
<1> HIDE DEF v, x, n
<1>2. /\ asked \in BuildReceipt /\ asked.quota = {} /\ asked.attempt = 0 /\ ~asked.output
      /\ asked.pending = "none" /\ asked.failed = "none" /\ ~asked.settled
  BY <1>1 DEF BuildReceipt
<1> HIDE DEF asked
<1>3. Render!QuotaOf("authorization_verified") = {} /\ Render!QuotaOf("blocked") = {}
  BY DEF Render!QuotaOf, Render!Blocked, Render!Attempted, Render!Consumed, Render!Compensated
<1>b. /\ v.state = "authorization_verified" /\ v.quota = {} /\ v.attempt = 0 /\ ~v.output
      /\ v.pending = "reserve" /\ v.failed = "none" /\ ~v.settled
  BY <1>d, <1>2 DEF BuildReceipt
<1>c. /\ x.state = "blocked" /\ x.quota = {} /\ x.attempt = 0 /\ ~x.output /\ x.pending = "none"
  BY <1>d, <1>2 DEF BuildReceipt
<1>4. v \in BuildReceipt /\ x \in BuildReceipt
  BY <1>a, <1>d, <1>2 DEF BuildReceipt
<1>5. Announces(v)
  BY <1>b, <1>3 DEF Announces, StateOf
<1>6. Render!WellFormed(x)
  <2>1. 0 \in 0..MaxAttempts
    BY DEF Render!BuildAssumption, Render!AttemptBound
  <2>2. "blocked" \notin Render!Attempted \cup Render!Consumed
    BY DEF Render!Attempted, Render!Consumed
  <2> QED
    BY <1>a, <1>c, <1>3, <2>1, <2>2 DEF Render!WellFormed
<1> QED
  BY <1>b, <1>c, <1>4, <1>5, <1>6 DEF v, x

\* Whoever records has an answer the operation may give, to what it announced.
LEMMA RecorderFacts ==
  ASSUME BuildInv, NEW w \in Worker, workerPc[w] = "record"
  PROVE  /\ build[w] \in Build /\ latest[w] \in BuildReceipt /\ Announces(latest[w])
         /\ answer[w] \in {"ok", "declined", "error"}
         /\ answer[w] = "declined" => MayDecline(latest[w].pending)
         /\ Goes(latest[w], answer[w], Render!Recorded(latest[w], answer[w]))
<1>1. WorkTyped
  BY TypesParts DEF BuildInv
<1>2. build[w] \in Build /\ latest[w] \in BuildReceipt /\ answer[w] \in Render!Answers
  BY <1>1 DEF WorkTyped
<1>3. /\ Announces(latest[w]) /\ answer[w] # "none"
      /\ answer[w] = "declined" => MayDecline(latest[w].pending)
  BY DEF BuildInv, Owning, Rightful
<1>4. answer[w] \in {"ok", "declined", "error"}
  BY <1>2, <1>3 DEF Render!Answers
<1> QED
  BY <1>2, <1>3, <1>4, RecordedReceipt

LEMMA BuildWork ==
  ASSUME BuildInv, NEW w \in Worker, workerPc[w] # "idle"
  PROVE  build[w] \in Build /\ request[w] \in Request
BY DEF BuildInv, BuildTypes

\* Accepted receipts are well-formed.
LEMMA AcceptedFormed ==
  ASSUME Render!BuildAssumption, NEW b \in Build, NEW h, NEW r, Render!Accepts(b, h, r)
  PROVE  Render!WellFormed(r)
BY DEF Render!Accepts, Render!BuildAccepts, Render!BuildAssumption, Render!FamiliesApart

LEMMA TypesNext ==
  ASSUME Render!BuildAssumption, BuildInv, Render!Next
  PROVE  BuildTypes'
<1> SUFFICES LogTyped(log') /\ WorkTyped' /\ EffectTyped'
  BY PartsTypes
<1>0. LogTyped(log) /\ WorkTyped /\ EffectTyped /\ BuildTypes
  BY TypesParts DEF BuildInv
<1>1. ASSUME NEW w \in Worker, NEW b \in Build, NEW q \in Request, Render!Ask(w, b, q)
      PROVE  LogTyped(log') /\ WorkTyped' /\ EffectTyped'
  BY <1>0, <1>1 DEF Render!Ask, WorkTyped, EffectTyped
<1>2. ASSUME NEW w \in Worker, Render!Check(w)
      PROVE  LogTyped(log') /\ WorkTyped' /\ EffectTyped'
  BY <1>0, <1>2 DEF Render!Check, WorkTyped, EffectTyped
<1>3. ASSUME NEW w \in Worker, Render!Block(w)
      PROVE  LogTyped(log') /\ WorkTyped' /\ EffectTyped'
  <2>1. build[w] \in Build /\ request[w] \in Request
    BY <1>3, BuildWork DEF Render!Block
  <2>2. WorkTyped'
    BY <1>0, <1>3, LeaveTyped DEF Render!Block
  <2>3. EffectTyped'
    BY <1>0, <1>3 DEF Render!Block, EffectTyped
  <2>4. CASE log[build[w]] = <<>>
    BY <1>0, <1>3, <2>1, <2>2, <2>3, <2>4, FirstReceipts, WriteTyped DEF Render!Block
  <2>5. CASE log[build[w]] # <<>>
    BY <1>0, <1>3, <2>2, <2>3, <2>5 DEF Render!Block
  <2> QED
    BY <2>4, <2>5
<1>4. ASSUME NEW w \in Worker, Render!Admit(w)
      PROVE  LogTyped(log') /\ WorkTyped' /\ EffectTyped'
  <2> DEFINE r == Render!VerifiedReceipt(request[w])
  <2>1. build[w] \in Build /\ request[w] \in Request
    BY <1>4, BuildWork DEF Render!Admit
  <2>2. EffectTyped'
    BY <1>0, <1>4 DEF Render!Admit, EffectTyped
  <2>3. r \in BuildReceipt
    BY <2>1, FirstReceipts
  <2>4. CASE Render!Accepts(build[w], log[build[w]], r)
    <3>1. /\ Render!Write(build[w], r) /\ latest' = [latest EXCEPT ![w] = r]
          /\ workerPc' = [workerPc EXCEPT ![w] = "call"] /\ UNCHANGED <<build, request, answer>>
      BY <1>4, <2>4 DEF Render!Admit
    <3>2. LogTyped(log')
      BY <1>0, <2>1, <2>3, <2>4, <3>1, AcceptedFormed, WriteTyped
    <3> HIDE DEF r
    <3>3. WorkTyped'
      BY <1>0, <2>1, <2>3, <3>1 DEF WorkTyped
    <3> QED
      BY <2>2, <3>2, <3>3
  <2>5. CASE ~Render!Accepts(build[w], log[build[w]], r)
    <3>1. Render!Leave(w) /\ UNCHANGED log
      BY <1>4, <2>5 DEF Render!Admit
    <3> QED
      BY <1>0, <2>2, <3>1, LeaveTyped
  <2> QED
    BY <2>4, <2>5
<1>5. ASSUME NEW w \in Worker, NEW a \in Render!Answers \ {"none"}, Render!Call(w, a)
      PROVE  LogTyped(log') /\ WorkTyped' /\ EffectTyped'
  <2> DEFINE b == build[w]
             op == latest[w].pending
  <2>1. b \in Build /\ op \in Render!Operations
    BY <1>5, BuildWork DEF Render!Call, BuildInv, Owning, Rightful, Announces
  <2>2. /\ calls' = [calls EXCEPT ![b][op] = calls[b][op] + 1]
        /\ took' = [took EXCEPT ![b] = took[b] \cup {op}] \/ took' = took
        /\ log' = log
    BY <1>5 DEF Render!Call
  <2>3. WorkTyped'
    BY <1>0, <1>5, <2>1 DEF Render!Call, WorkTyped
  <2> HIDE DEF b, op
  <2>4. EffectTyped'
    BY <1>0, <2>1, <2>2 DEF EffectTyped
  <2> QED
    BY <1>0, <2>2, <2>3, <2>4
<1>6. ASSUME NEW w \in Worker, Render!Record(w)
      PROVE  LogTyped(log') /\ WorkTyped' /\ EffectTyped'
  <2> DEFINE r == Render!Recorded(latest[w], answer[w])
  <2>1. build[w] \in Build /\ r \in BuildReceipt
    BY <1>6, RecorderFacts DEF Render!Record, Goes
  <2>2. LogTyped(log')
    BY <1>0, <1>6, <2>1, AcceptedFormed, WriteTyped DEF Render!Record
  <2>3. EffectTyped'
    BY <1>0, <1>6 DEF Render!Record, EffectTyped
  <2>4. CASE Render!Leave(w)
    BY <1>0, <2>2, <2>3, <2>4, LeaveTyped
  <2>5. CASE ~Render!Leave(w)
    <3>1. /\ workerPc' = [workerPc EXCEPT ![w] = "call"] /\ latest' = [latest EXCEPT ![w] = r]
          /\ answer' = [answer EXCEPT ![w] = "none"] /\ UNCHANGED <<build, request>>
          /\ workerPc[w] = "record"
      BY <1>6, <2>5 DEF Render!Record
    <3> HIDE DEF r
    <3>2. WorkTyped'
      BY <1>0, <2>1, <3>1 DEF WorkTyped, Render!Answers
    <3> QED
      BY <2>2, <2>3, <3>2
  <2> QED
    BY <2>4, <2>5
<1>7. ASSUME NEW s \in Scope, NEW m \in Material, Render!RecordPrivacy(s, m)
      PROVE  LogTyped(log') /\ WorkTyped' /\ EffectTyped'
  BY <1>0, <1>7, PrivacyLog DEF Render!RecordPrivacy, Render!work, WorkTyped, EffectTyped
<1>8. ASSUME NEW w \in Worker, Render!Crash(w)
      PROVE  LogTyped(log') /\ WorkTyped' /\ EffectTyped'
  BY <1>0, <1>8, LeaveTyped DEF Render!Crash, EffectTyped
<1> QED
  BY <1>1, <1>2, <1>3, <1>4, <1>5, <1>6, <1>7, <1>8 DEF Render!Next, Render!Work

-----------------------------------------------------------------------------
(* Owners and effects *)

\* A step after which nobody newly calls or records, and no build's history or effect moved.
Quiet ==
  /\ calls' = calls /\ took' = took
  /\ \A b \in Build : log'[b] = log[b]
  /\ \A v \in Worker : workerPc'[v] \in {"call", "record"} =>
       /\ workerPc'[v] = workerPc[v] /\ build'[v] = build[v] /\ latest'[v] = latest[v]
       /\ answer'[v] = answer[v]

Effects ==
  /\ Owning /\ OneOwner /\ NotYet
  /\ Render!CalledOnce /\ Render!Announced /\ Render!SettledMeansSettled

LEMMA QuietKeeps ==
  ASSUME BuildInv, Quiet
  PROVE  Effects'
<1>0. \A w \in Worker : workerPc[w] # "idle" => build[w] \in Build
  BY BuildWork
<1>1. Owning'
  <2> SUFFICES ASSUME NEW w \in Worker, workerPc'[w] \in {"call", "record"}
               PROVE  Rightful(workerPc'[w], latest'[w], answer'[w], log'[build'[w]],
                               took'[build'[w]], calls'[build'[w]])
    BY DEF Owning
  <2>1. /\ workerPc'[w] = workerPc[w] /\ build'[w] = build[w] /\ latest'[w] = latest[w]
        /\ answer'[w] = answer[w] /\ took' = took /\ calls' = calls
    BY DEF Quiet
  <2>2. log'[build[w]] = log[build[w]]
    BY <1>0, <2>1 DEF Quiet
  <2>3. Rightful(workerPc[w], latest[w], answer[w], log[build[w]], took[build[w]], calls[build[w]])
    BY <2>1 DEF BuildInv, Owning
  <2> QED
    BY <2>1, <2>2, <2>3
<1>2. OneOwner'
  BY DEF BuildInv, Quiet, OneOwner, Owns
<1>3. NotYet'
  BY DEF BuildInv, Quiet, NotYet, After, Render!Newest
<1>4. Render!CalledOnce'
  BY DEF BuildInv, Quiet, Render!CalledOnce
<1>5. Render!Announced'
  BY DEF BuildInv, Quiet, Render!Announced
<1>6. Render!SettledMeansSettled'
  BY DEF BuildInv, Quiet, Render!SettledMeansSettled, Render!Newest, Render!Blocked
<1> QED
  BY <1>1, <1>2, <1>3, <1>4, <1>5, <1>6 DEF Effects

\* A worker whose build no receipt is written to, and which keeps its place, stays rightful.
LEMMA OthersRightful ==
  ASSUME BuildInv, NEW v \in Worker, workerPc[v] \in {"call", "record"},
         workerPc'[v] = workerPc[v], build'[v] = build[v], latest'[v] = latest[v],
         answer'[v] = answer[v], log'[build[v]] = log[build[v]],
         took'[build[v]] = took[build[v]], calls'[build[v]] = calls[build[v]]
  PROVE  Rightful(workerPc'[v], latest'[v], answer'[v], log'[build'[v]], took'[build'[v]],
                  calls'[build'[v]])
<1>1. Rightful(workerPc[v], latest[v], answer[v], log[build[v]], took[build[v]], calls[build[v]])
  BY DEF BuildInv, Owning
<1> QED
  BY <1>1

LEMMA OwningFrom ==
  ASSUME \A v \in Worker : workerPc'[v] \in {"call", "record"} =>
           Rightful(workerPc'[v], latest'[v], answer'[v], log'[build'[v]], took'[build'[v]],
                    calls'[build'[v]])
  PROVE  Owning'
BY DEF Owning

\* The other conjuncts, of a build with history h, effects t and numbers of calls c.
Later(h, c) ==
  /\ h = <<>> => \A op \in Render!Operations : c[op] = 0
  /\ h # <<>> /\ Render!Newest(h).pending \in Render!Operations =>
       \A op \in After(Render!Newest(h).pending) : c[op] = 0

Settles(h, t) ==
  /\ h = <<>> => t = {}
  /\ h # <<>> /\ Render!Newest(h).settled =>
       \/ Render!Newest(h).state = "blocked" /\ t = {}
       \/ Render!Newest(h).state = "closed_consumed" /\ {"reserve", "consume"} \subseteq t
       \/ Render!Newest(h).state = "compensated" /\ {"consume", "compensate"} \subseteq t

Counts(h, c) ==
  \A op \in Render!Operations :
    c[op] <= 1 /\ (c[op] > 0 => \E n \in DOMAIN h : h[n].pending = op)

Sound(h, t, c) == Later(h, c) /\ Settles(h, t) /\ Counts(h, c)

LEMMA SoundBuild ==
  ASSUME BuildInv, NEW b \in Build
  PROVE  Sound(log[b], took[b], calls[b])
BY DEF BuildInv, NotYet, Render!CalledOnce, Render!Announced, Render!SettledMeansSettled,
   Render!Blocked, Sound, Later, Settles, Counts

LEMMA BuildsSound ==
  ASSUME \A b \in Build : Sound(log'[b], took'[b], calls'[b])
  PROVE  NotYet' /\ Render!CalledOnce' /\ Render!Announced' /\ Render!SettledMeansSettled'
<1>1. NotYet'
  BY DEF Sound, Later, Settles, NotYet, Render!Newest, After
<1>2. Render!CalledOnce' /\ Render!Announced'
  BY DEF Sound, Counts, Render!CalledOnce, Render!Announced
<1>3. Render!SettledMeansSettled'
  BY DEF Sound, Settles, Render!SettledMeansSettled, Render!Newest, Render!Blocked
<1> QED
  BY <1>1, <1>2, <1>3

LEMMA BlockEffects ==
  ASSUME Render!BuildAssumption, BuildInv, NEW w \in Worker, Render!Block(w)
  PROVE  Effects'
<1> DEFINE b == build[w]
           x == Render!BlockedReceipt(request[w])
<1>1. b \in Build /\ request[w] \in Request
  BY BuildWork DEF Render!Block
<1>2. /\ calls' = calls /\ took' = took /\ Render!Leave(w)
      /\ \A v \in Worker \ {w} : /\ workerPc'[v] = workerPc[v] /\ build'[v] = build[v]
                               /\ latest'[v] = latest[v] /\ answer'[v] = answer[v]
      /\ workerPc'[w] = "idle"
  BY DEF Render!Block, Render!Leave, BuildInv, BuildTypes, Render!TypeOK
<1>3. CASE log[b] # <<>>
  <2>1. Quiet
    BY <1>2, <1>3 DEF Quiet, Render!Block
  <2> QED
    BY <2>1, QuietKeeps
<1>4. CASE log[b] = <<>>
  <2>1. x \in BuildReceipt /\ x.state = "blocked" /\ x.pending = "none"
    BY <1>1, FirstReceipts
  <2>2. BuildTypes /\ Render!Write(b, x)
    BY <1>4 DEF Render!Block, BuildInv
  <2>3. /\ log'[b] # <<>> /\ Render!Newest(log'[b]) = x
        /\ \A k \in Render!Key \ {b} : log'[k] = log[k]
    BY <1>1, <2>1, <2>2, WrittenLog
  <2>4. Build \subseteq Render!Key
    BY DEF Render!Key
  <2> HIDE DEF b, x
  <2>5. Owning'
    <3> SUFFICES ASSUME NEW v \in Worker, workerPc'[v] \in {"call", "record"}
                 PROVE  Rightful(workerPc'[v], latest'[v], answer'[v], log'[build'[v]],
                                 took'[build'[v]], calls'[build'[v]])
      BY OwningFrom
    <3>1. v # w /\ workerPc[v] \in {"call", "record"}
      BY <1>2
    <3>2. log[build[v]] # <<>>
      BY <3>1 DEF BuildInv, Owning, Rightful
    <3>3. build[v] \in Build
      BY <3>1, BuildWork
    <3> QED
      BY <1>2, <1>4, <2>3, <2>4, <3>1, <3>2, <3>3, OthersRightful
  <2>6. OneOwner'
    BY <1>2 DEF BuildInv, OneOwner, Owns
  <2>7. \A c \in Build : Sound(log'[c], took'[c], calls'[c])
    <3> SUFFICES ASSUME NEW c \in Build PROVE Sound(log'[c], took'[c], calls'[c])
      OBVIOUS
    <3>1. CASE c # b
      BY <1>2, <2>3, <2>4, <3>1, SoundBuild
    <3>2. CASE c = b
      <4>1. Sound(<<>>, took[b], calls[b])
        BY <1>1, <1>4, SoundBuild
      <4>2. took[b] = {} /\ \A op \in Render!Operations : calls[b][op] = 0
        BY <4>1 DEF Sound, Later, Settles
      <4>3. Later(log'[b], calls[b])
        BY <2>1, <2>3 DEF Later
      <4>4. Settles(log'[b], took[b])
        BY <2>1, <2>3, <4>2 DEF Settles
      <4>5. Counts(log'[b], calls[b])
        BY <4>2 DEF Counts
      <4> QED
        BY <1>2, <3>2, <4>3, <4>4, <4>5 DEF Sound
    <3> QED
      BY <3>1, <3>2
  <2> QED
    BY <2>5, <2>6, <2>7, BuildsSound DEF Effects
<1> QED
  BY <1>3, <1>4

LEMMA AdmitEffects ==
  ASSUME Render!BuildAssumption, BuildInv, NEW w \in Worker, Render!Admit(w)
  PROVE  Effects'
<1> DEFINE b == build[w]
           x == Render!VerifiedReceipt(request[w])
<1>1. b \in Build /\ request[w] \in Request
  BY BuildWork DEF Render!Admit
<1>2. calls' = calls /\ took' = took
  BY DEF Render!Admit
<1>3. CASE ~Render!Accepts(b, log[b], x)
  <2>1. Render!Leave(w) /\ UNCHANGED log
    BY <1>3 DEF Render!Admit
  <2>2. Quiet
    BY <1>2, <2>1 DEF Quiet, Render!Leave, BuildInv, BuildTypes, Render!TypeOK
  <2> QED
    BY <2>2, QuietKeeps
<1>4. CASE Render!Accepts(b, log[b], x)
  <2>0. BuildTypes
    BY DEF BuildInv
  <2>1. x \in BuildReceipt /\ Announces(x) /\ x.pending = "reserve" /\ ~x.settled
    BY <1>1, FirstReceipts
  <2>2. log[b] = <<>>
    BY <1>1, <1>4, <2>0, FirstOnly
  <2>3. /\ Render!Write(b, x) /\ workerPc' = [workerPc EXCEPT ![w] = "call"]
        /\ latest' = [latest EXCEPT ![w] = x] /\ UNCHANGED <<build, request, answer>>
    BY <1>4 DEF Render!Admit
  <2>4. /\ log'[b] # <<>> /\ Render!Newest(log'[b]) = x
        /\ \A k \in Render!Key \ {b} : log'[k] = log[k]
    BY <1>1, <2>0, <2>1, <2>3, WrittenLog
  <2>5. Build \subseteq Render!Key
    BY DEF Render!Key
  <2>6. took[b] = {} /\ \A op \in Render!Operations : calls[b][op] = 0
    <3>1. Sound(<<>>, took[b], calls[b])
      BY <1>1, <2>2, SoundBuild
    <3> QED
      BY <3>1 DEF Sound, Later, Settles
  <2> HIDE DEF x
  <2>7. /\ workerPc'[w] = "call" /\ latest'[w] = x /\ build' = build /\ answer' = answer
        /\ \A v \in Worker \ {w} : workerPc'[v] = workerPc[v] /\ latest'[v] = latest[v]
    BY <2>0, <2>3 DEF BuildTypes, Render!TypeOK
  <2> HIDE DEF b
  <2>8. \A v \in Worker \ {w} : workerPc[v] \in {"call", "record"} => build[v] # b
    BY <2>2 DEF BuildInv, Owning, Rightful
  <2>9. Owning'
    <3> SUFFICES ASSUME NEW v \in Worker, workerPc'[v] \in {"call", "record"}
                 PROVE  Rightful(workerPc'[v], latest'[v], answer'[v], log'[build'[v]],
                                 took'[build'[v]], calls'[build'[v]])
      BY OwningFrom
    <3>1. CASE v = w
      <4>1. Rightful("call", x, answer[w], log'[b], took[b], calls[b])
        BY <2>1, <2>4, <2>6 DEF Rightful, Effected
      <4> QED
        BY <1>2, <2>7, <3>1, <4>1 DEF b
    <3>2. CASE v # w
      BY <1>2, <2>4, <2>5, <2>7, <2>8, <3>2, BuildWork, OthersRightful
    <3> QED
      BY <3>1, <3>2
  <2>10. OneOwner'
    BY <2>7, <2>8 DEF BuildInv, OneOwner, Owns, b
  <2>11. \A c \in Build : Sound(log'[c], took'[c], calls'[c])
    <3> SUFFICES ASSUME NEW c \in Build PROVE Sound(log'[c], took'[c], calls'[c])
      OBVIOUS
    <3>1. CASE c # b
      BY <1>2, <2>4, <2>5, <3>1, SoundBuild
    <3>2. CASE c = b
      <4>1. Later(log'[b], calls[b])
        BY <2>1, <2>4, <2>6 DEF Later, After
      <4>2. Settles(log'[b], took[b])
        BY <2>1, <2>4 DEF Settles
      <4>3. Counts(log'[b], calls[b])
        BY <2>6 DEF Counts
      <4> QED
        BY <1>2, <3>2, <4>1, <4>2, <4>3 DEF Sound
    <3> QED
      BY <3>1, <3>2
  <2> QED
    BY <2>9, <2>10, <2>11, BuildsSound DEF Effects
<1> QED
  BY <1>3, <1>4

LEMMA CallEffects ==
  ASSUME Render!BuildAssumption, BuildInv, NEW w \in Worker,
         NEW a \in Render!Answers \ {"none"}, Render!Call(w, a)
  PROVE  Effects'
<1> DEFINE b == build[w]
           op == latest[w].pending
<1>0. BuildTypes /\ EffectTyped /\ workerPc[w] = "call"
  BY TypesParts DEF BuildInv, Render!Call
<1>1. b \in Build
  BY <1>0, BuildWork
<1>2. Rightful("call", latest[w], answer[w], log[b], took[b], calls[b])
  BY <1>0 DEF BuildInv, Owning
<1>3. /\ op \in Render!Operations /\ calls[b][op] = 0 /\ Announces(latest[w])
      /\ log[b] # <<>> /\ Render!Newest(log[b]) = latest[w]
  BY <1>2 DEF Rightful, Announces
<1>4. /\ calls' = [calls EXCEPT ![b][op] = calls[b][op] + 1] /\ log' = log
      /\ a = "declined" => MayDecline(op)
      /\ took' = [took EXCEPT ![b] = took[b] \cup {op}] \/ (a # "ok" /\ took' = took)
  <2>1. a = "declined" => op \in {"execute", "quality_gate", "compensate"}
    BY DEF Render!Call
  <2>2. calls' = [calls EXCEPT ![b][op] = calls[b][op] + 1] /\ log' = log
    BY DEF Render!Call
  <2>3. took' = [took EXCEPT ![b] = took[b] \cup {op}] \/ (a # "ok" /\ took' = took)
    BY DEF Render!Call
  <2> QED
    BY <2>1, <2>2, <2>3 DEF MayDecline
<1>5. /\ workerPc'[w] = "record" /\ answer'[w] = a /\ build' = build /\ latest' = latest
      /\ \A v \in Worker \ {w} : workerPc'[v] = workerPc[v] /\ answer'[v] = answer[v]
  BY <1>0 DEF Render!Call, BuildTypes, Render!TypeOK
<1>6. \A v \in Worker \ {w} : workerPc[v] \in {"call", "record"} => build[v] # b
  BY <1>0, <1>1 DEF BuildInv, OneOwner, Owns
<1> HIDE DEF b, op
<1>7. /\ calls'[b][op] = 1
      /\ \A o \in Render!Operations \ {op} : calls'[b][o] = calls[b][o]
      /\ \A c \in Build \ {b} : calls'[c] = calls[c] /\ took'[c] = took[c]
      /\ took[b] \subseteq took'[b] /\ (a = "ok" => op \in took'[b])
  BY <1>0, <1>1, <1>3, <1>4 DEF EffectTyped
<1>8. Owning'
  <2> SUFFICES ASSUME NEW v \in Worker, workerPc'[v] \in {"call", "record"}
               PROVE  Rightful(workerPc'[v], latest'[v], answer'[v], log'[build'[v]],
                               took'[build'[v]], calls'[build'[v]])
    BY OwningFrom
  <2>1. CASE v = w
    <3>1. Rightful("record", latest[w], a, log[b], took'[b], calls'[b])
      BY <1>2, <1>4, <1>7 DEF Rightful, op
    <3> QED
      BY <1>4, <1>5, <2>1, <3>1 DEF b
  <2>2. CASE v # w
    BY <1>4, <1>5, <1>6, <1>7, <2>2, BuildWork, OthersRightful
  <2> QED
    BY <2>1, <2>2
<1>9. OneOwner'
  BY <1>0, <1>5 DEF BuildInv, OneOwner, Owns
<1>10. \A c \in Build : Sound(log'[c], took'[c], calls'[c])
  <2> SUFFICES ASSUME NEW c \in Build PROVE Sound(log'[c], took'[c], calls'[c])
    OBVIOUS
  <2>1. CASE c # b
    BY <1>4, <1>7, <2>1, SoundBuild
  <2>2. CASE c = b
    <3>1. Sound(log[b], took[b], calls[b])
      BY <1>1, SoundBuild
    <3>2. Render!Newest(log[b]).pending = op /\ ~Render!Newest(log[b]).settled
      BY <1>3 DEF op, Announces
    <3>3. \A o \in After(op) : o \in Render!Operations \ {op}
      BY <1>3 DEF After
    <3>4. Later(log[b], calls'[b])
      BY <1>3, <1>7, <3>1, <3>2, <3>3 DEF Sound, Later
    <3>5. Settles(log[b], took'[b])
      BY <1>3, <3>2 DEF Settles
    <3>6. \E n \in DOMAIN log[b] : log[b][n].pending = op
      <4>1. log[b] \in Seq(BuildReceipt)
        BY <1>0, <1>1 DEF BuildTypes
      <4>2. Len(log[b]) \in DOMAIN log[b]
        BY <1>3, <4>1
      <4> QED
        BY <3>2, <4>2 DEF Render!Newest
    <3>7. Counts(log[b], calls'[b])
      BY <1>3, <1>7, <3>1, <3>6 DEF Sound, Counts
    <3> QED
      BY <1>4, <2>2, <3>4, <3>5, <3>7 DEF Sound
  <2> QED
    BY <2>1, <2>2
<1> QED
  BY <1>8, <1>9, <1>10, BuildsSound DEF Effects

LEMMA RecordEffects ==
  ASSUME Render!BuildAssumption, BuildInv, NEW w \in Worker, Render!Record(w)
  PROVE  Effects'
<1> DEFINE b == build[w]
           r == latest[w]
           a == answer[w]
           x == Render!Recorded(latest[w], answer[w])
<1>0. BuildTypes /\ EffectTyped /\ workerPc[w] = "record"
  BY TypesParts DEF BuildInv, Render!Record
<1>1. b \in Build /\ r \in BuildReceipt /\ Announces(r) /\ Goes(r, a, x)
  BY <1>0, RecorderFacts
<1>2. Rightful("record", r, a, log[b], took[b], calls[b])
  BY <1>0 DEF BuildInv, Owning
<1>3. /\ calls' = calls /\ took' = took /\ Render!Write(b, x)
      /\ \/ x.pending = "none" /\ Render!Leave(w)
         \/ /\ x.pending # "none" /\ workerPc' = [workerPc EXCEPT ![w] = "call"]
            /\ latest' = [latest EXCEPT ![w] = x] /\ answer' = [answer EXCEPT ![w] = "none"]
            /\ UNCHANGED <<build, request>>
  BY DEF Render!Record
<1>4. x \in BuildReceipt
  BY <1>1 DEF Goes
<1>5. /\ log'[b] # <<>> /\ Render!Newest(log'[b]) = x
      /\ \A k \in Render!Key \ {b} : log'[k] = log[k]
      /\ DOMAIN log[b] \subseteq DOMAIN log'[b]
      /\ \A n \in DOMAIN log[b] : log'[b][n] = log[b][n]
  BY <1>0, <1>1, <1>3, <1>4, WrittenLog
<1>6. Build \subseteq Render!Key
  BY DEF Render!Key
<1> HIDE DEF x
<1>7. /\ \A v \in Worker \ {w} : /\ workerPc'[v] = workerPc[v] /\ build'[v] = build[v]
                               /\ latest'[v] = latest[v] /\ answer'[v] = answer[v]
      /\ \/ workerPc'[w] = "idle"
         \/ x.pending # "none" /\ workerPc'[w] = "call" /\ latest'[w] = x /\ build'[w] = build[w]
  BY <1>0, <1>3 DEF Render!Leave, BuildTypes, Render!TypeOK
<1>8. \A v \in Worker \ {w} : workerPc[v] \in {"call", "record"} => build[v] # b
  BY <1>0, <1>1 DEF BuildInv, OneOwner, Owns
<1>9. Sound(log[b], took[b], calls[b])
  BY <1>1, SoundBuild
<1>10. /\ r.pending \in Render!Operations /\ Effected(r.pending) \subseteq took[b]
       /\ log[b] # <<>> /\ Render!Newest(log[b]) = r /\ (a = "ok" => r.pending \in took[b])
  BY <1>1, <1>2 DEF Rightful, Announces
<1> HIDE DEF b, r, a
<1>11. \A op \in After(r.pending) : calls[b][op] = 0
  BY <1>9, <1>10 DEF Sound, Later
<1>12. Owning'
  <2> SUFFICES ASSUME NEW v \in Worker, workerPc'[v] \in {"call", "record"}
               PROVE  Rightful(workerPc'[v], latest'[v], answer'[v], log'[build'[v]],
                               took'[build'[v]], calls'[build'[v]])
    BY OwningFrom
  <2>1. CASE v = w
    <3>1. x.pending # "none" /\ workerPc'[w] = "call" /\ latest'[w] = x /\ build'[w] = b
      BY <1>7, <2>1 DEF b
    <3>2. Announces(x) /\ x.pending \in After(r.pending) /\ Effected(x.pending) \subseteq took[b]
      BY <1>1, <1>10, <3>1 DEF Goes
    <3>3. Rightful("call", x, answer'[w], log'[b], took[b], calls[b])
      BY <1>5, <1>11, <3>2 DEF Rightful
    <3> QED
      BY <1>3, <2>1, <3>1, <3>3
  <2>2. CASE v # w
    BY <1>3, <1>5, <1>6, <1>7, <1>8, <2>2, BuildWork, OthersRightful
  <2> QED
    BY <2>1, <2>2
<1>13. OneOwner'
  BY <1>0, <1>7 DEF BuildInv, OneOwner, Owns
<1>14. \A c \in Build : Sound(log'[c], took'[c], calls'[c])
  <2> SUFFICES ASSUME NEW c \in Build PROVE Sound(log'[c], took'[c], calls'[c])
    OBVIOUS
  <2>1. CASE c # b
    BY <1>3, <1>5, <1>6, <2>1, SoundBuild
  <2>2. CASE c = b
    <3>1. Later(log'[b], calls[b])
      BY <1>1, <1>5, <1>11 DEF Later, Goes
    <3>2. Settles(log'[b], took[b])
      BY <1>1, <1>5, <1>10 DEF Settles, Goes, Effected
    <3>3. Counts(log'[b], calls[b])
      BY <1>5, <1>9 DEF Sound, Counts
    <3> QED
      BY <1>3, <2>2, <3>1, <3>2, <3>3 DEF Sound
  <2> QED
    BY <2>1, <2>2
<1> QED
  BY <1>12, <1>13, <1>14, BuildsSound DEF Effects

LEMMA BuildInvNext ==
  ASSUME Render!BuildAssumption
  PROVE  BuildInv /\ [Render!Next]_(Render!vars) => BuildInv'
<1> SUFFICES ASSUME BuildInv, [Render!Next]_(Render!vars) PROVE BuildInv'
  OBVIOUS
<1> SUFFICES BuildTypes' /\ Effects'
  BY DEF BuildInv, Effects
<1>1. ASSUME NEW w \in Worker, NEW b \in Build, NEW q \in Request, Render!Ask(w, b, q)
      PROVE  Quiet
  BY <1>1 DEF Render!Ask, Quiet, BuildInv, BuildTypes, Render!TypeOK
<1>2. ASSUME NEW w \in Worker, Render!Check(w)
      PROVE  Quiet
  BY <1>2 DEF Render!Check, Quiet, BuildInv, BuildTypes, Render!TypeOK
<1>3. ASSUME NEW w \in Worker, Render!Crash(w)
      PROVE  Quiet
  BY <1>3 DEF Render!Crash, Render!Leave, Quiet, BuildInv, BuildTypes, Render!TypeOK
<1>4. ASSUME NEW s \in Scope, NEW m \in Material, Render!RecordPrivacy(s, m)
      PROVE  Quiet
  BY <1>4, PrivacyLog DEF Render!RecordPrivacy, Render!work, Quiet, BuildInv
<1>5. CASE Render!Next
  <2>1. Effects'
    BY <1>1, <1>2, <1>3, <1>4, <1>5, QuietKeeps, BlockEffects, AdmitEffects, CallEffects,
       RecordEffects DEF Render!Next, Render!Work
  <2> QED
    BY <1>5, <2>1, TypesNext
<1>6. CASE UNCHANGED Render!vars
  <2>1. Quiet /\ log' = log
    BY <1>6 DEF Render!vars, Render!work, Quiet
  <2>2. LogTyped(log') /\ WorkTyped' /\ EffectTyped'
    BY <1>6, TypesParts DEF BuildInv, Render!vars, Render!work, WorkTyped, EffectTyped, Render!Answers
  <2> QED
    BY <2>1, <2>2, QuietKeeps, PartsTypes
<1> QED
  BY <1>5, <1>6

LEMMA RenderInv ==
  ASSUME Render!BuildAssumption
  PROVE  Render!Spec => []BuildInv
BY InitBuildInv, BuildInvNext, PTL DEF Render!Spec

\* However many workers are asked for a build and die, no operation on its quota is called
\* twice, and none that the ledger did not announce before.
THEOREM NoSecondCall ==
  ASSUME Render!BuildAssumption
  PROVE  Render!Spec => [](Render!TypeOK /\ Render!CalledOnce /\ Render!Announced)
<1>1. BuildInv => Render!TypeOK /\ Render!CalledOnce /\ Render!Announced
  BY DEF BuildInv, BuildTypes
<1> QED
  BY <1>1, RenderInv, PTL

\* A build that no longer asks for reconciliation left nothing open outside.
THEOREM SettledIsSettled ==
  ASSUME Render!BuildAssumption
  PROVE  Render!Spec => []Render!SettledMeansSettled
<1>1. BuildInv => Render!SettledMeansSettled
  BY DEF BuildInv
<1> QED
  BY <1>1, RenderInv, PTL

-----------------------------------------------------------------------------
(* The histories of builds are histories of ReceiptLog. *)

LEMMA BuildGrows ==
  ASSUME Render!BuildAssumption, BuildTypes, NEW b \in Build, NEW r \in BuildReceipt,
         Render!Accepts(b, log[b], r), Render!Write(b, r)
  PROVE  Render!LogNext
<1>1. log'[b] # <<>> /\ Render!Newest(log'[b]) = r
  BY WrittenLog
<1>2. Render!Grows(b)
  BY <1>1 DEF Render!Grows, Render!Write, Render!Newest
<1> QED
  BY <1>2 DEF Render!LogNext, Render!Key

LEMMA LogSteps ==
  ASSUME Render!BuildAssumption, BuildInv, [Render!Next]_(Render!vars)
  PROVE  [Render!LogNext]_log
<1>0. BuildTypes
  BY DEF BuildInv
<1>1. ASSUME NEW w \in Worker, Render!Block(w)
      PROVE  [Render!LogNext]_log
  <2> DEFINE b == build[w]
             x == Render!BlockedReceipt(request[w])
  <2>1. b \in Build /\ request[w] \in Request
    BY <1>1, BuildWork DEF Render!Block
  <2>2. x \in BuildReceipt /\ x.state = "blocked" /\ Render!WellFormed(x)
    BY <2>1, FirstReceipts
  <2>3. CASE log[b] = <<>>
    <3>1. Render!Accepts(b, log[b], x)
      BY <2>1, <2>2, <2>3 DEF Render!Accepts, Render!BuildAccepts, Render!Blocked
    <3>2. Render!Write(b, x)
      BY <1>1, <2>3 DEF Render!Block
    <3> QED
      BY <1>0, <2>1, <2>2, <3>1, <3>2, BuildGrows
  <2>4. CASE log[b] # <<>>
    BY <1>1, <2>4 DEF Render!Block
  <2> QED
    BY <2>3, <2>4
<1>2. ASSUME NEW w \in Worker, Render!Admit(w)
      PROVE  [Render!LogNext]_log
  <2>1. build[w] \in Build /\ request[w] \in Request
    BY <1>2, BuildWork DEF Render!Admit
  <2>2. Render!VerifiedReceipt(request[w]) \in BuildReceipt
    BY <2>1, FirstReceipts
  <2> QED
    BY <1>0, <1>2, <2>1, <2>2, BuildGrows DEF Render!Admit
<1>3. ASSUME NEW w \in Worker, Render!Record(w)
      PROVE  [Render!LogNext]_log
  <2>1. build[w] \in Build /\ Render!Recorded(latest[w], answer[w]) \in BuildReceipt
    BY <1>3, RecorderFacts DEF Render!Record, Goes
  <2> QED
    BY <1>0, <1>3, <2>1, BuildGrows DEF Render!Record
<1>4. ASSUME NEW s \in Scope, NEW m \in Material, Render!RecordPrivacy(s, m)
      PROVE  [Render!LogNext]_log
  <2>1. Render!Accepts(s, log[s], m) /\ Render!Write(s, m) /\ s \in Render!Key
    BY <1>4 DEF Render!RecordPrivacy, Render!Key
  <2>2. log[s] \in Seq(Material) /\ log'[s] = Append(log[s], m)
    BY <1>0, <2>1 DEF BuildTypes, Render!Write
  <2>3. log'[s] # <<>> /\ Render!Newest(log'[s]) = m
    BY <2>2 DEF Render!Newest
  <2>4. Render!Grows(s)
    BY <2>1, <2>3 DEF Render!Grows, Render!Write, Render!Newest
  <2> QED
    BY <2>1, <2>4 DEF Render!LogNext
<1>5. ASSUME NEW w \in Worker,
             \/ Render!Check(w) \/ Render!Crash(w)
             \/ \E a \in Render!Answers \ {"none"} : Render!Call(w, a)
             \/ \E b \in Build, q \in Request : Render!Ask(w, b, q)
      PROVE  UNCHANGED log
  BY <1>5 DEF Render!Check, Render!Crash, Render!Call, Render!Ask
<1>6. CASE UNCHANGED Render!vars
  BY <1>6 DEF Render!vars
<1> QED
  BY <1>1, <1>2, <1>3, <1>4, <1>5, <1>6 DEF Render!Next, Render!Work

\* A build's receipts, whatever its workers and privacy actions do beside each other, are a
\* history the ledger's rules accept.
THEOREM BuildsKeepLog ==
  ASSUME Render!BuildAssumption
  PROVE  Render!Spec => Render!KeepsReceiptLog
<1>1. Render!Init => Render!LogInit
  BY DEF Render!Init
<1>2. BuildInv /\ [Render!Next]_(Render!vars) => [Render!LogNext]_log
  BY LogSteps
<1> QED
  BY <1>1, <1>2, RenderInv, PTL DEF Render!Spec, Render!KeepsReceiptLog, Render!LogSpec

-----------------------------------------------------------------------------
\* What records an answer to an announced operation, the rules accept after it.
Fits(r, x) ==
  /\ Render!WellFormed(x) /\ x.req = r.req
  /\ x.state \in Render!AllowedTransitions[r.state] /\ x.attempt >= r.attempt
  /\ x.state = r.state => Render!MayRepeat(r, x)

LEMMA RecordedFits ==
  ASSUME Render!BuildAssumption, MaxAttempts >= 1,
         NEW r \in BuildReceipt, Announces(r), NEW a \in {"ok", "declined", "error"},
         a = "declined" => MayDecline(r.pending)
  PROVE  Fits(r, Render!Recorded(r, a))
<1> SUFFICES ASSUME NEW x, Records(x, r.req, r.pending, a) PROVE Fits(r, x)
  BY RecordedRecords
<1>0. r.pending \in Render!Operations
  BY DEF Announces
<1>a. /\ "authorization_verified" \notin Render!Attempted \cup Render!Consumed
      /\ "reservation_held" \notin Render!Attempted \cup Render!Consumed
      /\ \A state \in {"attempt_committed", "charge_pending", "cancelled_reconciliation_pending",
                       "consumed", "closed_consumed", "compensation_pending", "compensated",
                       "compensation_failed_blocked"} :
           state \in Render!Attempted \cup Render!Consumed
  BY DEF Render!Attempted, Render!Consumed
<1>d. 0 \in 0..MaxAttempts /\ 1 \in 0..MaxAttempts
  BY DEF Render!BuildAssumption, Render!AttemptBound
<1>b. Render!WellFormed(x)
  <2>1. CASE r.pending = "reserve"
    BY <1>a, <2>1, <1>d, States DEF Records, Has, Render!WellFormed
  <2>2. CASE r.pending = "commit_attempt"
    BY <1>a, <2>2, <1>d, States DEF Records, Has, Render!WellFormed
  <2>3. CASE r.pending = "execute"
    BY <1>a, <2>3, <1>d, States DEF Records, Has, Render!WellFormed
  <2>4. CASE r.pending = "consume"
    BY <1>a, <2>4, <1>d, States DEF Records, Has, Render!WellFormed
  <2>5. CASE r.pending = "quality_gate"
    BY <1>a, <2>5, <1>d, States DEF Records, Has, Render!WellFormed
  <2>6. CASE r.pending = "compensate"
    BY <1>a, <2>6, <1>d, States DEF Records, Has, Render!WellFormed
  <2> QED
    BY <1>0, <2>1, <2>2, <2>3, <2>4, <2>5, <2>6
<1>c. /\ {"authorization_verified", "reservation_held"}
           \subseteq Render!AllowedTransitions["authorization_verified"]
      /\ {"reservation_held", "attempt_committed"}
           \subseteq Render!AllowedTransitions["reservation_held"]
      /\ {"charge_pending", "cancelled_reconciliation_pending"}
           \subseteq Render!AllowedTransitions["attempt_committed"]
      /\ {"consumed", "cancelled_reconciliation_pending"}
           \subseteq Render!AllowedTransitions["charge_pending"]
      /\ {"closed_consumed", "compensation_pending"} \subseteq Render!AllowedTransitions["consumed"]
      /\ {"compensated", "compensation_failed_blocked"}
           \subseteq Render!AllowedTransitions["compensation_pending"]
  BY States DEF Render!AllowedTransitions, Render!Compensated
<1> USE DEF Fits, Records, Has, Announces, StateOf
<1>1. CASE r.pending = "reserve"
  BY <1>b, <1>c, <1>1 DEF Render!MayRepeat
<1>2. CASE r.pending = "commit_attempt"
  BY <1>b, <1>c, <1>2 DEF Render!MayRepeat
<1>3. CASE r.pending = "execute"
  BY <1>b, <1>c, <1>3
<1>4. CASE r.pending = "consume"
  BY <1>b, <1>c, <1>4
<1>5. CASE r.pending = "quality_gate"
  BY <1>b, <1>c, <1>5
<1>6. CASE r.pending = "compensate"
  BY <1>b, <1>c, <1>6
<1> QED
  BY <1>0, <1>1, <1>2, <1>3, <1>4, <1>5, <1>6

LEMMA InvRecordable ==
  ASSUME Render!BuildAssumption, MaxAttempts >= 1, BuildInv
  PROVE  Render!Recordable
<1> SUFFICES ASSUME NEW w \in Worker, workerPc[w] = "record"
             PROVE  Render!Accepts(build[w], log[build[w]],
                                   Render!Recorded(latest[w], answer[w]))
  BY DEF Render!Recordable
<1>1. /\ build[w] \in Build /\ latest[w] \in BuildReceipt /\ Announces(latest[w])
      /\ answer[w] \in {"ok", "declined", "error"}
      /\ answer[w] = "declined" => MayDecline(latest[w].pending)
  BY RecorderFacts
<1>2. Fits(latest[w], Render!Recorded(latest[w], answer[w]))
  BY <1>1, RecordedFits
<1>3. log[build[w]] # <<>> /\ latest[w] = Render!Newest(log[build[w]])
  BY DEF BuildInv, Owning, Rightful
<1> QED
  BY <1>1, <1>2, <1>3 DEF Fits, Render!Accepts, Render!BuildAccepts, Render!Follows

\* No worker is left with an outcome the ledger refuses to record, if the authorization lets
\* anything be attempted (maximum_provider_attempts is at least 1 in its contract).
THEOREM OutcomesRecordable ==
  ASSUME Render!BuildAssumption, MaxAttempts >= 1
  PROVE  Render!Spec => []Render!Recordable
BY RenderInv, InvRecordable, PTL
=============================================================================
