--------------------------- MODULE SessionStoreProof ---------------------------
(* Session files are whole, an undisturbed save is never undone and a      *)
(* restart finds it, for any keys with files of their own, any number of   *)
(* savers, any operations on the sessions, failures and crashes.           *)
EXTENDS SessionStore, SequenceTheorems, TLAPS

(* A session that never was and a new one are sessions.                    *)
LEMMA NoSessionTyped == NoSession \in Session /\ NewSession \in Session
<1>1. <<>> \in Seq(1..MaxOps)
  OBVIOUS
<1>2. QED BY <1>1, StoreAssumption DEF NoSession, NewSession, Session

(* The times of sessions, files and saves are integers, and a Save call in *)
(* progress carries the key of a session.                                  *)
LEMMA TimesAreIntegers ==
  ASSUME TypeOK
  PROVE  /\ \A s \in Session : s.updated \in Int
         /\ \A k \in Keys : mem[k] \in Session /\ mem[k].updated \in Int
         /\ \A k \in Keys : acked[k] \in Int
         /\ \A f \in Files : disk[f].session \in Session /\ disk[f].session.updated \in Int
         /\ \A p \in Savers : saver[p].snap \in Session /\ saver[p].snap.updated \in Int
         /\ ops \in Int
<1>1. \A i \in -1..MaxOps : i \in Int
  OBVIOUS
<1>2. \A s \in Session : s.updated \in Int
  BY <1>1 DEF Session
<1>3. \A k \in Keys : mem[k] \in Session
  BY DEF TypeOK
<1>4. \A f \in Files : disk[f].session \in Session
  BY DEF TypeOK
<1>5. \A p \in Savers : saver[p].snap \in Session
  BY DEF TypeOK
<1>6. \A k \in Keys : acked[k] \in Int
  BY <1>1 DEF TypeOK
<1>7. ops \in Int
  BY DEF TypeOK
<1>8. QED BY <1>2, <1>3, <1>4, <1>5, <1>6, <1>7

(* A new store satisfies the invariant.                                    *)
LEMMA InitInv == Init => IndInv
<1>1. SUFFICES ASSUME Init PROVE IndInv
  OBVIOUS
<1>2. TypeOK
  <2>1. mem \in [Keys -> Session]
    BY <1>1, NoSessionTyped DEF Init
  <2>2. disk \in [Files -> [key: Keys \cup {"none"}, session: Session, whole: BOOLEAN]]
    BY <1>1, NoSessionTyped DEF Init, NoFile
  <2>3. saver \in [Savers -> [at: {"idle", "write", "rename"}, key: Keys \cup {"none"},
                              snap: Session, whole: BOOLEAN, alone: BOOLEAN]]
    BY <1>1, NoSessionTyped DEF Init, NotSaving
  <2>4. ops \in 0..MaxOps /\ up \in BOOLEAN
    BY <1>1, StoreAssumption DEF Init
  <2>5. past \in [Keys -> SUBSET Session] /\ acked \in [Keys -> -1..MaxOps]
    BY <1>1, StoreAssumption DEF Init
  <2>6. QED BY <2>1, <2>2, <2>3, <2>4, <2>5 DEF TypeOK
<1>3. SaversCarryPast
  BY <1>1 DEF Init, SaversCarryPast, NotSaving
<1>4. MemoryIsCurrent
  <2>1. \A k \in Keys : mem[k] = NoSession /\ acked[k] = -1
    BY <1>1 DEF Init
  <2>2. NoSession.updated = -1
    BY DEF NoSession
  <2>3. ASSUME NEW k \in Keys PROVE acked[k] =< mem[k].updated
    <3>1. mem[k].updated = acked[k] /\ acked[k] \in Int
      BY <2>1, <2>2
    <3>2. QED BY <3>1
  <2>4. QED BY <2>1, <2>3 DEF MemoryIsCurrent
<1>5. FilesNamed /\ FilesAreWhole
  BY <1>1 DEF Init, FilesNamed, FilesAreWhole, NoFile
<1>6. AckedSaveSurvives
  BY <1>1 DEF Init, AckedSaveSurvives
<1>7. QED BY <1>2, <1>3, <1>4, <1>5, <1>6 DEF IndInv

(* An operation on a session in memory that does not make it older.        *)
LEMMA PutKeeps ==
  ASSUME IndInv, up, NEW k \in Keys, NEW s \in Session, Put(k, s),
         ops' \in 0..MaxOps, ops <= ops', s.updated \in 0..ops', mem[k].updated <= s.updated
  PROVE  IndInv'
<1> USE DEF IndInv
<1>1. /\ mem' = [mem EXCEPT ![k] = s]
      /\ past' = [past EXCEPT ![k] = @ \cup {s}]
      /\ UNCHANGED <<disk, saver, up, acked>>
  BY DEF Put
<1>2. TypeOK'
  BY <1>1 DEF TypeOK
<1>3. /\ \A j \in Keys : past[j] \subseteq past'[j]
      /\ s \in past'[k]
  BY <1>1 DEF TypeOK
<1>4. /\ \A j \in Keys : mem[j].updated <= mem'[j].updated
      /\ mem'[k] = s
      /\ \A j \in Keys \ {k} : mem'[j] = mem[j]
  <2>1. \A j \in Keys : mem[j].updated \in Int
    BY DEF TypeOK, Session
  <2>2. QED BY <1>1, <2>1 DEF TypeOK
<1>5. SaversCarryPast'
  <2>1. SUFFICES ASSUME NEW p \in Savers, saver[p].at # "idle"
                 PROVE  /\ up' /\ saver[p].key \in Keys \ Rejected
                        /\ saver[p].snap \in past'[saver[p].key] /\ saver[p].snap.updated >= 0
                        /\ acked[saver[p].key] =< saver[p].snap.updated
                        /\ saver[p].snap.updated =< mem'[saver[p].key].updated
                        /\ saver[p].at = "rename" => saver[p].whole
                        /\ saver[p].alone => \A q \in Savers \ {p} : saver[q].at = "idle" \/ saver[q].key # saver[p].key
    BY <1>1 DEF SaversCarryPast
  <2>2. /\ up /\ saver[p].key \in Keys \ Rejected
        /\ saver[p].snap \in past[saver[p].key] /\ saver[p].snap.updated >= 0
        /\ acked[saver[p].key] =< saver[p].snap.updated
        /\ saver[p].snap.updated =< mem[saver[p].key].updated
    BY <2>1 DEF SaversCarryPast
  <2>3. /\ saver[p].at = "rename" => saver[p].whole
        /\ saver[p].alone => \A q \in Savers \ {p} : saver[q].at = "idle" \/ saver[q].key # saver[p].key
    BY <2>1 DEF SaversCarryPast
  <2>4. saver[p].snap.updated =< mem'[saver[p].key].updated
    <3>1. saver[p].snap.updated \in Int /\ mem[saver[p].key].updated \in Int
          /\ mem'[saver[p].key].updated \in Int
      <4>1. mem'[saver[p].key] \in Session
        BY <1>2, <2>2 DEF TypeOK
      <4>2. QED BY <2>2, <4>1, TimesAreIntegers
    <3>2. QED BY <2>2, <1>4, <3>1
  <2>5. QED BY <1>1, <1>3, <2>2, <2>3, <2>4
<1>6. MemoryIsCurrent'
  <2>1. SUFFICES ASSUME NEW j \in Keys
                 PROVE  /\ mem'[j] # NoSession => mem'[j] \in past'[j] /\ mem'[j].updated \in 0..ops'
                        /\ up' => acked[j] =< mem'[j].updated
    BY <1>1 DEF MemoryIsCurrent
  <2>2. mem[j].updated \in Int /\ mem'[j].updated \in Int /\ acked[j] \in Int /\ ops \in Int
    <3>1. mem'[j] \in Session
      BY <1>2 DEF TypeOK
    <3>2. QED BY <3>1, TimesAreIntegers
  <2>3. up' => acked[j] =< mem'[j].updated
    BY <1>1, <1>4, <2>2 DEF MemoryIsCurrent
  <2>4. CASE j = k
    BY <1>3, <1>4, <2>3, <2>4
  <2>5. CASE j # k
    BY <1>3, <1>4, <2>2, <2>3, <2>5 DEF MemoryIsCurrent
  <2>6. QED BY <2>4, <2>5
<1>7. FilesNamed'
  <2>1. \A f \in Files : disk[f].session.updated \in Int
    BY DEF TypeOK, Session
  <2>2. QED BY <1>1, <2>1 DEF FilesNamed, TypeOK
<1>8. FilesAreWhole'
  BY <1>1, <1>3 DEF FilesAreWhole, TypeOK
<1>9. AckedSaveSurvives'
  BY <1>1 DEF AckedSaveSurvives
<1>10. QED BY <1>2, <1>5, <1>6, <1>7, <1>8, <1>9

(* The operations under the write lock stamp the session with a new time.  *)
LEMMA ChangeKeeps ==
  ASSUME IndInv, NEW k \in Keys, NEW s \in Session, Change(k, s)
  PROVE  IndInv'
<1> DEFINE t == [s EXCEPT !.updated = ops + 1]
<1>1. up /\ ops < MaxOps /\ ops' = ops + 1 /\ Put(k, t)
  BY DEF Change
<1>2. ops \in 0..MaxOps
  BY DEF IndInv, TypeOK
<1>3. ops' \in 0..MaxOps /\ ops <= ops'
  BY <1>1, <1>2, StoreAssumption
<1>4. t \in Session /\ t.updated = ops'
  BY <1>1, <1>2, StoreAssumption DEF Session
<1>5. mem[k].updated <= ops
  <2>1. CASE mem[k] = NoSession
    BY <1>2, <2>1 DEF NoSession
  <2>2. CASE mem[k] # NoSession
    BY <1>2, <2>2 DEF IndInv, MemoryIsCurrent
  <2>3. QED BY <2>1, <2>2
<1>6. t.updated \in 0..ops' /\ mem[k].updated <= t.updated
  <2>1. mem[k].updated \in Int
    BY DEF IndInv, TypeOK, Session
  <2>2. QED BY <1>1, <1>2, <1>4, <1>5, <2>1
<1> HIDE DEF t
<1>7. QED BY <1>1, <1>3, <1>4, <1>6, PutKeeps

(* Every operation on a session.                                           *)
LEMMA OperationKeeps ==
  ASSUME IndInv, NEW k \in Keys,
         \/ GetOrCreate(k) \/ AddFullMessage(k) \/ SetSummary(k)
         \/ TruncateHistory(k) \/ SetHistory(k)
  PROVE  IndInv'
<1>1. /\ mem[k] \in Session /\ mem[k].msgs \in Seq(1..MaxOps) /\ mem[k].summary \in 0..MaxOps
      /\ ops \in 0..MaxOps /\ past[k] \subseteq Session
  BY DEF IndInv, TypeOK, Session
<1>2. CASE GetOrCreate(k)
  <2>1. up /\ mem[k] = NoSession /\ ops' = ops /\ Put(k, NewSession)
    BY <1>2 DEF GetOrCreate, Exists
  <2>2. NewSession.updated = 0 /\ mem[k].updated <= NewSession.updated
    BY <2>1 DEF NoSession, NewSession
  <2>3. QED BY <1>1, <2>1, <2>2, NoSessionTyped, PutKeeps
<1>3. CASE AddFullMessage(k)
  <2> DEFINE s == IF Exists(k) THEN mem[k] ELSE NewSession
             t == [s EXCEPT !.msgs = Append(@, ops + 1)]
  <2>1. Change(k, t)
    BY <1>3 DEF AddFullMessage
  <2>2. s \in Session /\ s.msgs \in Seq(1..MaxOps)
    BY <1>1, NoSessionTyped DEF Session
  <2>3. ops + 1 \in 1..MaxOps
    BY <1>1, <2>1, StoreAssumption DEF Change
  <2>4. Append(s.msgs, ops + 1) \in Seq(1..MaxOps)
    BY <2>2, <2>3, AppendProperties
  <2>5. t \in Session
    BY <2>2, <2>4 DEF Session
  <2> HIDE DEF t
  <2>6. QED BY <2>1, <2>5, ChangeKeeps
<1>4. CASE SetSummary(k)
  <2> DEFINE t == [mem[k] EXCEPT !.summary = ops + 1]
  <2>1. Change(k, t)
    BY <1>4 DEF SetSummary
  <2>2. ops + 1 \in 0..MaxOps
    BY <1>1, <2>1, StoreAssumption DEF Change
  <2>3. t \in Session
    BY <1>1, <2>2 DEF Session
  <2> HIDE DEF t
  <2>4. QED BY <2>1, <2>3, ChangeKeeps
<1>5. CASE TruncateHistory(k)
  <2> DEFINE n == Len(mem[k].msgs)
             m == SubSeq(mem[k].msgs, n - Keep + 1, n)
             t == [mem[k] EXCEPT !.msgs = m]
  <2>1. n > Keep /\ Change(k, t)
    BY <1>5 DEF TruncateHistory
  <2>2. n \in Nat
    BY <1>1, LenProperties
  <2>6. n - Keep + 1 \in 1..n
    <3> HIDE DEF n, t
    <3>1. QED BY <2>1, <2>2, StoreAssumption
  <2>3. m \in Seq(1..MaxOps)
    <3>1. \A i \in n - Keep + 1 .. n : mem[k].msgs[i] \in 1..MaxOps
      <4>1. \A i \in 1..n : mem[k].msgs[i] \in 1..MaxOps
        BY <1>1, ElementOfSeq
      <4> HIDE DEF n
      <4>2. QED BY <4>1, <2>2, <2>6
    <3>2. QED BY <1>1, <2>2, <2>6, <3>1, SubSeqProperties
  <2> HIDE DEF m
  <2>4. t \in Session
    BY <1>1, <2>3 DEF Session
  <2> HIDE DEF t
  <2>5. QED BY <2>1, <2>4, ChangeKeeps
<1>6. CASE SetHistory(k)
  <2>1. PICK s \in past[k] : Change(k, [mem[k] EXCEPT !.msgs = s.msgs])
    BY <1>6 DEF SetHistory
  <2>2. s.msgs \in Seq(1..MaxOps)
    BY <1>1 DEF Session
  <2>3. [mem[k] EXCEPT !.msgs = s.msgs] \in Session
    BY <1>1, <2>2 DEF Session
  <2>4. QED BY <2>1, <2>3, ChangeKeeps
<1>7. QED BY <1>2, <1>3, <1>4, <1>5, <1>6

(* The copy under the read lock: the copy is the session in memory, and a  *)
(* save of the same key that is under way is no longer alone.              *)
LEMMA SnapshotKeeps ==
  ASSUME IndInv, NEW k \in Keys, NEW p \in Savers, Snapshot(p, k)
  PROVE  IndInv'
<1> USE DEF IndInv
<1>1. /\ up /\ saver[p].at = "idle" /\ k \notin Rejected /\ mem[k] # NoSession
      /\ UNCHANGED <<mem, disk, ops, up, past, acked>>
      /\ saver' = [q \in Savers |->
                     IF q = p THEN [at |-> "write", key |-> k, snap |-> mem[k],
                                    whole |-> FALSE, alone |-> Saving(k) = {}]
                     ELSE IF q \in Saving(k) THEN [saver[q] EXCEPT !.alone = FALSE]
                     ELSE saver[q]]
  BY DEF Snapshot, Exists
<1>2. /\ saver'[p].at = "write" /\ saver'[p].key = k /\ saver'[p].snap = mem[k]
      /\ saver'[p].alone => Saving(k) = {}
  BY <1>1
<1>3. ASSUME NEW q \in Savers \ {p}
      PROVE  /\ saver'[q].at = saver[q].at /\ saver'[q].key = saver[q].key
             /\ saver'[q].snap = saver[q].snap /\ saver'[q].whole = saver[q].whole
             /\ saver'[q].alone => saver[q].alone /\ q \notin Saving(k)
  <2>1. CASE q \in Saving(k)
    <3>1. saver'[q] = [saver[q] EXCEPT !.alone = FALSE]
      BY <1>1, <2>1
    <3>2. QED BY <3>1 DEF TypeOK
  <2>2. CASE q \notin Saving(k)
    <3>1. saver'[q] = saver[q]
      BY <1>1, <2>2
    <3>2. QED BY <3>1, <2>2
  <2>3. QED BY <2>1, <2>2
<1>4. TypeOK'
  <2>1. saver' \in [Savers -> [at: {"idle", "write", "rename"}, key: Keys \cup {"none"},
                               snap: Session, whole: BOOLEAN, alone: BOOLEAN]]
    BY <1>1 DEF TypeOK
  <2>2. QED BY <1>1, <2>1 DEF TypeOK
<1>5. SaversCarryPast'
  <2>1. SUFFICES ASSUME NEW q \in Savers, saver'[q].at # "idle"
                 PROVE  /\ up /\ saver'[q].key \in Keys \ Rejected
                        /\ saver'[q].snap \in past[saver'[q].key] /\ saver'[q].snap.updated >= 0
                        /\ acked[saver'[q].key] =< saver'[q].snap.updated
                        /\ saver'[q].snap.updated =< mem[saver'[q].key].updated
                        /\ saver'[q].at = "rename" => saver'[q].whole
                        /\ saver'[q].alone => \A r \in Savers \ {q} :
                                                saver'[r].at = "idle" \/ saver'[r].key # saver'[q].key
    BY <1>1 DEF SaversCarryPast
  <2>2. CASE q = p
    <3>1. mem[k] \in past[k] /\ acked[k] =< mem[k].updated /\ mem[k].updated >= 0
      BY <1>1 DEF MemoryIsCurrent
    <3>2. mem[k].updated =< mem[k].updated
      BY TimesAreIntegers
    <3>3. saver'[q].alone => \A r \in Savers \ {q} : saver'[r].at = "idle" \/ saver'[r].key # k
      BY <1>2, <1>3, <2>2 DEF Saving
    <3>4. QED BY <1>1, <1>2, <2>2, <3>1, <3>2, <3>3
  <2>3. CASE q # p
    <3>1. /\ up /\ saver[q].key \in Keys \ Rejected
          /\ saver[q].snap \in past[saver[q].key] /\ saver[q].snap.updated >= 0
          /\ acked[saver[q].key] =< saver[q].snap.updated
          /\ saver[q].snap.updated =< mem[saver[q].key].updated
          /\ saver[q].at = "rename" => saver[q].whole
      BY <1>3, <2>1, <2>3 DEF SaversCarryPast
    <3>2. ASSUME saver'[q].alone, NEW r \in Savers \ {q}
          PROVE  saver'[r].at = "idle" \/ saver'[r].key # saver'[q].key
      <4>1. saver[q].alone /\ q \notin Saving(k) /\ saver[q].at # "idle"
        BY <1>3, <2>1, <2>3, <3>2
      <4>2. saver[q].key # k
        BY <4>1 DEF Saving
      <4>3. saver[r].at = "idle" \/ saver[r].key # saver[q].key
        BY <4>1 DEF SaversCarryPast
      <4>4. CASE r = p
        BY <1>2, <1>3, <2>3, <4>2, <4>4
      <4>5. CASE r # p
        BY <1>3, <2>3, <4>3, <4>5
      <4>6. QED BY <4>4, <4>5
    <3>3. QED BY <1>3, <2>3, <3>1, <3>2
  <2>4. QED BY <2>2, <2>3
<1>6. MemoryIsCurrent' /\ FilesNamed' /\ FilesAreWhole' /\ AckedSaveSurvives'
  BY <1>1 DEF MemoryIsCurrent, FilesNamed, FilesAreWhole, AckedSaveSurvives
<1>7. QED BY <1>4, <1>5, <1>6

(* The temporary file is written.                                          *)
LEMMA WriteKeeps ==
  ASSUME IndInv, NEW p \in Savers, WriteTemp(p)
  PROVE  IndInv'
<1> USE DEF IndInv
<1>1. /\ saver[p].at = "write"
      /\ saver' = [saver EXCEPT ![p].at = "rename", ![p].whole = TRUE]
      /\ UNCHANGED <<mem, disk, ops, up, past, acked>>
  BY DEF WriteTemp
<1>2. \A q \in Savers : /\ saver'[q].key = saver[q].key /\ saver'[q].snap = saver[q].snap
                        /\ saver'[q].alone = saver[q].alone
                        /\ saver'[q].at = "idle" <=> saver[q].at = "idle"
                        /\ q # p => saver'[q] = saver[q]
  BY <1>1 DEF TypeOK
<1>3. saver'[p].whole = TRUE
  BY <1>1 DEF TypeOK
<1>4. TypeOK'
  <2> DEFINE Save == [at: {"idle", "write", "rename"}, key: Keys \cup {"none"},
                      snap: Session, whole: BOOLEAN, alone: BOOLEAN]
             done == [saver[p] EXCEPT !.at = "rename", !.whole = TRUE]
  <2>1. saver \in [Savers -> Save]
    BY DEF TypeOK
  <2>2. done \in Save
    <3>1. saver[p] \in Save
      BY <2>1
    <3>2. QED BY <3>1
  <2>3. saver' = [saver EXCEPT ![p] = done]
    BY <1>1, <2>1
  <2> HIDE DEF Save, done
  <2>4. saver' \in [Savers -> Save]
    BY <2>1, <2>2, <2>3
  <2>5. QED BY <1>1, <2>4 DEF TypeOK, Save
<1>5. SaversCarryPast'
  <2>1. \A q \in Savers : saver'[q].at = "rename" => saver'[q].whole
    BY <1>2, <1>3, <1>1 DEF SaversCarryPast
  <2>2. SUFFICES ASSUME NEW q \in Savers, saver'[q].at # "idle"
                 PROVE  /\ up /\ saver'[q].key \in Keys \ Rejected
                        /\ saver'[q].snap \in past[saver'[q].key] /\ saver'[q].snap.updated >= 0
                        /\ acked[saver'[q].key] =< saver'[q].snap.updated
                        /\ saver'[q].snap.updated =< mem[saver'[q].key].updated
                        /\ saver'[q].alone => \A r \in Savers \ {q} :
                                                saver'[r].at = "idle" \/ saver'[r].key # saver'[q].key
    BY <1>1, <2>1 DEF SaversCarryPast
  <2>3. /\ up /\ saver[q].key \in Keys \ Rejected
        /\ saver[q].snap \in past[saver[q].key] /\ saver[q].snap.updated >= 0
        /\ acked[saver[q].key] =< saver[q].snap.updated
        /\ saver[q].snap.updated =< mem[saver[q].key].updated
        /\ saver[q].alone => \A r \in Savers \ {q} :
                               saver[r].at = "idle" \/ saver[r].key # saver[q].key
    BY <1>2, <2>2 DEF SaversCarryPast
  <2>4. QED BY <1>2, <2>3
<1>6. MemoryIsCurrent' /\ FilesNamed' /\ FilesAreWhole' /\ AckedSaveSurvives'
  BY <1>1 DEF MemoryIsCurrent, FilesNamed, FilesAreWhole, AckedSaveSurvives
<1>7. QED BY <1>4, <1>5, <1>6

(* A save that fails ends, and leaves the others as they are.              *)
LEMMA FailKeeps ==
  ASSUME IndInv, NEW p \in Savers, SaveFails(p)
  PROVE  IndInv'
<1> USE DEF IndInv
<1>1. /\ saver' = [saver EXCEPT ![p] = NotSaving]
      /\ UNCHANGED <<mem, disk, ops, up, past, acked>>
  BY DEF SaveFails
<1>2. saver'[p].at = "idle" /\ \A q \in Savers \ {p} : saver'[q] = saver[q]
  BY <1>1 DEF TypeOK, NotSaving
<1>3. TypeOK'
  BY <1>1, NoSessionTyped DEF TypeOK, NotSaving
<1>4. SaversCarryPast'
  BY <1>1, <1>2 DEF SaversCarryPast
<1>5. MemoryIsCurrent' /\ FilesNamed' /\ FilesAreWhole' /\ AckedSaveSurvives'
  BY <1>1 DEF MemoryIsCurrent, FilesNamed, FilesAreWhole, AckedSaveSurvives
<1>6. QED BY <1>3, <1>4, <1>5

(* The rename.  The file it replaces is no other key's, because the keys   *)
(* that Save accepts have files of their own; the time it acknowledges is  *)
(* that of the copy, which no later save of the key undercuts.             *)
LEMMA RenameKeeps ==
  ASSUME IndInv, NEW p \in Savers, Rename(p)
  PROVE  IndInv'
<1> USE DEF IndInv
<1> DEFINE k == saver[p].key
           new == [key |-> k, session |-> saver[p].snap, whole |-> saver[p].whole]
<1>1. /\ saver[p].at = "rename"
      /\ disk' = [disk EXCEPT ![FileOf[k]] = new]
      /\ acked' = [acked EXCEPT ![k] = IF saver[p].alone THEN saver[p].snap.updated ELSE @]
      /\ saver' = [saver EXCEPT ![p] = NotSaving]
      /\ UNCHANGED <<mem, ops, up, past>>
  BY DEF Rename
<1>2. /\ up /\ k \in Keys \ Rejected /\ saver[p].snap \in past[k] /\ saver[p].snap.updated >= 0
      /\ acked[k] =< saver[p].snap.updated /\ saver[p].snap.updated =< mem[k].updated
      /\ saver[p].whole
      /\ saver[p].alone => \A q \in Savers \ {p} : saver[q].at = "idle" \/ saver[q].key # k
  BY <1>1 DEF SaversCarryPast
<1>3. FileOf[k] \in Files /\ k # "none" /\ saver[p].snap \in Session
  BY <1>2, StoreAssumption DEF TypeOK
<1>4. disk'[FileOf[k]] = new /\ \A f \in Files \ {FileOf[k]} : disk'[f] = disk[f]
  BY <1>1, <1>3 DEF TypeOK
<1>5. saver'[p].at = "idle" /\ \A q \in Savers \ {p} : saver'[q] = saver[q]
  BY <1>1 DEF TypeOK, NotSaving
<1>6. /\ acked'[k] = IF saver[p].alone THEN saver[p].snap.updated ELSE acked[k]
      /\ \A j \in Keys \ {k} : acked'[j] = acked[j]
  BY <1>1, <1>2 DEF TypeOK
<1>7. acked[k] =< acked'[k] /\ acked'[k] =< saver[p].snap.updated
  <2>1. acked[k] \in Int /\ saver[p].snap.updated \in Int
    BY <1>2, TimesAreIntegers
  <2>2. QED BY <1>2, <1>6, <2>1
<1>8. TypeOK'
  <2>1. saver[p].snap.updated \in -1..MaxOps
    BY <1>3 DEF Session
  <2>2. acked' \in [Keys -> -1..MaxOps]
    BY <1>1, <2>1 DEF TypeOK
  <2>3. disk' \in [Files -> [key: Keys \cup {"none"}, session: Session, whole: BOOLEAN]]
    BY <1>1, <1>2, <1>3 DEF TypeOK
  <2>4. saver' \in [Savers -> [at: {"idle", "write", "rename"}, key: Keys \cup {"none"},
                               snap: Session, whole: BOOLEAN, alone: BOOLEAN]]
    BY <1>1, NoSessionTyped DEF TypeOK, NotSaving
  <2>5. QED BY <1>1, <2>2, <2>3, <2>4 DEF TypeOK
<1>9. SaversCarryPast'
  <2>1. SUFFICES ASSUME NEW q \in Savers \ {p}, saver[q].at # "idle"
                 PROVE  /\ up /\ saver[q].key \in Keys \ Rejected
                        /\ saver[q].snap \in past[saver[q].key] /\ saver[q].snap.updated >= 0
                        /\ acked'[saver[q].key] =< saver[q].snap.updated
                        /\ saver[q].snap.updated =< mem[saver[q].key].updated
                        /\ saver[q].at = "rename" => saver[q].whole
                        /\ saver[q].alone => \A r \in Savers \ {q} :
                                               saver'[r].at = "idle" \/ saver'[r].key # saver[q].key
    BY <1>1, <1>5 DEF SaversCarryPast
  <2>2. /\ saver[q].key \in Keys \ Rejected
        /\ saver[q].snap \in past[saver[q].key] /\ saver[q].snap.updated >= 0
        /\ acked[saver[q].key] =< saver[q].snap.updated
        /\ saver[q].snap.updated =< mem[saver[q].key].updated
        /\ saver[q].at = "rename" => saver[q].whole
    BY <2>1 DEF SaversCarryPast
  <2>3. saver[q].alone => \A r \in Savers \ {q} : saver'[r].at = "idle" \/ saver'[r].key # saver[q].key
    BY <1>5, <2>1 DEF SaversCarryPast
  <2>4. acked'[saver[q].key] = acked[saver[q].key]
    <3>1. CASE saver[q].key = k
      BY <1>2, <1>6, <2>1, <3>1
    <3>2. CASE saver[q].key # k
      BY <1>6, <2>2, <3>2
    <3>3. QED BY <3>1, <3>2
  <2>5. QED BY <1>2, <2>2, <2>3, <2>4
<1>10. MemoryIsCurrent'
  <2>1. ASSUME NEW j \in Keys PROVE acked'[j] =< mem[j].updated
    <3>1. CASE j = k
      <4>1. acked'[k] \in Int /\ saver[p].snap.updated \in Int /\ mem[k].updated \in Int
        <5>1. acked[k] \in Int /\ saver[p].snap.updated \in Int /\ mem[k].updated \in Int
          BY <1>2, TimesAreIntegers
        <5>2. QED BY <5>1, <1>6
      <4>2. QED BY <1>2, <1>7, <3>1, <4>1
    <3>2. CASE j # k
      BY <1>2, <1>6, <3>2 DEF MemoryIsCurrent
    <3>3. QED BY <3>1, <3>2
  <2>2. QED BY <1>1, <2>1 DEF MemoryIsCurrent
<1>11. FilesNamed'
  <2>1. saver[p].snap.updated \in 0..ops
    <3>1. mem[k] # NoSession
      <4>1. NoSession.updated = -1
        BY DEF NoSession
      <4>2. mem[k].updated >= 0
        BY <1>2, TimesAreIntegers
      <4>3. QED BY <4>1, <4>2
    <3>2. mem[k].updated \in 0..ops
      BY <1>2, <3>1 DEF MemoryIsCurrent
    <3>3. QED BY <1>2, <3>2, TimesAreIntegers
  <2>2. QED BY <1>1, <1>2, <1>4, <2>1 DEF FilesNamed
<1>12. FilesAreWhole'
  BY <1>1, <1>2, <1>4 DEF FilesAreWhole
<1>13. AckedSaveSurvives'
  <2>1. SUFFICES ASSUME NEW j \in Keys, acked'[j] >= 0
                 PROVE  disk'[FileOf[j]].key = j /\ disk'[FileOf[j]].session.updated >= acked'[j]
    BY DEF AckedSaveSurvives
  <2>2. CASE j = k
    <3>1. acked'[k] \in Int /\ saver[p].snap.updated \in Int
      <4>1. acked[k] \in Int /\ saver[p].snap.updated \in Int
        BY <1>2, TimesAreIntegers
      <4>2. QED BY <4>1, <1>6
    <3>2. QED BY <1>4, <1>7, <2>2, <3>1
  <2>3. CASE j # k
    <3>1. acked'[j] = acked[j]
      BY <1>6, <2>3
    <3>2. disk[FileOf[j]].key = j /\ disk[FileOf[j]].session.updated >= acked[j]
      BY <2>1, <3>1 DEF AckedSaveSurvives
    <3>3. FileOf[j] \in Files /\ j # "none"
      BY StoreAssumption
    <3>4. j \notin Rejected
      BY <3>2, <3>3 DEF FilesNamed
    <3>5. FileOf[j] # FileOf[k]
      BY <1>2, <2>3, <3>4, OwnFileAssumption
    <3>6. QED BY <1>4, <3>1, <3>2, <3>3, <3>5
  <2>4. QED BY <2>2, <2>3
<1>14. QED BY <1>8, <1>9, <1>10, <1>11, <1>12, <1>13

(* A crash leaves the files, and nothing else.                             *)
LEMMA CrashKeeps ==
  ASSUME IndInv, Crash
  PROVE  IndInv'
<1> USE DEF IndInv
<1>1. /\ up' = FALSE
      /\ mem' = [k \in Keys |-> NoSession]
      /\ saver' = [p \in Savers |-> NotSaving]
      /\ UNCHANGED <<disk, ops, past, acked>>
  BY DEF Crash
<1>2. TypeOK'
  BY <1>1, NoSessionTyped DEF TypeOK, NotSaving
<1>3. SaversCarryPast'
  BY <1>1 DEF SaversCarryPast, NotSaving
<1>4. MemoryIsCurrent'
  BY <1>1 DEF MemoryIsCurrent
<1>5. FilesNamed' /\ FilesAreWhole' /\ AckedSaveSurvives'
  BY <1>1 DEF FilesNamed, FilesAreWhole, AckedSaveSurvives
<1>6. QED BY <1>2, <1>3, <1>4, <1>5

(* What loadSessions puts under a key is the session in the key's own      *)
(* file, if it has one.                                                    *)
LEMMA LoadReadsOwnFile ==
  ASSUME IndInv, Load, NEW k \in Keys
  PROVE  \/ mem'[k] = NoSession /\ acked[k] < 0
         \/ /\ disk[FileOf[k]].key = k /\ mem'[k] = disk[FileOf[k]].session
            /\ mem'[k] \in past[k] /\ mem'[k].updated \in 0..ops /\ acked[k] =< mem'[k].updated
<1> USE DEF IndInv
<1> DEFINE Of(f) == disk[f].key = k /\ disk[f].whole
<1>1. mem'[k] = IF \E f \in Files : Of(f)
                THEN disk[CHOOSE f \in Files : Of(f)].session ELSE NoSession
  BY DEF Load
<1>2. k # "none" /\ FileOf[k] \in Files
  BY StoreAssumption
<1>3. acked[k] \in Int /\ disk[FileOf[k]].session.updated \in Int
  BY <1>2, TimesAreIntegers
<1>4. CASE \E f \in Files : Of(f)
  <2>1. \A f \in Files : Of(f) => f = FileOf[k]
    BY <1>2 DEF FilesNamed
  <2>2. (CHOOSE f \in Files : Of(f)) = FileOf[k] /\ Of(FileOf[k])
    BY <1>4, <2>1
  <2>3. mem'[k] = disk[FileOf[k]].session /\ disk[FileOf[k]].key = k
    BY <1>1, <1>4, <2>2
  <2>4. mem'[k] \in past[k] /\ mem'[k].updated \in 0..ops
    BY <1>2, <2>3 DEF FilesNamed, FilesAreWhole
  <2>5. acked[k] =< mem'[k].updated
    <3>1. CASE acked[k] >= 0
      BY <1>3, <2>3, <3>1 DEF AckedSaveSurvives
    <3>2. CASE ~(acked[k] >= 0)
      BY <1>3, <2>4, <3>2
    <3>3. QED BY <3>1, <3>2
  <2>6. QED BY <2>3, <2>4, <2>5
<1>5. CASE ~\E f \in Files : Of(f)
  <2>1. mem'[k] = NoSession
    BY <1>1, <1>5
  <2>2. ~(acked[k] >= 0)
    BY <1>2, <1>5 DEF AckedSaveSurvives, FilesAreWhole
  <2>3. QED BY <1>3, <2>1, <2>2
<1>6. QED BY <1>4, <1>5

(* A restart.                                                              *)
LEMMA LoadKeeps ==
  ASSUME IndInv, Load
  PROVE  IndInv'
<1> USE DEF IndInv
<1>1. ~up /\ up' = TRUE /\ UNCHANGED <<disk, saver, ops, past, acked>>
  BY DEF Load
<1>2. \A k \in Keys : mem'[k] \in Session
  BY LoadReadsOwnFile, NoSessionTyped DEF TypeOK
<1>3. TypeOK'
  <2>1. mem' \in [Keys -> Session]
    BY <1>2 DEF Load
  <2>2. QED BY <1>1, <2>1 DEF TypeOK
<1>4. SaversCarryPast'
  BY <1>1 DEF SaversCarryPast
<1>5. MemoryIsCurrent'
  <2>1. SUFFICES ASSUME NEW k \in Keys
                 PROVE  /\ mem'[k] # NoSession => mem'[k] \in past[k] /\ mem'[k].updated \in 0..ops
                        /\ acked[k] =< mem'[k].updated
    BY <1>1 DEF MemoryIsCurrent
  <2>2. acked[k] \in Int /\ -1 =< acked[k]
    BY DEF TypeOK
  <2>3. CASE mem'[k] = NoSession /\ acked[k] < 0
    BY <2>2, <2>3 DEF NoSession
  <2>4. QED BY <2>3, LoadReadsOwnFile
<1>6. FilesNamed' /\ FilesAreWhole' /\ AckedSaveSurvives'
  BY <1>1 DEF FilesNamed, FilesAreWhole, AckedSaveSurvives
<1>7. QED BY <1>3, <1>4, <1>5, <1>6

(* Every step keeps the invariant.                                         *)
LEMMA StepKeeps ==
  ASSUME IndInv, [Next]_vars
  PROVE  IndInv'
<1>1. CASE Next
  <2>1. ASSUME NEW k \in Keys,
               \/ GetOrCreate(k) \/ AddFullMessage(k) \/ SetSummary(k)
               \/ TruncateHistory(k) \/ SetHistory(k)
        PROVE  IndInv'
    BY <2>1, OperationKeeps
  <2>2. ASSUME NEW k \in Keys, NEW p \in Savers, Snapshot(p, k) PROVE IndInv'
    BY <2>2, SnapshotKeeps
  <2>3. ASSUME NEW p \in Savers, WriteTemp(p) PROVE IndInv'
    BY <2>3, WriteKeeps
  <2>4. ASSUME NEW p \in Savers, SaveFails(p) PROVE IndInv'
    BY <2>4, FailKeeps
  <2>5. ASSUME NEW p \in Savers, Rename(p) PROVE IndInv'
    BY <2>5, RenameKeeps
  <2>6. CASE Crash
    BY <2>6, CrashKeeps
  <2>7. CASE Load
    BY <2>7, LoadKeeps
  <2>8. QED BY <1>1, <2>1, <2>2, <2>3, <2>4, <2>5, <2>6, <2>7 DEF Next
<1>2. CASE UNCHANGED vars
  BY <1>2 DEF vars, IndInv, TypeOK, SaversCarryPast, MemoryIsCurrent, FilesNamed,
              FilesAreWhole, AckedSaveSurvives
<1>3. QED BY <1>1, <1>2

(* The invariant of the store, for every set of keys, files and savers.    *)
THEOREM SessionInvariant == Spec => []IndInv
<1>1. Init => IndInv
  BY InitInv
<1>2. IndInv /\ [Next]_vars => IndInv'
  BY StepKeeps
<1>3. QED BY <1>1, <1>2, PTL DEF Spec

(* What a Save that ran alone has written is never replaced by something   *)
(* older (manager.go:173-233).                                             *)
THEOREM AckedSavesSurvive == Spec => []AckedSaveSurvives
<1>1. IndInv => AckedSaveSurvives
  BY DEF IndInv
<1>2. QED BY <1>1, SessionInvariant, PTL

(* A restart brings every session back under its own key, no older than    *)
(* its last undisturbed save (manager.go:151).                             *)
THEOREM RestartsMapBack == Spec => RestartMapsBack
<1>1. ASSUME IndInv, Next, ~up, up', NEW k \in Keys, acked[k] >= 0
      PROVE  mem'[k] \in past[k] /\ mem'[k].updated >= acked[k]
  <2>1. Load
    BY <1>1 DEF Next, GetOrCreate, AddFullMessage, SetSummary, TruncateHistory, SetHistory,
                Change, Snapshot, WriteTemp, SaveFails, Rename, Crash, IndInv, SaversCarryPast
  <2>2. acked[k] \in Int /\ ops \in Int
    BY <1>1, TimesAreIntegers DEF IndInv
  <2>3. QED BY <1>1, <2>1, <2>2, LoadReadsOwnFile
<1>2. IndInv /\ [Next]_vars =>
        [~up /\ up' => \A k \in Keys : acked[k] >= 0 => mem'[k] \in past[k] /\ mem'[k].updated >= acked[k]]_vars
  BY <1>1
<1>3. QED BY <1>2, SessionInvariant, PTL DEF Spec, RestartMapsBack
===============================================================================
