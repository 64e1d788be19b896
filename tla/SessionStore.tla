----------------------------- MODULE SessionStore -----------------------------
(***************************************************************************)
(* pkg/session/manager.go: sessions in memory under one RWMutex, and Save, *)
(* which copies a session under the read lock and then, without any lock,  *)
(* writes the copy to a temporary file and renames it over the session's   *)
(* file.  Every goroutine that ends a turn, compresses or summarizes calls *)
(* Save.  The process may crash at any point and start again from the      *)
(* files.                                                                  *)
(*                                                                         *)
(* An operation under the lock is one action.  A session's content is what *)
(* the operations made of it; each change is numbered, and the number is   *)
(* the session's Updated time.                                             *)
(***************************************************************************)
EXTENDS Integers, Sequences

CONSTANTS Keys,      \* session keys
          Files,     \* file names in the storage directory
          FileOf,    \* [Keys -> Files]: sanitizeFilename
          Rejected,  \* keys whose file name Save refuses (IsLocal, "/", "\")
          Savers,    \* goroutines that call Save
          Keep,      \* 4 in the code: TruncateHistory's keepLast
          MaxOps     \* bound: changes to sessions

ASSUME StoreAssumption ==
  /\ FileOf \in [Keys -> Files]
  /\ Rejected \subseteq Keys
  /\ Keep \in Nat \ {0} /\ MaxOps \in Nat
  /\ "none" \notin Keys

(* Keys that Save accepts have files of their own.  sanitizeFilename only  *)
(* turns ':' into '_', so this is true of keys that do not differ in just  *)
(* that.                                                                   *)
ASSUME OwnFileAssumption ==
  \A j, k \in Keys \ Rejected : FileOf[j] = FileOf[k] => j = k

VARIABLES
  mem,     \* [Keys -> session in memory, or NoSession]
  disk,    \* [Files -> [key, session, whole]], or NoFile
  saver,   \* [Savers -> a Save call in progress]
  ops,     \* changes made so far
  up,      \* the process is running
  past,    \* history: every content each session ever had in memory
  acked    \* history: Updated of the last save that nothing overlapped

vars == <<mem, disk, saver, ops, up, past, acked>>

NoSession == [msgs |-> <<>>, summary |-> 0, updated |-> -1]
NewSession == [msgs |-> <<>>, summary |-> 0, updated |-> 0]
NoFile == [key |-> "none", session |-> NoSession, whole |-> TRUE]
NotSaving == [at |-> "idle", key |-> "none", snap |-> NoSession, whole |-> FALSE, alone |-> TRUE]

Init ==
  /\ mem = [k \in Keys |-> NoSession]
  /\ disk = [f \in Files |-> NoFile]
  /\ saver = [p \in Savers |-> NotSaving]
  /\ ops = 0
  /\ up = TRUE
  /\ past = [k \in Keys |-> {}]
  /\ acked = [k \in Keys |-> -1]

Exists(k) == mem[k] # NoSession

-------------------------------------------------------------------------------
(* Operations on the session in memory, each under the write lock          *)

Put(k, s) ==
  /\ mem' = [mem EXCEPT ![k] = s]
  /\ past' = [past EXCEPT ![k] = @ \cup {s}]
  /\ UNCHANGED <<disk, saver, up, acked>>

(* Every operation but GetOrCreate stamps the session.                     *)
Change(k, s) ==
  /\ up /\ ops < MaxOps
  /\ ops' = ops + 1
  /\ Put(k, [s EXCEPT !.updated = ops + 1])

GetOrCreate(k) == up /\ ~Exists(k) /\ UNCHANGED ops /\ Put(k, NewSession)

AddFullMessage(k) ==
  LET s == IF Exists(k) THEN mem[k] ELSE NewSession
  IN Change(k, [s EXCEPT !.msgs = Append(@, ops + 1)])

SetSummary(k) == Exists(k) /\ Change(k, [mem[k] EXCEPT !.summary = ops + 1])

TruncateHistory(k) ==
  LET n == Len(mem[k].msgs)
  IN /\ n > Keep
     /\ Change(k, [mem[k] EXCEPT !.msgs = SubSeq(@, n - Keep + 1, n)])

(* SetHistory with a history its caller read earlier: any past content.    *)
SetHistory(k) ==
  /\ Exists(k)
  /\ \E s \in past[k] : Change(k, [mem[k] EXCEPT !.msgs = s.msgs])

-------------------------------------------------------------------------------
(* Save                                                                    *)

Saving(k) == {p \in Savers : saver[p].at # "idle" /\ saver[p].key = k}

(* Mutant: the copy is what the session's file last held.                  *)
SnapshotOfFile(p, k) ==
  /\ up /\ saver[p].at = "idle"
  /\ k \notin Rejected /\ Exists(k)
  /\ saver' = [q \in Savers |->
                 IF q = p THEN [at |-> "write", key |-> k, snap |-> disk[FileOf[k]].session,
                                whole |-> FALSE, alone |-> Saving(k) = {}]
                 ELSE IF q \in Saving(k) THEN [saver[q] EXCEPT !.alone = FALSE]
                 ELSE saver[q]]
  /\ UNCHANGED <<mem, disk, ops, up, past, acked>>

(* The copy under the read lock.  A rejected file name or an unknown key   *)
(* returns before it.                                                      *)
Snapshot(p, k) ==
  /\ up /\ saver[p].at = "idle"
  /\ k \notin Rejected /\ Exists(k)
  /\ saver' = [q \in Savers |->
                 IF q = p THEN [at |-> "write", key |-> k, snap |-> mem[k],
                                whole |-> FALSE, alone |-> Saving(k) = {}]
                 ELSE IF q \in Saving(k) THEN [saver[q] EXCEPT !.alone = FALSE]
                 ELSE saver[q]]
  /\ UNCHANGED <<mem, disk, ops, up, past, acked>>

(* Write, Chmod, Sync and Close of the temporary file; a failure removes   *)
(* it and returns the error.                                               *)
WriteTemp(p) ==
  /\ saver[p].at = "write"
  /\ saver' = [saver EXCEPT ![p].at = "rename", ![p].whole = TRUE]
  /\ UNCHANGED <<mem, disk, ops, up, past, acked>>

(* Mutant: the cleanup of a failed save removes the session's file.        *)
SaveFailsRemoves(p) ==
  /\ saver[p].at \in {"write", "rename"}
  /\ disk' = [disk EXCEPT ![FileOf[saver[p].key]] = NoFile]
  /\ saver' = [saver EXCEPT ![p] = NotSaving]
  /\ UNCHANGED <<mem, ops, up, past, acked>>

SaveFails(p) ==
  /\ saver[p].at \in {"write", "rename"}
  /\ saver' = [saver EXCEPT ![p] = NotSaving]
  /\ UNCHANGED <<mem, disk, ops, up, past, acked>>

(* os.Rename: atomic, also with respect to a crash.                        *)
Rename(p) ==
  /\ saver[p].at = "rename"
  /\ LET k == saver[p].key
     IN /\ disk' = [disk EXCEPT ![FileOf[k]] =
                     [key |-> k, session |-> saver[p].snap, whole |-> saver[p].whole]]
        /\ acked' = [acked EXCEPT ![k] = IF saver[p].alone THEN saver[p].snap.updated ELSE @]
  /\ saver' = [saver EXCEPT ![p] = NotSaving]
  /\ UNCHANGED <<mem, ops, up, past>>

-------------------------------------------------------------------------------
(* The process dies; temporary files that stay behind are never read.      *)
Crash ==
  /\ up
  /\ up' = FALSE
  /\ mem' = [k \in Keys |-> NoSession]
  /\ saver' = [p \in Savers |-> NotSaving]
  /\ UNCHANGED <<disk, ops, past, acked>>

(* Mutant: loadSessions takes the key from the file name, and no key with  *)
(* a ':' is a file name.                                                   *)
LoadByFileName ==
  /\ ~up
  /\ up' = TRUE
  /\ mem' = [k \in Keys |-> NoSession]
  /\ UNCHANGED <<disk, saver, ops, past, acked>>

(* loadSessions: every file that parses becomes the session it names.      *)
Load ==
  /\ ~up
  /\ up' = TRUE
  /\ mem' = [k \in Keys |->
               IF \E f \in Files : disk[f].key = k /\ disk[f].whole
               THEN disk[CHOOSE f \in Files : disk[f].key = k /\ disk[f].whole].session
               ELSE NoSession]
  /\ UNCHANGED <<disk, saver, ops, past, acked>>

-------------------------------------------------------------------------------
Next ==
  \/ \E k \in Keys : \/ GetOrCreate(k) \/ AddFullMessage(k) \/ SetSummary(k)
                     \/ TruncateHistory(k) \/ SetHistory(k)
                     \/ \E p \in Savers : Snapshot(p, k)
  \/ \E p \in Savers : WriteTemp(p) \/ SaveFails(p) \/ Rename(p)
  \/ Crash \/ Load

Spec == Init /\ [][Next]_vars

-------------------------------------------------------------------------------
Session == [msgs: Seq(1..MaxOps), summary: 0..MaxOps, updated: -1..MaxOps]

(* The shape of memory, files and Save calls (manager.go:14-26, 158).      *)
TypeOK ==
  /\ mem \in [Keys -> Session]
  /\ disk \in [Files -> [key: Keys \cup {"none"}, session: Session, whole: BOOLEAN]]
  /\ saver \in [Savers -> [at: {"idle", "write", "rename"}, key: Keys \cup {"none"},
                           snap: Session, whole: BOOLEAN, alone: BOOLEAN]]
  /\ ops \in 0..MaxOps /\ up \in BOOLEAN
  /\ past \in [Keys -> SUBSET Session]
  /\ acked \in [Keys -> -1..MaxOps]

(* A session file is always a complete copy of a state that its session    *)
(* really had: a crash, a failed write or a concurrent Save never leaves a *)
(* torn or mixed file (manager.go:173-233).                                *)
FilesAreWhole ==
  \A f \in Files :
    disk[f].key # "none" => disk[f].whole /\ disk[f].session \in past[disk[f].key]

(* What a Save that ran alone has written is never replaced by something   *)
(* older, and so survives every crash (manager.go:173-233).  Two saves of  *)
(* one key that overlap may rename in either order.                        *)
AckedSaveSurvives ==
  \A k \in Keys :
    acked[k] >= 0 => disk[FileOf[k]].key = k /\ disk[FileOf[k]].session.updated >= acked[k]

(* A restart brings every session back under its own key, no older than    *)
(* its last undisturbed save (manager.go:151: "loadSessions still maps     *)
(* back to the right in-memory key").                                      *)
RestartMapsBack ==
  [][~up /\ up' =>
       \A k \in Keys : acked[k] >= 0 => mem'[k] \in past[k] /\ mem'[k].updated >= acked[k]]_vars

-------------------------------------------------------------------------------
(* What a Save in progress carries: a state its session had, no older than *)
(* the last undisturbed save and no newer than the session in memory; a    *)
(* save that counts itself alone is.                                       *)
SaversCarryPast ==
  \A p \in Savers :
    LET sv == saver[p]
    IN sv.at # "idle" =>
         /\ up /\ sv.key \in Keys \ Rejected
         /\ sv.snap \in past[sv.key] /\ sv.snap.updated >= 0
         /\ acked[sv.key] =< sv.snap.updated /\ sv.snap.updated =< mem[sv.key].updated
         /\ sv.at = "rename" => sv.whole
         /\ sv.alone => \A q \in Savers \ {p} : saver[q].at = "idle" \/ saver[q].key # sv.key

(* Memory holds states of the past, no older than the last undisturbed     *)
(* save of each session.                                                   *)
MemoryIsCurrent ==
  \A k \in Keys :
    /\ mem[k] # NoSession => mem[k] \in past[k] /\ mem[k].updated \in 0..ops
    /\ up => acked[k] =< mem[k].updated

(* A file carries the key it is named after, one that Save accepts.        *)
FilesNamed ==
  \A f \in Files : disk[f].key # "none" =>
    /\ disk[f].key \notin Rejected /\ FileOf[disk[f].key] = f
    /\ disk[f].session.updated \in 0..ops

IndInv == /\ TypeOK /\ SaversCarryPast /\ MemoryIsCurrent /\ FilesNamed
          /\ FilesAreWhole /\ AckedSaveSurvives
===============================================================================
