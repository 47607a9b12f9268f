-------------------------- MODULE HostFiles_proof --------------------------
(***************************************************************************)
(* Proofs about HostFiles, for any set of calls, processes and writers:    *)
(* the lock serialises the writes of wg0.conf, and each write, whatever    *)
(* fails or dies in it, keeps the promises of ConfigFile.                  *)
(***************************************************************************)
EXTENDS HostFiles, FileLock_proof, Integers

-----------------------------------------------------------------------------
(* The lock.                                                               *)

(* The file operations leave the lock alone, and every other step of the   *)
(* host is one of FileLock.                                                *)
LEMMA HostStepsLock == [HNext]_hvars => [Next]_vars
<1> USE DEF vars, fileVars, hvars
<1>1. ASSUME NEW c \in Calls, CallMoves(c) PROVE [Next]_vars
  BY <1>1 DEF CallMoves, ReturnUnlocks, Next, CallStep
<1>2. ASSUME NEW c \in Calls,
             (Open(c) \/ OpenFails(c) \/ WaiterStep(c)) /\ UNCHANGED fileVars
      PROVE  [Next]_vars
  BY <1>2 DEF Next
<1>3. ASSUME NEW c \in Writers, WriteStep(c) PROVE [Next]_vars
  BY <1>3 DEF WriteStep
<1>4. ASSUME NEW p \in Procs, HostDies(p) PROVE [Next]_vars
  BY <1>4 DEF HostDies, Next
<1>5. QED
  BY <1>1, <1>2, <1>3, <1>4 DEF HNext

LEMMA HostLock == HSpec => []LockInv
<1>1. HInit => LockInv
  BY LockInit DEF HInit
<1>2. LockInv /\ [HNext]_hvars => LockInv'
  BY LockNext, HostStepsLock
<1>3. QED
  BY <1>1, <1>2, PTL DEF HSpec

(* The host's calls behave as FileLock's.                                  *)
THEOREM HostImplementsLock == HSpec => Spec
<1>1. HInit => Init
  BY DEF HInit
<1>2. QED
  BY <1>1, HostStepsLock, PTL DEF HSpec, Spec

(* HeldIsOwned, with the writes: a call past phase 0 owns the flock.       *)
THEOREM HostHeldOwnsLock == HSpec => []HeldIsOwned
BY HostImplementsLock, HeldOwnsLock, PTL

(* ImplementsLockService, with the writes.                                 *)
THEOREM HostImplementsService == HSpec => ImplementsLockService
BY HostImplementsLock, FlockImplementsService, PTL

-----------------------------------------------------------------------------
(* Writes are serial.                                                      *)

(* A write is under way only while its call holds the lock.                *)
WriteInv == \A c \in Writers : Writing(c) => pc[c] = "held"

Files == Seq(File!Texts) \cup {Absent}

FileTyped ==
  /\ step \in [Writers -> File!Running \cup {"idle", "ok", "failed", "dead"}]
  /\ conf \in Files /\ backup \in Files
  /\ data \in [Writers -> Files]
  /\ temps \subseteq Writers
  /\ last \in Writers \cup {Server}
  /\ faults \subseteq File!Faults

(* What a write may leave in a file.                                       *)
LEMMA FileTexts ==
  ASSUME NEW t \in File!Texts
  PROVE  /\ << >> \in Files /\ <<t>> \in Files /\ Absent \in Files
         /\ \A f \in Files :
              Append(IF f = Absent THEN << >> ELSE f, t) \in Files
BY DEF Files

LEMMA FileTypedInit == HInit => FileTyped
<1>1. Server \in File!Texts
  BY DEF File!Texts
<1>2. QED
  BY <1>1, FileTexts DEF HInit, File!Init, FileTyped, File!Running

LEMMA FileTypedStep ==
  ASSUME FileTyped, NEW w \in Writers, File!Step(w)
  PROVE  FileTyped'
<1> USE DEF FileTyped, File!Goto, File!Fails, File!ReturnFailed, File!history,
            File!Faults, File!Running
<1> DEFINE held == IF conf = Absent THEN << >> ELSE conf
<1>0. /\ {Absent, << >>, <<w>>, <<Piece>>} \subseteq Files
      /\ {held, Append(held, w), Append(held, Piece)} \subseteq Files
  <2>1. w \in File!Texts /\ Piece \in File!Texts
    BY DEF File!Texts
  <2>2. QED
    BY <2>1, FileTexts
<1>1. CASE File!Begin(w)
  BY <1>1 DEF File!Begin
<1>2. CASE File!Append1(w)
  BY <1>0, <1>2 DEF File!Append1
<1>3. CASE File!FillTemp(w)
  BY <1>3 DEF File!FillTemp
<1>4. CASE File!ReadForBackup(w)
  BY <1>0, <1>4 DEF File!ReadForBackup
<1>5. CASE File!FillBackup(w)
  BY <1>0, <1>5 DEF File!FillBackup
<1>6. CASE File!Rename(w)
  BY <1>0, <1>6 DEF File!Rename
<1>7. CASE File!ReadForRestore(w)
  <2>1. faults' \subseteq File!Faults /\ temps' \subseteq Writers
    BY <1>7 DEF File!ReadForRestore
  <2>2. QED
    BY <1>0, <1>7, <2>1 DEF File!ReadForRestore
<1>8. CASE File!FillRestore(w)
  <2>1. faults' \subseteq File!Faults /\ temps' \subseteq Writers
    BY <1>8 DEF File!FillRestore
  <2>2. QED
    BY <1>0, <1>8, <2>1 DEF File!FillRestore
<1>9. QED
  BY <1>1, <1>2, <1>3, <1>4, <1>5, <1>6, <1>7, <1>8 DEF File!Step

(* A temporary file is there for a write to fill and rename, or for one of *)
(* the two reasons it may be left behind.                                  *)
TempInv ==
  \A w \in temps :
    \/ step[w] \in File!Running \ {"append"}
    \/ step[w] = "dead" /\ "die" \in faults
    \/ step[w] = "failed" /\ "remove" \in faults

(* Without a failed rename or CreateTemp nothing opens wg0.conf to write.  *)
ReadersInv ==
  faults \cap {"temp", "rename"} = {} =>
    /\ conf \in File!Complete
    /\ \A w \in Writers : step[w] \notin {"append", "restore", "refill"}

(* A text is in a file.                                                    *)
Has(f, t) == f # Absent /\ \E i \in 1..Len(f) : f[i] = t

(* Until a second fault follows a failed rename: wg0.conf has the last     *)
(* text, unless a restore has truncated it, which then has it in memory;   *)
(* the backup is a copy from the end of its copying to its use.            *)
GoodInv ==
  ("rename" \in faults => faults \cap {"copy", "die"} = {}) =>
    /\ (\A w \in Writers : step[w] # "refill") => Has(conf, last)
    /\ \A w \in Writers :
         /\ step[w] = "overwrite" => data[w] = conf
         /\ step[w] \in {"rename", "restore"} /\ "copy" \notin faults
              => backup = conf
         /\ step[w] \in {"restore", "refill"} => "rename" \in faults
         /\ step[w] = "refill" => Has(data[w], last)

FileInv == TempInv /\ ReadersInv /\ GoodInv

LEMMA FileInvInit == HInit => FileInv
<1> SUFFICES ASSUME HInit PROVE FileInv
  OBVIOUS
<1> USE DEF HInit, File!Init
<1>1. TempInv
  BY DEF TempInv
<1>2. ReadersInv
  BY DEF ReadersInv, File!Complete
<1>3. Has(conf, last)
  <2>1. <<Server>> # Absent
    <3>1. Server \in Writers \cup {Server, Piece}
      OBVIOUS
    <3>2. <<Server>> \in Seq(Writers \cup {Server, Piece})
      BY <3>1
    <3>3. QED
      BY <3>2, HostFilesAssumption
  <2>2. QED
    BY <2>1 DEF Has
<1>4. QED
  BY <1>1, <1>2, <1>3 DEF FileInv, GoodInv

LEMMA TempStep ==
  ASSUME FileTyped, TempInv, NEW w \in Writers, File!Step(w)
  PROVE  TempInv'
<1> USE DEF FileTyped, TempInv, File!Running, File!Goto, File!ReturnFailed,
            File!Fails, File!history
<1>1. CASE File!Begin(w)
  BY <1>1 DEF File!Begin
<1>2. CASE File!Append1(w)
  BY <1>2 DEF File!Append1
<1>3. CASE File!FillTemp(w)
  BY <1>3 DEF File!FillTemp
<1>4. CASE File!ReadForBackup(w)
  BY <1>4 DEF File!ReadForBackup
<1>5. CASE File!FillBackup(w)
  BY <1>5 DEF File!FillBackup
<1>6. CASE File!Rename(w)
  BY <1>6 DEF File!Rename
<1>7. CASE File!ReadForRestore(w)
  BY <1>7 DEF File!ReadForRestore
<1>8. CASE File!FillRestore(w)
  BY <1>8 DEF File!FillRestore
<1>9. QED
  BY <1>1, <1>2, <1>3, <1>4, <1>5, <1>6, <1>7, <1>8 DEF File!Step

LEMMA ReadersStep ==
  ASSUME FileTyped, ReadersInv, NEW w \in Writers, File!Step(w)
  PROVE  ReadersInv'
<1> USE DEF FileTyped, ReadersInv, File!Running, File!Goto, File!ReturnFailed,
            File!Fails, File!history
<1> HIDE DEF File!Complete
<1>1. CASE File!Begin(w)
  BY <1>1 DEF File!Begin
<1>2. CASE File!Append1(w)
  BY <1>2 DEF File!Append1
<1>3. CASE File!FillTemp(w)
  BY <1>3 DEF File!FillTemp
<1>4. CASE File!ReadForBackup(w)
  BY <1>4 DEF File!ReadForBackup
<1>5. CASE File!FillBackup(w)
  BY <1>5 DEF File!FillBackup
<1>6. CASE File!Rename(w)
  <2>1. <<w>> \in File!Complete
    BY DEF File!Complete
  <2>2. QED
    BY <1>6, <2>1 DEF File!Rename
<1>7. CASE File!ReadForRestore(w)
  BY <1>7 DEF File!ReadForRestore
<1>8. CASE File!FillRestore(w)
  BY <1>8 DEF File!FillRestore
<1>9. QED
  BY <1>1, <1>2, <1>3, <1>4, <1>5, <1>6, <1>7, <1>8 DEF File!Step

(* Appending puts a text into a file and takes none out of it.             *)
LEMMA HasAppended ==
  ASSUME NEW f \in Files, NEW t \in File!Texts
  PROVE  /\ Has(<<t>>, t)
         /\ Has(Append(IF f = Absent THEN << >> ELSE f, t), t)
         /\ \A u : Has(f, u) => Has(Append(f, t), u)
<1> DEFINE held == IF f = Absent THEN << >> ELSE f
<1>1. held \in Seq(File!Texts)
  BY DEF Files
<1>2. Absent \notin Seq(File!Texts)
  BY HostFilesAssumption DEF File!Texts
<1> HIDE DEF held
<1>3. Append(held, t) # Absent /\ <<t>> # Absent
  <2>1. Append(held, t) \in Seq(File!Texts) /\ <<t>> \in Seq(File!Texts)
    BY <1>1
  <2>2. QED
    BY <1>2, <2>1
<1>4. /\ Len(held) + 1 \in 1..Len(Append(held, t))
      /\ Append(held, t)[Len(held) + 1] = t
  BY <1>1
<1>5. Has(Append(held, t), t)
  BY <1>3, <1>4 DEF Has
<1>6. Has(<<t>>, t)
  <2>1. 1 \in 1..Len(<<t>>) /\ <<t>>[1] = t
    OBVIOUS
  <2>2. QED
    BY <1>3, <2>1 DEF Has
<1>7. ASSUME NEW u, Has(f, u) PROVE Has(Append(f, t), u)
  <2>1. f = held
    BY <1>7 DEF Has, held
  <2>2. PICK i \in 1..Len(held) : held[i] = u
    BY <1>7, <2>1 DEF Has
  <2>3. i \in 1..Len(Append(held, t)) /\ Append(held, t)[i] = u
    BY <1>1, <2>2
  <2>4. QED
    BY <1>3, <2>1, <2>3 DEF Has
<1>8. QED
  BY <1>5, <1>6, <1>7 DEF held

LEMMA GoodStep ==
  ASSUME FileTyped, GoodInv, NEW w \in Writers, File!Step(w),
         \A v \in Writers \ {w} : step[v] \notin File!Running
  PROVE  GoodInv'
<1> USE DEF FileTyped, GoodInv, File!Running, File!Goto, File!ReturnFailed,
            File!Fails, File!history
<1> DEFINE held == IF conf = Absent THEN << >> ELSE conf
<1>0. w \in File!Texts /\ Piece \in File!Texts
  BY DEF File!Texts
<1>1. CASE File!Begin(w)
  BY <1>1 DEF File!Begin
<1>2. CASE File!Append1(w)
  <2>1. Has(Append(held, w), w)
    BY <1>0, HasAppended
  <2>2. Has(conf, last) => conf = held /\ Has(Append(held, Piece), last)
    <3>1. Has(conf, last) => conf = held
      BY DEF Has
    <3>2. Has(conf, last) => Has(Append(conf, Piece), last)
      BY <1>0, HasAppended
    <3> HIDE DEF held
    <3>3. QED
      BY <3>1, <3>2
  <2> HIDE DEF held
  <2>3. /\ step' = [step EXCEPT ![w] = "ok"] \/ step' = [step EXCEPT ![w] = "failed"]
        /\ UNCHANGED <<backup, data, faults>>
        /\ \/ conf' = Append(held, w) /\ last' = w
           \/ conf' \in {conf, held, Append(held, Piece)} /\ last' = last
    BY <1>2 DEF File!Append1, held
  <2>4. \A v \in Writers : step'[v] \notin {"overwrite", "rename", "restore", "refill"}
    BY <2>3
  <2>5. Has(conf, last) => Has(conf', last')
    <3>1. CASE conf' = Append(held, w) /\ last' = w
      BY <2>1, <3>1
    <3>2. CASE conf' \in {conf, held, Append(held, Piece)} /\ last' = last
      BY <2>2, <3>2
    <3>3. QED
      BY <2>3, <3>1, <3>2
  <2>6. \A v \in Writers : step[v] # "refill"
    BY <1>2 DEF File!Append1
  <2>7. QED
    BY <2>3, <2>4, <2>5, <2>6
<1>3. CASE File!FillTemp(w)
  BY <1>3 DEF File!FillTemp
<1>4. CASE File!ReadForBackup(w)
  BY <1>4 DEF File!ReadForBackup, Has
<1>5. CASE File!FillBackup(w)
  BY <1>5 DEF File!FillBackup
<1>6. CASE File!Rename(w)
  <2>1. Has(<<w>>, w)
    BY <1>0, HasAppended
  <2>2. QED
    BY <1>6, <2>1 DEF File!Rename
<1>7. CASE File!ReadForRestore(w)
  BY <1>7 DEF File!ReadForRestore, Has
<1>8. CASE File!FillRestore(w)
  BY <1>8 DEF File!FillRestore
<1>9. QED
  BY <1>1, <1>2, <1>3, <1>4, <1>5, <1>6, <1>7, <1>8 DEF File!Step

(* A death leaves the files as they are.                                   *)
LEMMA FileDeath ==
  ASSUME FileTyped, FileInv, NEW dead \in SUBSET Writers, File!Die(dead)
  PROVE  FileTyped' /\ FileInv'
<1> USE DEF FileTyped, FileInv, File!Running, File!Fails, File!Die
<1>1. FileTyped'
  <2>1. Absent \in Files
    BY DEF Files
  <2>2. data' \in [Writers -> Files]
    BY <2>1
  <2>3. QED
    BY <2>2 DEF File!Faults
<1>2. TempInv'
  BY DEF TempInv
<1>3. ReadersInv'
  BY DEF ReadersInv
<1>4. GoodInv'
  BY DEF GoodInv
<1>5. QED
  BY <1>1, <1>2, <1>3, <1>4

-----------------------------------------------------------------------------
(* Both together.                                                          *)
HostInv == LockInv /\ WriteInv /\ FileTyped /\ FileInv

LEMMA HostInit == HInit => HostInv
<1> SUFFICES ASSUME HInit PROVE HostInv
  OBVIOUS
<1>1. WriteInv
  BY DEF HInit, File!Init, WriteInv, Writing, File!Running
<1>2. QED
  BY <1>1, LockInit, FileTypedInit, FileInvInit DEF HInit, HostInv

(* A call that holds the lock is the only one that writes.                 *)
LEMMA OneWriter ==
  ASSUME LockInv, WriteInv, NEW c \in Calls, pc[c] = "held"
  PROVE  \A d \in Writers \ {c} : step[d] \notin File!Running
<1>1. \A d \in Calls : pc[d] = "held" => d = c
  BY DEF LockInv, OwnerInv
<1>2. QED
  BY <1>1, HostFilesAssumption DEF WriteInv, Writing

LEMMA HostNext == HostInv /\ [HNext]_hvars => HostInv'
<1> SUFFICES ASSUME HostInv, [HNext]_hvars PROVE HostInv'
  OBVIOUS
<1> USE HostFilesAssumption DEF HostInv
<1>0. LockInv'
  BY LockNext, HostStepsLock
<1>1. ASSUME UNCHANGED fileVars PROVE FileTyped' /\ FileInv'
  BY <1>1 DEF fileVars, FileTyped, FileInv, TempInv, ReadersInv, GoodInv, Has
<1>2. ASSUME NEW c \in Calls,
             (Open(c) \/ OpenFails(c) \/ WaiterStep(c)) /\ UNCHANGED fileVars
      PROVE  WriteInv'
  BY <1>2 DEF Open, OpenFails, WaiterStep, StartFlock, Grant, FlockFails,
              ReturnFlock, Goto, fileVars, WriteInv, Writing, LockInv, TypeOK
<1>3. ASSUME NEW c \in Calls, CallMoves(c) PROVE WriteInv' /\ UNCHANGED fileVars
  BY <1>3 DEF CallMoves, ReturnUnlocks, Receive, Timeout, Unlock, Close, Goto,
              fileVars, WriteInv, Writing, LockInv, TypeOK
<1>4. ASSUME NEW c \in Writers, WriteStep(c) PROVE HostInv'
  <2>1. pc[c] = "held" /\ File!Step(c) /\ pc' = pc
    BY <1>4 DEF WriteStep, vars
  <2>2. \A d \in Writers \ {c} : step[d] \notin File!Running
    BY <2>1, OneWriter
  <2>3. FileTyped' /\ FileInv'
    BY <2>1, <2>2, FileTypedStep, TempStep, ReadersStep, GoodStep DEF FileInv
  <2>4. \A d \in Writers \ {c} : step'[d] = step[d]
    BY <2>1 DEF FileTyped, File!Step, File!Begin, File!Append1, File!FillTemp,
                File!ReadForBackup, File!FillBackup, File!Rename,
                File!ReadForRestore, File!FillRestore, File!Goto, File!ReturnFailed
  <2>5. WriteInv'
    BY <2>1, <2>2, <2>4 DEF WriteInv, Writing
  <2>6. QED
    BY <1>0, <2>3, <2>5
<1>5. ASSUME NEW p \in Procs, HostDies(p) PROVE HostInv'
  <2> DEFINE dead == {c \in Writers : ProcOf[c] = p}
  <2>1. CASE \E c \in dead : Writing(c)
    <3>1. File!Die(dead) /\ Die(p)
      BY <1>5, <2>1 DEF HostDies
    <3>2. FileTyped' /\ FileInv'
      BY <3>1, FileDeath
    <3>3. \A c \in Writers \ dead : step'[c] = step[c] /\ pc'[c] = pc[c]
      BY <3>1 DEF File!Die, Die
    <3>4. \A c \in dead : step'[c] \notin File!Running
      BY <3>1 DEF File!Die, File!Running
    <3>5. WriteInv'
      BY <3>3, <3>4 DEF WriteInv, Writing
    <3>6. QED
      BY <1>0, <3>2, <3>5
  <2>2. CASE ~ \E c \in dead : Writing(c)
    <3>1. UNCHANGED fileVars /\ Die(p)
      BY <1>5, <2>2 DEF HostDies
    <3>2. \A c \in Writers \ dead : pc'[c] = pc[c]
      BY <3>1 DEF Die
    <3>3. WriteInv'
      BY <2>2, <3>1, <3>2 DEF WriteInv, Writing, fileVars
    <3>4. QED
      BY <1>0, <1>1, <3>1, <3>3
  <2>3. QED
    BY <2>1, <2>2
<1>6. CASE UNCHANGED hvars
  BY <1>0, <1>1, <1>6 DEF hvars, vars, fileVars, WriteInv, Writing
<1>7. QED
  BY <1>0, <1>1, <1>2, <1>3, <1>4, <1>5, <1>6 DEF HNext

LEMMA HostInvariant == HSpec => []HostInv
BY HostInit, HostNext, PTL DEF HSpec

(* HTypeOK: the calls, their goroutines and the files keep their types.    *)
THEOREM HostTypeCorrect == HSpec => []HTypeOK
<1>1. HostInv => HTypeOK
  BY DEF HostInv, LockInv, FileTyped, Files, HTypeOK, File!TypeOK, File!IsFile
<1>2. QED
  BY <1>1, HostInvariant, PTL

(* WritesAreSerial: the lock file keeps the writes of all processes apart, *)
(* whatever times out, fails or dies.                                      *)
THEOREM LockSerialisesWrites == HSpec => []WritesAreSerial
<1>1. HostInv => WritesAreSerial
  <2> SUFFICES ASSUME HostInv, NEW c \in Writers, NEW d \in Writers,
                      Writing(c), Writing(d)
               PROVE  c = d
    BY DEF WritesAreSerial
  <2>1. pc[c] = "held"
    BY DEF HostInv, WriteInv
  <2>2. QED
    BY <2>1, OneWriter, HostFilesAssumption DEF HostInv, Writing
<1>2. QED
  BY <1>1, HostInvariant, PTL

(* ReadersSeeCompleteText: while temporary files can be made and renamed,  *)
(* nobody reads half a configuration, even after a crash.                  *)
THEOREM ReadersComplete == HSpec => []ReadersSeeCompleteText
<1>1. HostInv => ReadersSeeCompleteText
  BY DEF HostInv, FileInv, ReadersInv, ReadersSeeCompleteText,
         File!ReadersSeeCompleteText
<1>2. QED
  BY <1>1, HostInvariant, PTL

(* LastGoodText: what a creation that succeeded wrote survives any single  *)
(* fault of a later one; a failed rename is undone from the backup.        *)
THEOREM LastTextSurvives == HSpec => []LastGoodText
<1>1. HostInv => LastGoodText
  BY DEF HostInv, FileInv, GoodInv, Has, LastGoodText, File!LastGoodText,
         File!Running
<1>2. QED
  BY <1>1, HostInvariant, PTL

(* LeftoverTempExplained: a temporary file stays behind a dead process, or *)
(* a write that failed and could not remove it, and never behind a write   *)
(* that succeeded.                                                         *)
THEOREM TempsAreRemoved == HSpec => []LeftoverTempExplained
<1>1. HostInv => LeftoverTempExplained
  BY DEF HostInv, FileInv, TempInv, LeftoverTempExplained,
         File!LeftoverTempExplained
<1>2. QED
  BY <1>1, HostInvariant, PTL
=============================================================================
