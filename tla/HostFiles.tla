----------------------------- MODULE HostFiles -----------------------------
(***************************************************************************)
(* Phases 0 and 5 of createPeerDBFirst together (internal/vpn/             *)
(* wireguard.go:201-222, 284-289): a call that holds the lock file         *)
(* replaces wg0.conf, one file operation at a time, and lets the lock go   *)
(* only when it returns.  The calls of two processes of the host share     *)
(* both files; a process that dies leaves its call and its write in the    *)
(* middle.                                                                 *)
(***************************************************************************)
EXTENDS FileLock, Sequences

CONSTANTS
  Writers,   \* the calls that get as far as phase 5
  Server, Piece, Absent

ASSUME HostFilesAssumption ==
  /\ Writers \subseteq Calls
  /\ Server \notin Writers /\ Piece \notin Writers \cup {Server}
  /\ Absent \notin Seq(Writers \cup {Server, Piece})

VARIABLES step, conf, backup, temps, data, last, faults

fileVars == <<step, conf, backup, temps, data, last, faults>>
hvars    == <<vars, fileVars>>

File == INSTANCE ConfigFile WITH Writes <- Writers, pc <- step

HTypeOK == TypeOK /\ File!TypeOK

HInit == Init /\ File!Init

Writing(c) == c \in Writers /\ step[c] \in File!Running

(* Phase 5, one file operation of it, by a call past phase 0.              *)
WriteStep(c) == pc[c] = "held" /\ File!Step(c) /\ UNCHANGED vars

(* Planted bug, as in PeerAllocation: the lock covers phase 0 only.        *)
UnlockEarly(c) == Unlock(c) /\ UNCHANGED fileVars

(* The deferred unlock runs when the function returns: without a write for *)
(* an error before phase 5, and never in the middle of one.                *)
ReturnUnlocks(c) == ~Writing(c) /\ Unlock(c) /\ UNCHANGED fileVars

CallMoves(c) ==
  \/ ReturnUnlocks(c)
  \/ (Receive(c) \/ Timeout(c) \/ Close(c)) /\ UNCHANGED fileVars

HostDies(p) ==
  LET dead == {c \in Writers : ProcOf[c] = p}
  IN  /\ Die(p)
      /\ IF \E c \in dead : Writing(c) THEN File!Die(dead)
                                       ELSE UNCHANGED fileVars

HNext ==
  \/ \E c \in Calls :
       \/ (Open(c) \/ OpenFails(c) \/ WaiterStep(c)) /\ UNCHANGED fileVars
       \/ CallMoves(c)
  \/ \E c \in Writers : WriteStep(c)
  \/ \E p \in Procs : HostDies(p)

HSpec == HInit /\ [][HNext]_hvars

(* As FileLock!FairSpec; and a write that began ends, since file           *)
(* operations return.                                                      *)
HFairSpec ==
  /\ HSpec
  /\ \A c \in Calls :
       /\ WF_hvars(CallMoves(c))
       /\ WF_hvars((StartFlock(c) \/ Grant(c) \/ ReturnFlock(c))
                   /\ UNCHANGED fileVars)
  /\ \A c \in Writers : WF_hvars(Writing(c) /\ WriteStep(c))

-----------------------------------------------------------------------------
(* No two writes are under way on the host, in one process or in two, so   *)
(* no write copies, renames or restores over the other's backup; the write *)
(* of a call that timed out, failed or died is over with it                *)
(* (wireguard.go:211-222, 284).                                            *)
WritesAreSerial ==
  \A c, d \in Writers : Writing(c) /\ Writing(d) => c = d

(* ConfigFile's properties, for the writes of the calls (see there).       *)
ReadersSeeCompleteText    == File!ReadersSeeCompleteText
LastGoodText              == File!LastGoodText
LeftoverTempExplained     == File!LeftoverTempExplained
=============================================================================
