----------------------------- MODULE ConfigFile -----------------------------
(***************************************************************************)
(* writePeerConfigAtomic, its fallbacks and copyFile (internal/vpn/        *)
(* wireguard.go:314-375): how phase 5 of a creation replaces wg0.conf,     *)
(* one file operation at a time, with the process dying between any two.   *)
(*                                                                         *)
(* A file is the sequence of texts it holds; a text is the server's own    *)
(* configuration, the client configuration one write brings, or a piece of *)
(* either that a failed write left behind.  Nothing here keeps two writes  *)
(* apart: the lock file does, where there is one (HostFiles).              *)
(***************************************************************************)
EXTENDS Naturals, Sequences

CONSTANTS
  Writes,       \* calls of writePeerConfigAtomic
  Server,       \* the text the server was installed with
  Piece,        \* an incomplete text
  Absent        \* stands for "no such file"

VARIABLES
  pc,       \* step of each write
  conf,     \* wg0.conf
  backup,   \* wg0.conf.backup
  temps,    \* writes whose temporary file exists
  data,     \* what a copyFile under way has read, for each write
  last,     \* the write that succeeded last, or Server (history)
  faults    \* what has gone wrong so far (history)

history == <<last, faults>>
vars == <<pc, conf, backup, temps, data, history>>

Texts    == Writes \cup {Server, Piece}
Complete == {<<t>> : t \in Writes \cup {Server}}

Running == {"fill", "append", "backup", "overwrite", "rename", "restore", "refill"}

(* copyFile fails: disk full, no permission; os.Rename, os.CreateTemp,     *)
(* os.Remove; the process dies.                                            *)
Faults == {"copy", "rename", "temp", "remove", "die"}

(* A file grows only by append, one text per write.                        *)
IsFile(f) == f = Absent \/ f \in Seq(Texts)

TypeOK ==
  /\ pc \in [Writes -> Running \cup {"idle", "ok", "failed", "dead"}]
  /\ IsFile(conf) /\ IsFile(backup)
  /\ temps \subseteq Writes
  /\ \A w \in Writes : IsFile(data[w])
  /\ last \in Writes \cup {Server}
  /\ faults \subseteq Faults

Init ==
  /\ pc = [w \in Writes |-> "idle"]
  /\ conf = <<Server>>
  /\ backup = Absent
  /\ temps = {}
  /\ data = [w \in Writes |-> Absent]
  /\ last = Server
  /\ faults = {}

Goto(w, step) == pc' = [pc EXCEPT ![w] = step]
Fails(fault)  == faults' = faults \cup {fault}

(* An error return, after the faults of `wrong'.  The deferred os.Remove   *)
(* of the temporary file may fail as well, and nobody looks at its error.  *)
ReturnFailed(w, wrong) ==
  /\ Goto(w, "failed")
  /\ \/ temps' = temps \ {w} /\ faults' = faults \cup wrong
     \/ UNCHANGED temps /\ faults' = faults \cup wrong \cup {"remove"}

(* Planted bugs, as in PeerAllocation: not part of Next.                   *)
FillInPlace(w) ==                \* no temporary file: wg0.conf is rewritten
  /\ pc[w] = "fill"
  /\ \/ Goto(w, "backup") /\ conf' = <<w>> /\ UNCHANGED <<temps, faults>>
     \/ ReturnFailed(w, {}) /\ conf' = <<Piece>>
  /\ UNCHANGED <<backup, data, last>>
FillLeavesTemp(w) ==             \* an error return without os.Remove
  /\ pc[w] = "fill"
  /\ Goto(w, "backup") \/ Goto(w, "failed")
  /\ UNCHANGED <<conf, backup, temps, data, history>>
FillSkipsBackup(w) ==            \* a backup that exists is kept
  /\ pc[w] = "fill"
  /\ \/ /\ Goto(w, IF backup = Absent THEN "backup" ELSE "rename")
        /\ UNCHANGED <<temps, faults>>
     \/ ReturnFailed(w, {})
  /\ UNCHANGED <<conf, backup, data, last>>

-----------------------------------------------------------------------------
(* os.CreateTemp in the directory of the file.                             *)
Begin(w) ==
  /\ pc[w] = "idle"
  /\ \/ Goto(w, "fill") /\ temps' = temps \cup {w} /\ UNCHANGED faults
     \/ Goto(w, "append") /\ Fails("temp") /\ UNCHANGED temps
  /\ UNCHANGED <<conf, backup, data, last>>

(* writePeerConfig, the fallback: open for append and write.               *)
Append1(w) ==
  /\ pc[w] = "append"
  /\ LET held == IF conf = Absent THEN << >> ELSE conf
     IN  \/ Goto(w, "ok") /\ conf' = Append(held, w) /\ last' = w
         \/ /\ Goto(w, "failed")
            /\ conf' \in {conf, held, Append(held, Piece)}
            /\ UNCHANGED last
  /\ UNCHANGED <<backup, temps, data, faults>>

(* The text is written to the temporary file, and the file closed.         *)
FillTemp(w) ==
  /\ pc[w] = "fill"
  /\ \/ Goto(w, "backup") /\ UNCHANGED <<temps, faults>>
     \/ ReturnFailed(w, {})
  /\ UNCHANGED <<conf, backup, data, last>>

(* copyFile to the backup: read, truncate, write.  Any failure is a        *)
(* warning.  Without a file there is nothing to back up.                   *)
ReadForBackup(w) ==
  /\ pc[w] = "backup"
  /\ \/ /\ conf # Absent
        /\ data' = [data EXCEPT ![w] = conf]
        /\ backup' = << >>
        /\ Goto(w, "overwrite")
        /\ UNCHANGED faults
     \/ /\ IF conf = Absent THEN UNCHANGED faults ELSE Fails("copy")
        /\ Goto(w, "rename")
        /\ UNCHANGED <<data, backup>>
  /\ UNCHANGED <<conf, temps, last>>
FillBackup(w) ==
  /\ pc[w] = "overwrite"
  /\ \/ backup' = data[w] /\ UNCHANGED faults
     \/ backup' \in {<< >>, <<Piece>>} /\ Fails("copy")
  /\ data' = [data EXCEPT ![w] = Absent]
  /\ Goto(w, "rename")
  /\ UNCHANGED <<conf, temps, last>>

(* The atomic replacement, which leaves the deferred os.Remove nothing to  *)
(* do, or its failure, which leads to the restore.                         *)
Rename(w) ==
  /\ pc[w] = "rename"
  /\ \/ /\ conf' = <<w>> /\ last' = w
        /\ Goto(w, "ok") /\ temps' = temps \ {w} /\ UNCHANGED faults
     \/ Goto(w, "restore") /\ Fails("rename") /\ UNCHANGED <<conf, temps, last>>
  /\ UNCHANGED <<backup, data>>

(* copyFile of the backup, if there is one, over wg0.conf.                 *)
ReadForRestore(w) ==
  /\ pc[w] = "restore"
  /\ \/ /\ backup # Absent
        /\ data' = [data EXCEPT ![w] = backup]
        /\ conf' = << >>
        /\ Goto(w, "refill")
        /\ UNCHANGED <<temps, faults>>
     \/ /\ ReturnFailed(w, IF backup = Absent THEN {} ELSE {"copy"})
        /\ UNCHANGED <<conf, data>>
  /\ UNCHANGED <<backup, last>>
FillRestore(w) ==
  /\ pc[w] = "refill"
  /\ \/ conf' = data[w] /\ ReturnFailed(w, {})
     \/ conf' \in {<< >>, <<Piece>>} /\ ReturnFailed(w, {"copy"})
  /\ data' = [data EXCEPT ![w] = Absent]
  /\ UNCHANGED <<backup, last>>

(* A process dies with the writes it is in; nothing deferred runs.         *)
Die(dead) ==
  /\ \E w \in dead : pc[w] \in Running
  /\ pc' = [w \in Writes |-> IF w \in dead /\ pc[w] \in Running
                             THEN "dead" ELSE pc[w]]
  /\ data' = [w \in Writes |-> IF w \in dead THEN Absent ELSE data[w]]
  /\ Fails("die")
  /\ UNCHANGED <<conf, backup, temps, last>>

Step(w) ==
  \/ Begin(w) \/ Append1(w) \/ FillTemp(w)
  \/ ReadForBackup(w) \/ FillBackup(w) \/ Rename(w)
  \/ ReadForRestore(w) \/ FillRestore(w)

Next == Die(Writes) \/ \E w \in Writes : Step(w)

Spec == Init /\ [][Next]_vars

-----------------------------------------------------------------------------
(* Whoever reads wg0.conf (a restart, the reconciliation loop, a delete)   *)
(* reads a complete text, even while a write is under way and after a      *)
(* crash, for as long as temporary files can be made and renamed: no write *)
(* touches the file in place (wireguard.go:321-354).                       *)
ReadersSeeCompleteText ==
  faults \cap {"temp", "rename"} = {} => conf \in Complete

(* What a creation that answered 201 wrote stays in wg0.conf until another *)
(* one succeeds.  A failed replacement is undone by copying the backup     *)
(* back, in place, so only a second fault on top of it can lose the text   *)
(* (wireguard.go:337-351).                                                 *)
LastGoodText ==
  /\ \A w \in Writes : pc[w] \notin Running
  /\ "rename" \in faults => faults \cap {"copy", "die"} = {}
  => /\ conf # Absent
     /\ \E i \in 1..Len(conf) : conf[i] = last

(* Temporary files pile up in the directory of wg0.conf only for a reason: *)
(* the process died, or a write failed and then its clean-up, whose error  *)
(* nobody sees, failed too.  A write that succeeded leaves none, whatever  *)
(* else went wrong in it (wireguard.go:321-354).                           *)
LeftoverTempExplained ==
  \A w \in temps :
    \/ pc[w] \in Running
    \/ pc[w] = "dead" /\ "die" \in faults
    \/ pc[w] = "failed" /\ "remove" \in faults
=============================================================================
