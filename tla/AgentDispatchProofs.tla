-------------------------- MODULE AgentDispatchProofs --------------------------
(***************************************************************************)
(* What a restart of the pilot reads is true, for any number of packets,   *)
(* requests, crashes and file faults.  RestartReadsTruth is not inductive: *)
(* it speaks of the files alone, while what they will hold is also in the  *)
(* memory of the pilot, in the memory and the files of the call that is in *)
(* progress, and in the memory it goes back to.  DispatchInv therefore     *)
(* says of every copy of a record that it is sound (CopiesSound), that the *)
(* copies belong to one packet (InStep, OnDisk, Links), that a request is  *)
(* on record before it is allowed (Nonces, Guarding), that a verdict is    *)
(* final (VerdictFinal), which approval stands behind work that is         *)
(* complete (ApprovalInv) and, where only processes stop, which files of   *)
(* the call are still to come (CrashOnly).                                 *)
(***************************************************************************)
EXTENDS AgentDispatch, TLAPS

(* The files a call changes: records of some packets, in either place.      *)
FileSet == UNION {[S -> Record] : S \in SUBSET Packet}
FileWrite == [place : {"record", "journal"}, files : FileSet, undo : Memory]
Journey == {"idle", "asked", "allowed", "succeeded", "failed"}

(* Where each variable ranges.                                              *)
DispatchTyped ==
  /\ issued \in 0..MaxPacket /\ gate \in [branch : 0..issued, stuck : BOOLEAN]
  /\ pilot \in {"down", "loading", "up"} /\ faults \in Nat
  /\ target \in [Packet -> [request : {NoRequest} \cup Request, at : Journey]]
  /\ effect \in [Packet -> BOOLEAN] /\ allowed \subseteq Packet \X Request
  /\ disk \in [Packet -> Record] /\ journal \in FileSet
  /\ mem \in Memory /\ after \in [mem : Memory, allow : SUBSET (Packet \X Request)]
  /\ todo \in Seq(FileWrite)

(* What the pilot holds when it is not up, and when it has nothing to       *)
(* write.                                                                   *)
Resting ==
  /\ pilot # "up" => mem = Empty
  /\ todo = << >> => after = [mem |-> Empty, allow |-> {}]
  /\ pilot = "down" => todo = << >>
  /\ pilot = "loading" => todo # << >> /\ after.allow = {}

(* Nothing has happened to a packet that was not issued.                    *)
Unissued == \A i \in Packet : i > issued => ~effect[i] /\ target[i].at = "idle"

(* What a record can say of its errand, and when two are of one packet.     *)
Pending(r) == r.errand \in {"grant_pending", "undo_pending"}
Undone(r) == r.errand \in {"ready", "compensated"}
Kindred(r, s) == r.kind = s.kind /\ r.trigger = s.trigger /\ r.source = s.source

(* What a record of packet i looks like, whatever holds it.                 *)
Shaped(i, r) ==
  /\ (r.state = "absent") <=> (r = NoRecord)
  /\ r # NoRecord => i <= issued /\ r.kind # "none"
  /\ r.kind \in {"review", "errand"} => ~r.trigger /\ r.state # "pending_review"
  /\ r.kind = "review" => r.source \in 1..(i - 1)
  /\ r.kind # "errand" => r.nonces = {} /\ r.errand = "none"
  /\ r.kind = "errand" => r.errand # "none"
  /\ r.kind # "none" => r # NoRecord

(* What a record says of its errand is what the target and its effect bear  *)
(* out.                                                                     *)
Truthful(i, r) ==
  r.kind = "errand" =>
    /\ Undone(r) => ~effect[i]
    /\ r.errand = "granted" => effect[i]
    /\ Pending(r) /\ r.pending = target[i].request =>
         effect[i] = ((r.pending[1] = "grant") = (target[i].at = "succeeded"))
    /\ Pending(r) => /\ r.state = "delegated" /\ r.pending # NoRequest
                     /\ (r.pending[1] = "grant") = (r.errand = "grant_pending")
    /\ target[i].at = "allowed" => Pending(r) /\ r.pending = target[i].request
    /\ r.state = "failed" => Undone(r)
    /\ r.state = "completed" => r.errand = "granted"

(* A record never forgets a request that was allowed.                       *)
Remembers(i, r) == r # NoRecord => \A n \in Request : <<i, n>> \in allowed => n \in r.nonces

(* A review is of work on disk, and a packet on disk keeps its kind.        *)
Linked(i, r) ==
  /\ r.kind = "review" => disk[r.source].kind = "work" /\ disk[r.source].trigger
  /\ r # NoRecord /\ disk[i] # NoRecord => Kindred(r, disk[i])

(* Every copy of a record, wherever it is, is sound.                        *)
SoundCopy(i, r) == Shaped(i, r) /\ Truthful(i, r) /\ Remembers(i, r) /\ Linked(i, r)
SoundMemory(m) == \A i \in Packet : SoundCopy(i, m.records[i])
SoundFiles(f) == \A i \in DOMAIN f : SoundCopy(i, f[i]) /\ f[i] # NoRecord
CopiesSound ==
  /\ \A i \in Packet : SoundCopy(i, disk[i])
  /\ SoundFiles(journal) /\ SoundMemory(mem) /\ SoundMemory(after.mem)
  /\ \A k \in 1..Len(todo) : SoundFiles(todo[k].files) /\ SoundMemory(todo[k].undo)

(* The copies of a call in progress are of the same kind as what it ends    *)
(* with.                                                                    *)
InStep ==
  \A k \in 1..Len(todo) :
    /\ \A i \in DOMAIN todo[k].files : Kindred(todo[k].files[i], after.mem.records[i])
    /\ \A i \in Packet : todo[k].undo.records[i] # NoRecord =>
                           Kindred(todo[k].undo.records[i], after.mem.records[i])

(* A packet is known to the memory only when it is on disk, or will be by   *)
(* then.                                                                    *)
Comes(i, k) == \E j \in 1..(k - 1) : todo[j].place = "record" /\ i \in DOMAIN todo[j].files
Known(i, k) == disk[i] # NoRecord \/ Comes(i, k)
OnDisk ==
  /\ \A i \in Packet : mem.records[i] # NoRecord => disk[i] # NoRecord
  /\ \A i \in Packet : after.mem.records[i] # NoRecord => Known(i, Len(todo) + 1)
  /\ \A k \in 1..Len(todo) : \A i \in Packet : todo[k].undo.records[i] # NoRecord => Known(i, k)
  /\ \A i \in DOMAIN journal : disk[i] # NoRecord
  /\ \A k \in 1..Len(todo) : todo[k].place = "journal" =>
       \A i \in DOMAIN todo[k].files : disk[i] # NoRecord

(* The memory that knows a review knows the work it is of.                  *)
MemLinked(m) ==
  \A y \in Packet : m.records[y].kind = "review" => m.records[m.records[y].source] # NoRecord
Links == MemLinked(mem) /\ MemLinked(after.mem) /\ \A k \in 1..Len(todo) : MemLinked(todo[k].undo)

(* A request that was allowed is known as used wherever the pilot goes on   *)
(* from.                                                                    *)
Nonces ==
  /\ ~replayed
  /\ allowed \cap after.allow = {}
  /\ \A a \in allowed :
      /\ a[2] \in disk[a[1]].nonces
      /\ pilot = "up" => a \in mem.used
      /\ todo # << >> => a \in after.mem.used
      /\ pilot = "up" => \A k \in 1..Len(todo) : a \in todo[k].undo.used

(* A request is about to be allowed only by the one write that records it.  *)
Guarding ==
  after.allow # {} =>
    \E i \in Packet, q \in Request :
      /\ after.allow = {<<i, q>>} /\ pilot = "up" /\ Len(todo) = 1 /\ todo[1].place = "record"
      /\ DOMAIN todo[1].files = {i} /\ todo[1].files[i] = after.mem.records[i]
      /\ after.mem.records[i].kind = "errand"
      /\ Pending(after.mem.records[i]) /\ after.mem.records[i].pending = q
      /\ q \in after.mem.records[i].nonces /\ <<i, q>> \in after.mem.used
      /\ target[i].request = q /\ target[i].at = "asked"

(* A verdict in a file is final: nothing else is on its way to that packet. *)
IsVerdict(r) == r.kind = "review" /\ r.state \in {"completed", "failed"}
Final(y, r) ==
  IsVerdict(r) => /\ gate.branch # y
                  /\ y \in DOMAIN journal => journal[y] = r
                  /\ \A k \in 1..Len(todo) : y \in DOMAIN todo[k].files => todo[k].files[y] = r
VerdictFinal ==
  /\ \A y \in Packet : Final(y, disk[y])
  /\ \A y \in DOMAIN journal : Final(y, journal[y])
  /\ \A k \in 1..Len(todo) : \A y \in DOMAIN todo[k].files : Final(y, todo[k].files[y])

(* Work that is complete is so by a review on disk, or on its way there.    *)
Approves(r, p) == r.kind = "review" /\ r.state = "completed" /\ r.review = "approved" /\ r.source = p
Finished(r) == r.trigger /\ r.state = "completed"
Approved(p) == \E y \in Packet : Approves(disk[y], p)
ApprovedBy(p, k) ==
  \/ Approved(p)
  \/ \E j \in 1..(k - 1) : /\ todo[j].place = "record"
                           /\ \E y \in DOMAIN todo[j].files : Approves(todo[j].files[y], p)
Batch(f) ==
  \E y, p \in Packet :
    /\ p < y /\ DOMAIN f = {y, p} /\ IsVerdict(f[y]) /\ f[y].source = p /\ f[p].kind = "work"
    /\ f[y].review = "approved" => f[p].state = "completed"
    /\ Finished(f[p]) => Approves(f[y], p) \/ Approved(p)
ApprovalInv ==
  /\ \A p \in Packet : Finished(disk[p]) => Approved(p)
  /\ \A p \in Packet : Finished(mem.records[p]) => Approved(p)
  /\ \A p \in Packet : Finished(after.mem.records[p]) => ApprovedBy(p, Len(todo) + 1)
  /\ journal # NoFiles => Batch(journal)
  /\ \A k \in 1..Len(todo) :
       /\ \A p \in Packet : Finished(todo[k].undo.records[p]) => Approved(p)
       /\ todo[k].place = "record" =>
            \A p \in DOMAIN todo[k].files : Finished(todo[k].files[p]) => ApprovedBy(p, k)
       /\ todo[k].place = "journal" /\ todo[k].files # NoFiles => Batch(todo[k].files)

(* Where no file operation fails, the records are together at every moment: *)
(* a call writes harmless records, or a batch that the journal holds first. *)
Together(f) == \A y \in Packet : Approves(f[y], f[y].source) => f[f[y].source].state = "completed"
Harmless(f) ==
  \A i \in DOMAIN f : ~Approves(f[i], f[i].source) /\ (disk[i].state = "completed" => f[i].state = "completed")
Covered(f, k) == todo[k].place = "record" /\ \A i \in DOMAIN todo[k].files : i \in DOMAIN f /\ todo[k].files[i] = f[i]
Replaying ==
  /\ todo[Len(todo)].place = "journal" /\ todo[Len(todo)].files = NoFiles
  /\ \A k \in 1..(Len(todo) - 1) : Covered(journal, k)
  /\ \A i \in DOMAIN journal :
       disk[i] = journal[i] \/ \E k \in 1..(Len(todo) - 1) : i \in DOMAIN todo[k].files
Journalling ==
  /\ Len(todo) = 4 /\ todo[1].place = "journal" /\ todo[1].files # NoFiles
  /\ Together(Over(todo[1].files, disk))
  /\ todo[4].place = "journal" /\ todo[4].files = NoFiles
  /\ \A k \in 2..3 : Covered(todo[1].files, k)
  /\ \A i \in DOMAIN todo[1].files : \E k \in 2..3 : i \in DOMAIN todo[k].files
Recording == \A k \in 1..Len(todo) : todo[k].place = "record" /\ Harmless(todo[k].files)
Outcome(i) ==
  /\ \A k \in 1..Len(todo) : i \in DOMAIN todo[k].files => after.mem.records[i] = todo[k].files[i]
  /\ (\A k \in 1..Len(todo) : i \notin DOMAIN todo[k].files) => after.mem.records[i] = Recovered[i]
CrashOnly ==
  faults = 0 =>
    /\ Together(Recovered)
    /\ todo = << >> /\ pilot = "up" => journal = NoFiles /\ mem.records = disk
    /\ todo # << >> =>
         /\ IF journal # NoFiles THEN Replaying ELSE Journalling \/ Recording
         /\ \A i \in Packet : Outcome(i)

(* The inductive invariant.                                                 *)
DispatchInv ==
  /\ DispatchTyped /\ Resting /\ Unissued /\ CopiesSound /\ InStep /\ OnDisk /\ Links
  /\ Nonces /\ Guarding /\ VerdictFinal /\ ApprovalInv /\ CrashOnly

(* What a file of records is.                                               *)
LEMMA FileFacts ==
  ASSUME NEW f \in FileSet
  PROVE  /\ DOMAIN f \subseteq Packet /\ \A i \in DOMAIN f : f[i] \in Record
         /\ f = [i \in DOMAIN f |-> f[i]]
BY DEF FileSet

(* Records of some packets make a file.                                     *)
LEMMA FileMade ==
  ASSUME NEW S \in SUBSET Packet, NEW f \in [S -> Record]
  PROVE  f \in FileSet
BY DEF FileSet

(* The rest of a call, write by write.                                      *)
LEMMA RestOfWrites ==
  ASSUME NEW S, NEW s \in Seq(S), s # << >>
  PROVE  /\ Head(s) = s[1] /\ s[1] \in S /\ Len(s) \in Nat \ {0}
         /\ Tail(s) \in Seq(S) /\ Len(Tail(s)) = Len(s) - 1
         /\ \A k \in 1..(Len(s) - 1) : Tail(s)[k] = s[k + 1] /\ s[k] \in S
         /\ (Tail(s) = << >>) <=> (Len(s) = 1)
<1>1. Len(s) \in Nat \ {0} /\ Head(s) = s[1] /\ s[1] \in S
  OBVIOUS
<1>2. Tail(s) \in Seq(S) /\ Len(Tail(s)) = Len(s) - 1
  OBVIOUS
<1>3. \A k \in 1..(Len(s) - 1) : Tail(s)[k] = s[k + 1] /\ s[k] \in S
  OBVIOUS
<1>4. (Tail(s) = << >>) <=> (Len(s) = 1)
  <2> DEFINE rest == Tail(s)
  <2>1. rest \in Seq(S) /\ Len(rest) = Len(s) - 1 /\ Len(s) \in Nat
    BY <1>1, <1>2
  <2> HIDE DEF rest
  <2>2. (rest = << >>) <=> (Len(rest) = 0)
    BY <2>1
  <2>3. (rest = << >>) <=> (Len(s) = 1)
    BY <2>1, <2>2
  <2> QED BY <2>3 DEF rest
<1> QED BY <1>1, <1>2, <1>3, <1>4

(* A review is of an earlier packet, and a record is of a packet that was   *)
(* issued.                                                                  *)
LEMMA ReviewSource ==
  ASSUME NEW i \in Packet, NEW r, Shaped(i, r)
  PROVE  /\ r.kind = "review" => r.source \in Packet /\ r.source # i
         /\ r.kind # "none" => i <= issued
BY DispatchBounds DEF Packet, Shaped

(* A call begins that has one record to write.                              *)
CallBegins(i, r, u) ==
  /\ Idle /\ todo' = <<WriteRecord(i, r, u)>>
  /\ after'.mem.records = [mem.records EXCEPT ![i] = r] /\ mem.used \subseteq after'.mem.used
  /\ u.used = mem.used /\ \A j \in Packet \ {i} : u.records[j] = mem.records[j]
  /\ UNCHANGED <<disk, journal, pilot, mem, effect, allowed, replayed, faults>>

(* What is allowed afterwards and what happens to the gate and the target.  *)
CallMoves ==
  /\ after' \in [mem : Memory, allow : SUBSET (Packet \X Request)] /\ after'.allow \cap allowed = {}
  /\ issued' \in issued..MaxPacket /\ gate' \in [branch : 0..issued', stuck : BOOLEAN]
  /\ gate'.branch \in {0, gate.branch} \/ gate'.branch > issued
  /\ target' \in [Packet -> [request : {NoRequest} \cup Request, at : Journey]]
  /\ \A j \in Packet, s \in Record : SoundCopy(j, s) => SoundCopy(j, s)'

(* The record it writes, and the memory it would go back to.                *)
CallWrites(i, r, u) ==
  /\ SoundCopy(i, r)' /\ r # NoRecord /\ SoundCopy(i, u.records[i])'
  /\ u.records[i] # NoRecord => Kindred(u.records[i], r)
  /\ (u.records[i] # NoRecord) <=> (mem.records[i] # NoRecord)
  /\ mem.records[i] # NoRecord => Kindred(mem.records[i], r)
  /\ r.kind = "review" => mem.records[r.source] # NoRecord /\ r.source # i
  /\ ~IsVerdict(r) /\ ~IsVerdict(disk[i]) /\ (i \in DOMAIN journal => ~IsVerdict(journal[i]))
  /\ ~Finished(r) /\ ~Finished(u.records[i]) /\ mem.records[i].state # "completed"

(* A call that begins with one record to write keeps the invariant.         *)
LEMMA OneWrite ==
  ASSUME DispatchInv, NEW i \in Packet, NEW r \in Record, NEW u \in Memory, CallBegins(i, r, u),
         CallMoves, CallWrites(i, r, u), Guarding', Unissued'
  PROVE  DispatchInv'
<1> DEFINE w == WriteRecord(i, r, u)
<1>1. w \in FileWrite /\ w.place = "record" /\ DOMAIN w.files = {i} /\ w.files[i] = r /\ w.undo = u
  BY FileMade DEF FileWrite, WriteRecord
<1>2. todo' = <<w>>
  BY DEF CallBegins
<1> USE DEF CallMoves, CallWrites
<1> HIDE DEF w
<1>3. Len(todo') = 1 /\ todo'[1] = w /\ todo' \in Seq(FileWrite) /\ todo' # << >>
  BY <1>1, <1>2
<1>4. \A k \in 1..Len(todo') : todo'[k] = w
  BY <1>3
<1>5. \A j \in Packet : /\ mem.records[j] \in Record /\ u.records[j] \in Record /\ disk[j] \in Record
                        /\ after'.mem.records[j] = IF j = i THEN r ELSE mem.records[j]
                        /\ u.records[j] = IF j = i THEN u.records[i] ELSE mem.records[j]
  BY DEF DispatchInv, DispatchTyped, Memory, CallBegins
<1>6. DOMAIN journal \subseteq Packet /\ \A j \in DOMAIN journal : journal[j] \in Record
  BY FileFacts DEF DispatchInv, DispatchTyped
<1>7. UNCHANGED <<disk, journal, pilot, mem, effect, allowed, replayed, faults>> /\ pilot = "up" /\ todo = << >>
  BY DEF CallBegins, Idle
<1>8. \A j \in Packet : mem.records[j] # NoRecord => disk[j] # NoRecord
  BY DEF DispatchInv, OnDisk
<1>9. DispatchTyped'
  BY <1>3, <1>7 DEF DispatchInv, DispatchTyped
<1>10. Resting'
  BY <1>3, <1>7 DEF DispatchInv, Resting
<1>11. CopiesSound'
  <2>1. \A j \in Packet : SoundCopy(j, mem.records[j])' /\ SoundCopy(j, disk[j])'
    BY <1>5, <1>7 DEF DispatchInv, CopiesSound, SoundMemory
  <2>2. SoundMemory(after.mem)' /\ SoundMemory(u)'
    BY <1>5, <1>7, <2>1 DEF SoundMemory
  <2>3. \A j \in DOMAIN journal : SoundCopy(j, journal[j])' /\ journal[j] # NoRecord
    BY <1>6, <1>7 DEF DispatchInv, CopiesSound, SoundFiles
  <2> QED BY <1>1, <1>4, <1>7, <2>1, <2>2, <2>3 DEF CopiesSound, SoundMemory, SoundFiles
<1>12. InStep'
  BY <1>1, <1>4, <1>5 DEF InStep, Kindred
<1>13. OnDisk'
  <2>1. \A j \in Packet : after'.mem.records[j] # NoRecord => Known(j, Len(todo) + 1)'
    BY <1>1, <1>3, <1>5, <1>7, <1>8 DEF Known, Comes
  <2>2. \A j \in Packet : u.records[j] # NoRecord => disk'[j] # NoRecord
    BY <1>5, <1>7, <1>8
  <2> QED BY <1>1, <1>4, <1>7, <2>1, <2>2 DEF DispatchInv, OnDisk, Known
<1>14. Links'
  <2>1. MemLinked(mem)' /\ \A y \in Packet : mem.records[y].kind = "review" => mem.records[y].source \in Packet
    BY <1>5, <1>7, ReviewSource DEF DispatchInv, Links, MemLinked, CopiesSound, SoundMemory, SoundCopy
  <2>2. r.kind = "review" => r.source \in Packet
    BY DispatchBounds DEF SoundCopy, Shaped, Packet
  <2>3. u.records[i].kind = "review" => mem.records[i].kind = "review" /\ mem.records[i].source = u.records[i].source
    BY DEF Kindred, NoRecord
  <2>4. MemLinked(after.mem)'
    BY <1>5, <1>7, <2>1, <2>2 DEF MemLinked
  <2>5. MemLinked(u)
    <3>1. ASSUME NEW y \in Packet, u.records[y].kind = "review" PROVE u.records[u.records[y].source] # NoRecord
      <4>1. mem.records[y].kind = "review" /\ mem.records[y].source = u.records[y].source
        BY <1>5, <2>3, <3>1
      <4>2. mem.records[y].source \in Packet /\ mem.records[mem.records[y].source] # NoRecord
        BY <1>7, <2>1, <4>1 DEF MemLinked
      <4> QED BY <1>5, <4>1, <4>2
    <3> QED BY <3>1 DEF MemLinked
  <2> QED BY <1>1, <1>4, <2>1, <2>4, <2>5 DEF Links, MemLinked
<1>15. Nonces'
  BY <1>1, <1>3, <1>7 DEF DispatchInv, Nonces, CallBegins
<1>16. VerdictFinal'
  <2>1. \A y \in Packet, s \in Record : SoundCopy(y, s) /\ IsVerdict(s) => y <= issued
    BY ReviewSource DEF SoundCopy, IsVerdict
  <2>0. \A y \in Packet, s \in Record : SoundCopy(y, s) /\ IsVerdict(s) /\ gate.branch # y => gate'.branch # y
    BY <2>1, DispatchBounds DEF Packet, DispatchInv, DispatchTyped
  <2>2. \A y \in Packet : Final(y, disk[y])'
    BY <1>1, <1>4, <1>5, <1>7, <2>0 DEF DispatchInv, VerdictFinal, Final, CopiesSound
  <2>3. \A y \in DOMAIN journal : Final(y, journal[y])'
    BY <1>1, <1>4, <1>6, <1>7, <2>0 DEF DispatchInv, VerdictFinal, Final, CopiesSound, SoundFiles
  <2> QED BY <1>1, <1>4, <1>7, <2>2, <2>3 DEF VerdictFinal, Final
<1>17. ApprovalInv'
  <2>1. \A p \in Packet : Approved(p)' = Approved(p)
    BY <1>7 DEF Approved
  <2>2. \A p \in Packet : Finished(disk[p]) \/ Finished(mem.records[p]) => Approved(p)
    BY DEF DispatchInv, ApprovalInv
  <2>3. journal # NoFiles => Batch(journal)
    BY DEF DispatchInv, ApprovalInv
  <2>4. Batch(journal)' = Batch(journal)
    BY <1>7 DEF Batch, Approved
  <2> QED BY <1>1, <1>4, <1>5, <1>7, <2>1, <2>2, <2>3, <2>4 DEF ApprovalInv, ApprovedBy
<1>18. CrashOnly'
  <2>1. CASE faults = 0
    <3>1. journal = NoFiles /\ mem.records = disk /\ Together(Recovered)
      BY <1>7, <2>1 DEF DispatchInv, CrashOnly
    <3>2. Together(Recovered)'
      BY <1>7, <3>1 DEF Recovered, Over, Together
    <3>3. Recording'
      BY <1>1, <1>4, <1>7, <3>1 DEF Recording, Harmless, Approves, IsVerdict
    <3>4. \A j \in Packet : Recovered'[j] = disk[j]
      BY <1>7, <3>1 DEF Recovered, Over, NoFiles
    <3>5. \A j \in Packet : Outcome(j)'
      BY <1>1, <1>3, <1>4, <1>5, <3>1, <3>4 DEF Outcome
    <3> QED BY <1>3, <1>7, <3>1, <3>2, <3>3, <3>5 DEF CrashOnly
  <2> QED BY <1>7, <2>1 DEF CrashOnly
<1> QED BY <1>9, <1>10, <1>11, <1>12, <1>13, <1>14, <1>15, <1>16, <1>17, <1>18 DEF DispatchInv

(* The record a call reads in memory.                                       *)
LEMMA CurrentFacts ==
  ASSUME DispatchInv, NEW i \in Packet
  PROVE  /\ mem.records[i] \in Record /\ SoundCopy(i, mem.records[i])
         /\ disk[i] \in Record /\ SoundCopy(i, disk[i])
         /\ mem.records[i] # NoRecord => disk[i] # NoRecord /\ Kindred(mem.records[i], disk[i])
         /\ i \in DOMAIN journal => /\ journal[i] \in Record /\ SoundCopy(i, journal[i])
                                    /\ disk[i] # NoRecord /\ Kindred(journal[i], disk[i])
<1>1. i \in DOMAIN journal => journal[i] \in Record
  BY FileFacts DEF DispatchInv, DispatchTyped
<1> QED BY <1>1 DEF DispatchInv, DispatchTyped, Memory, CopiesSound, SoundMemory, SoundFiles, OnDisk, SoundCopy, Linked

(* A packet that is not issued yet has no record anywhere.                  *)
LEMMA FreshPacket ==
  ASSUME DispatchInv, NEW i \in Packet, i > issued
  PROVE  /\ disk[i] = NoRecord /\ mem.records[i] = NoRecord /\ i \notin DOMAIN journal
         /\ \A n \in Request : <<i, n>> \notin allowed
<1>1. disk[i] = NoRecord /\ mem.records[i] = NoRecord
  BY CurrentFacts DEF SoundCopy, Shaped, DispatchInv, DispatchTyped, Packet
<1>2. i \notin DOMAIN journal
  BY <1>1 DEF DispatchInv, OnDisk
<1>3. \A n \in Request : <<i, n>> \in allowed => n \in disk[i].nonces
  BY DEF DispatchInv, Nonces
<1> QED BY <1>1, <1>2, <1>3 DEF NoRecord

(* A delegation begins: the branch is open, its record is still to come.    *)
LEMMA StartStep ==
  ASSUME DispatchInv, NEW kind \in {"work", "errand"}, NEW trigger \in BOOLEAN,
         NEW source \in {0} \cup Packet, kind = "errand" => ~trigger, Start(kind, trigger, source)
  PROVE  DispatchInv'
<1>0. PICK i, r : i = issued + 1 /\ r = Delegated(kind, trigger, source)
  OBVIOUS
<1>1. i \in Packet /\ i \in issued..MaxPacket /\ i > issued
  BY <1>0, DispatchBounds DEF Start, OpenBranch, Packet, DispatchInv, DispatchTyped
<1>2. r \in Record /\ r.state = "delegated" /\ r.kind = kind /\ r.trigger = trigger /\ r.source = source
        /\ r.errand = (IF kind = "errand" THEN "ready" ELSE "none") /\ r.nonces = {} /\ r # NoRecord
        /\ r.pending = NoRequest
  BY <1>0 DEF Delegated, Record, NoRecord
<1>3. /\ Idle /\ todo' = <<WriteRecord(i, r, mem)>>
      /\ after' = [mem |-> [mem EXCEPT !.records[i] = r], allow |-> {}]
      /\ issued' = i /\ gate' = [gate EXCEPT !.branch = i] /\ gate.branch = 0
      /\ UNCHANGED <<disk, journal, pilot, mem, world, expired, crashes, faults>>
  BY <1>0 DEF Start, OpenBranch, Continue, With
<1>4. UNCHANGED <<target, effect, allowed, replayed>>
  BY <1>3 DEF world
<1>5. mem \in Memory /\ after' \in [mem : Memory, allow : SUBSET (Packet \X Request)]
  BY <1>1, <1>2, <1>3 DEF DispatchInv, DispatchTyped, Memory
<1>6. after'.mem.records = [mem.records EXCEPT ![i] = r] /\ after'.mem.used = mem.used /\ after'.allow = {}
  BY <1>3, <1>5 DEF Memory, DispatchInv, DispatchTyped
<1>7. CallBegins(i, r, mem)
  BY <1>3, <1>4, <1>6 DEF CallBegins
<1>8. Guarding'
  BY <1>6 DEF Guarding
<1>9. Unissued'
  BY <1>1, <1>3, <1>4 DEF DispatchInv, Unissued, DispatchTyped, Packet
<1>10. \A j \in Packet, s \in Record : SoundCopy(j, s) => SoundCopy(j, s)'
  BY <1>1, <1>3, <1>4 DEF SoundCopy, Shaped, Truthful, Remembers, Linked, DispatchInv, DispatchTyped, Packet
<1>11. SoundCopy(i, r)'
  <2>1. Shaped(i, r)'
    BY <1>1, <1>2, <1>3 DEF Shaped, NoRecord
  <2>2. Truthful(i, r)'
    BY <1>1, <1>2, <1>4 DEF Truthful, Undone, Pending, DispatchInv, Unissued
  <2>3. Remembers(i, r)' /\ Linked(i, r)'
    BY <1>1, <1>2, <1>3, <1>4, FreshPacket DEF Remembers, Linked
  <2> QED BY <2>1, <2>2, <2>3 DEF SoundCopy
<1>12. mem.records[i] = NoRecord /\ disk[i] = NoRecord /\ i \notin DOMAIN journal
  BY <1>1, FreshPacket
<1>13. SoundCopy(i, mem.records[i])'
  BY <1>1, <1>3, <1>10, CurrentFacts
<1>14. ~IsVerdict(r) /\ ~IsVerdict(disk[i]) /\ ~Finished(r) /\ ~Finished(mem.records[i])
         /\ mem.records[i].state # "completed" /\ r.kind # "review"
  BY <1>2, <1>12 DEF IsVerdict, Finished, NoRecord
<1>15. issued' \in issued..MaxPacket /\ gate' \in [branch : 0..issued', stuck : BOOLEAN]
         /\ gate'.branch > issued
  BY <1>1, <1>3 DEF DispatchInv, DispatchTyped
<1>16. target' \in [Packet -> [request : {NoRequest} \cup Request, at : Journey]]
  BY <1>4 DEF DispatchInv, DispatchTyped
<1>17. CallMoves
  BY <1>5, <1>6, <1>10, <1>15, <1>16 DEF CallMoves
<1>18. CallWrites(i, r, mem)
  BY <1>2, <1>11, <1>12, <1>13, <1>14 DEF CallWrites
<1> QED BY <1>1, <1>2, <1>5, <1>7, <1>8, <1>9, <1>17, <1>18, OneWrite

(* The target is asked with a request that was never used.                  *)
LEMMA GuardStep ==
  ASSUME DispatchInv, NEW i \in Packet, NEW request \in Request, GuardErrandTool(i, request)
  PROVE  DispatchInv'
<1>0. PICK c, r : /\ c = mem.records[i]
                  /\ r = [c EXCEPT !.errand = NextErrandState(c, request), !.pending = request,
                                   !.nonces = @ \cup {request}]
  OBVIOUS
<1>1. /\ Idle /\ c.state = "delegated" /\ c.kind = "errand" /\ <<i, request>> \notin mem.used
      /\ NextErrandState(c, request) # "none" /\ todo' = <<WriteRecord(i, r, mem)>>
      /\ after' = [mem |-> [[mem EXCEPT !.records[i] = r] EXCEPT !.used = @ \cup {<<i, request>>}],
                   allow |-> {<<i, request>>}]
      /\ target' = [target EXCEPT ![i] = [request |-> request, at |-> "asked"]]
      /\ UNCHANGED <<gate, disk, journal, pilot, mem, effect, allowed, replayed, counters>>
  BY <1>0 DEF GuardErrandTool, Continue, With, Current
<1>2. UNCHANGED <<issued, faults>>
  BY <1>1 DEF counters
<1>3. c \in Record /\ SoundCopy(i, c) /\ c # NoRecord
  BY <1>0, <1>1, CurrentFacts DEF NoRecord
<1>4. request[1] \in {"grant", "undo"}
  BY DEF Request
<1>5. /\ r \in Record /\ r.state = "delegated" /\ r.kind = "errand" /\ r.trigger = c.trigger
      /\ r.source = c.source /\ r.pending = request /\ r.nonces = c.nonces \cup {request}
      /\ \/ request[1] = "grant" /\ c.errand = "ready" /\ r.errand = "grant_pending"
         \/ request[1] = "undo" /\ c.errand = "granted" /\ r.errand = "undo_pending"
  BY <1>0, <1>1, <1>3 DEF NextErrandState, Record
<1>6. mem \in Memory /\ after' \in [mem : Memory, allow : SUBSET (Packet \X Request)]
  <2>1. mem \in Memory /\ [mem EXCEPT !.records[i] = r] \in Memory
    BY <1>5 DEF DispatchInv, DispatchTyped, Memory
  <2>2. ASSUME NEW m \in Memory PROVE [m EXCEPT !.used = @ \cup {<<i, request>>}] \in Memory
    BY DEF Memory
  <2> DEFINE m == [[mem EXCEPT !.records[i] = r] EXCEPT !.used = @ \cup {<<i, request>>}]
  <2>3. m \in Memory
    BY <2>1, <2>2
  <2>4. mem \in Memory /\ after' = [mem |-> m, allow |-> {<<i, request>>}]
    BY <1>1, <2>1
  <2> HIDE DEF m
  <2> QED BY <2>3, <2>4
<1>7. after'.mem.records = [mem.records EXCEPT ![i] = r] /\ after'.mem.used = mem.used \cup {<<i, request>>}
        /\ after'.allow = {<<i, request>>} /\ after'.mem.records[i] = r
  BY <1>1, <1>6 DEF Memory, DispatchInv, DispatchTyped
<1>8. CallBegins(i, r, mem)
  BY <1>1, <1>2, <1>7 DEF CallBegins
<1>9. target'[i].request = request /\ target'[i].at = "asked" /\ \A j \in Packet \ {i} : target'[j] = target[j]
  BY <1>1 DEF DispatchInv, DispatchTyped
<1>10. i <= issued /\ Unissued'
  BY <1>1, <1>2, <1>3, <1>9 DEF DispatchInv, Unissued, SoundCopy, Shaped, DispatchTyped, Packet
<1>11. Guarding'
  <2>1. WriteRecord(i, r, mem).files = [j \in {i} |-> r] /\ WriteRecord(i, r, mem).place = "record"
    BY DEF WriteRecord
  <2>2. Len(todo') = 1 /\ todo'[1] = WriteRecord(i, r, mem)
    BY <1>1
  <2>3. pilot' = "up"
    BY <1>1 DEF Idle
  <2> QED BY <1>5, <1>7, <1>9, <2>1, <2>2, <2>3 DEF Guarding, Pending
<1>12. request \in Request /\ request # NoRequest
  BY DEF Request, NoRequest
<1>13. \A j \in Packet, s \in Record : SoundCopy(j, s) => SoundCopy(j, s)'
  <2>1. effect[i] = (request[1] # "grant") /\ effect[i] \in BOOLEAN
    BY <1>1, <1>3, <1>4, <1>5 DEF SoundCopy, Truthful, Undone, DispatchInv, DispatchTyped
  <2>2. \A j \in Packet, s \in Record : Truthful(j, s) => Truthful(j, s)'
    BY <1>1, <1>9, <2>1 DEF Truthful, Pending, Undone
  <2>3. \A j \in Packet, s \in Record : Shaped(j, s)' = Shaped(j, s) /\ Remembers(j, s)' = Remembers(j, s)
                                          /\ Linked(j, s)' = Linked(j, s)
    BY <1>1, <1>2 DEF Shaped, Remembers, Linked
  <2> QED BY <2>2, <2>3 DEF SoundCopy
<1>14. SoundCopy(i, r)'
  <2>1. Shaped(i, r)'
    BY <1>1, <1>2, <1>3, <1>5 DEF SoundCopy, Shaped, NoRecord
  <2>2. effect[i] = (request[1] # "grant") /\ effect[i] \in BOOLEAN
    BY <1>1, <1>3, <1>4, <1>5 DEF SoundCopy, Truthful, Undone, DispatchInv, DispatchTyped
  <2>3. Truthful(i, r)'
    BY <1>1, <1>5, <1>9, <1>12, <2>2 DEF Truthful, Undone, Pending
  <2>4. Remembers(i, r)' /\ Linked(i, r)'
    BY <1>1, <1>3, <1>5 DEF SoundCopy, Remembers, Linked, Kindred
  <2> QED BY <2>1, <2>3, <2>4 DEF SoundCopy
<1>15. Kindred(c, r) /\ ~IsVerdict(r) /\ ~Finished(r) /\ ~Finished(c) /\ c.state # "completed" /\ r # NoRecord
         /\ r.kind # "review"
  BY <1>1, <1>5 DEF Kindred, IsVerdict, Finished, NoRecord
<1>16. ~IsVerdict(disk[i]) /\ (i \in DOMAIN journal => ~IsVerdict(journal[i]))
  BY <1>0, <1>1, <1>3, CurrentFacts DEF IsVerdict, Kindred
<1>17. CallMoves
  BY <1>1, <1>2, <1>6, <1>7, <1>9, <1>13, DispatchBounds DEF CallMoves, DispatchInv, DispatchTyped, Nonces, Idle, Journey
<1>18. CallWrites(i, r, mem)
  BY <1>0, <1>1, <1>3, <1>13, <1>14, <1>15, <1>16 DEF CallWrites
<1> QED BY <1>5, <1>6, <1>8, <1>10, <1>11, <1>17, <1>18, OneWrite

(* Records stay sound where neither the disk nor the target's side changes. *)
LEMMA SoundStays ==
  ASSUME DispatchInv, UNCHANGED <<disk, target, effect, allowed>>, issued' \in issued..MaxPacket
  PROVE  (\A j \in Packet, s \in Record : SoundCopy(j, s) => SoundCopy(j, s)') /\ Unissued'
<1>1. \A j \in Packet, s \in Record : SoundCopy(j, s) => SoundCopy(j, s)'
  BY DEF SoundCopy, Shaped, Truthful, Remembers, Linked, DispatchInv, DispatchTyped, Packet
<1>2. Unissued'
  BY DEF DispatchInv, Unissued, DispatchTyped, Packet
<1> QED BY <1>1, <1>2

(* The target answers, or a request that got no answer counts as failed.    *)
LEMMA ObserveStep ==
  ASSUME DispatchInv, NEW i \in Packet, ObserveErrandTool(i)
  PROVE  DispatchInv'
<1>0. PICK c, ok, a, r : /\ c = mem.records[i] /\ ok = (target[i].at = "succeeded")
                         /\ a = [c EXCEPT !.errand = Observed(c.errand, ok)]
                         /\ r = [a EXCEPT !.pending = NoRequest]
  OBVIOUS
<1>1. /\ Idle /\ c.state = "delegated" /\ c.kind = "errand"
      /\ c.pending # NoRequest /\ c.pending = target[i].request /\ Observed(c.errand, ok) # "none"
      /\ todo' = <<WriteRecord(i, r, [mem EXCEPT !.records[i] = a])>>
      /\ after' = [mem |-> [mem EXCEPT !.records[i] = r], allow |-> {}]
      /\ UNCHANGED <<gate, disk, journal, pilot, mem, world, counters>>
  BY <1>0 DEF ObserveErrandTool, Continue, With, Current
<1>2. UNCHANGED <<issued, faults, target, effect, allowed, replayed>>
  BY <1>1 DEF counters, world
<1>3. c \in Record /\ SoundCopy(i, c) /\ c # NoRecord
  BY <1>0, <1>1, CurrentFacts DEF NoRecord
<1>4. \/ c.errand = "grant_pending" /\ Observed(c.errand, ok) = (IF ok THEN "granted" ELSE "ready")
      \/ c.errand = "undo_pending" /\ Observed(c.errand, ok) = (IF ok THEN "compensated" ELSE "granted")
  BY <1>1 DEF Observed
<1>5. /\ a \in Record /\ a.state = "delegated" /\ a.kind = "errand" /\ a.trigger = c.trigger
      /\ a.source = c.source /\ a.nonces = c.nonces /\ a.errand = Observed(c.errand, ok)
      /\ r \in Record /\ r.state = "delegated" /\ r.kind = "errand" /\ r.trigger = c.trigger
      /\ r.source = c.source /\ r.nonces = c.nonces /\ r.errand = Observed(c.errand, ok)
  BY <1>0, <1>1, <1>3, <1>4 DEF Record
<1>6. PICK u : u = [mem EXCEPT !.records[i] = a]
  OBVIOUS
<1>7. mem \in Memory /\ after' \in [mem : Memory, allow : SUBSET (Packet \X Request)] /\ u \in Memory
  BY <1>1, <1>5, <1>6 DEF DispatchInv, DispatchTyped, Memory
<1>8. after'.mem.records = [mem.records EXCEPT ![i] = r] /\ after'.mem.used = mem.used /\ after'.allow = {}
        /\ u.records[i] = a /\ u.used = mem.used /\ \A j \in Packet \ {i} : u.records[j] = mem.records[j]
  BY <1>1, <1>6, <1>7 DEF Memory, DispatchInv, DispatchTyped
<1>9. CallBegins(i, r, u)
  BY <1>1, <1>2, <1>6, <1>8 DEF CallBegins
<1>10. Guarding'
  BY <1>8 DEF Guarding
<1>11. (\A j \in Packet, s \in Record : SoundCopy(j, s) => SoundCopy(j, s)') /\ Unissued'
  BY <1>1, <1>2, SoundStays DEF DispatchInv, DispatchTyped
<1>12. effect[i] = (IF ok THEN c.errand = "grant_pending" ELSE c.errand = "undo_pending")
         /\ target[i].at # "allowed" /\ ok \in BOOLEAN /\ ~c.trigger
  <2>1. effect[i] = ((c.pending[1] = "grant") = ok) /\ (c.pending[1] = "grant") = (c.errand = "grant_pending")
    BY <1>0, <1>1, <1>3, <1>4 DEF SoundCopy, Truthful, Pending
  <2> QED BY <2>1, <1>0, <1>1, <1>3, <1>4 DEF ObserveErrandTool, SoundCopy, Shaped, DispatchInv, DispatchTyped
<1>13. ASSUME NEW s \in {a, r} PROVE SoundCopy(i, s)'
  <2>1. Shaped(i, s)'
    BY <1>1, <1>2, <1>3, <1>4, <1>5 DEF SoundCopy, Shaped, NoRecord
  <2>2. Truthful(i, s)'
    BY <1>2, <1>4, <1>5, <1>12 DEF Truthful, Undone, Pending
  <2>3. Remembers(i, s)' /\ Linked(i, s)'
    BY <1>1, <1>2, <1>3, <1>5 DEF SoundCopy, Remembers, Linked, Kindred
  <2> QED BY <2>1, <2>2, <2>3 DEF SoundCopy
<1>14. /\ Kindred(c, r) /\ Kindred(a, r) /\ ~IsVerdict(r) /\ ~Finished(r) /\ ~Finished(a)
       /\ c.state # "completed" /\ r # NoRecord /\ a # NoRecord /\ r.kind # "review"
  BY <1>1, <1>5, <1>12 DEF Kindred, IsVerdict, Finished, NoRecord
<1>15. ~IsVerdict(disk[i]) /\ (i \in DOMAIN journal => ~IsVerdict(journal[i]))
  BY <1>0, <1>1, <1>3, CurrentFacts DEF IsVerdict, Kindred
<1>16. CallMoves
  BY <1>1, <1>2, <1>7, <1>8, <1>11, DispatchBounds DEF CallMoves, DispatchInv, DispatchTyped
<1>17. CallWrites(i, r, u)
  BY <1>0, <1>3, <1>8, <1>13, <1>14, <1>15 DEF CallWrites
<1> QED BY <1>5, <1>7, <1>9, <1>10, <1>11, <1>16, <1>17, OneWrite

(* Work or an errand is closed: its branch first, then its record.          *)
LEMMA CloseStep ==
  ASSUME DispatchInv, NEW i \in Packet, Return(i) \/ Fail(i)
  PROVE  DispatchInv'
<1>0. PICK c : c = mem.records[i]
  OBVIOUS
<1>1. PICK state, review :
        /\ \/ state = ReturnState(c) /\ (c.kind = "errand" => c.errand = "granted")
           \/ state = "failed" /\ c.errand \in {"none", "ready", "compensated"}
        /\ Idle /\ c.state = "delegated" /\ c.kind # "review" /\ CloseBranch(i)
        /\ todo' = <<WriteRecord(i, Closed(c, state, review), mem)>>
        /\ after' = [mem |-> [mem EXCEPT !.records[i] = Closed(c, state, review)], allow |-> {}]
        /\ UNCHANGED <<disk, journal, pilot, mem, world, expired, crashes, faults>>
  <2>1. CASE Return(i)
    BY <1>0, <2>1 DEF Return, Close, Continue, With, Current
  <2>2. CASE Fail(i)
    BY <1>0, <2>2 DEF Fail, Close, Continue, With, Current
  <2> QED BY <2>1, <2>2
<1>2. PICK r : r = Closed(c, state, review)
  OBVIOUS
<1>3. UNCHANGED <<issued, target, effect, allowed, replayed>> /\ gate'.branch = 0 /\ gate' \in [branch : 0..issued', stuck : BOOLEAN]
  BY <1>1 DEF world, CloseBranch, DispatchInv, DispatchTyped
<1>4. c \in Record /\ SoundCopy(i, c) /\ c # NoRecord
  BY <1>0, <1>1, CurrentFacts DEF NoRecord
<1>5. /\ r \in Record /\ r.state = state /\ r.kind = c.kind /\ r.trigger = c.trigger
      /\ r.source = c.source /\ r.nonces = c.nonces /\ r.errand = c.errand /\ r.pending = NoRequest
      /\ state \in {"failed", "completed", "pending_review"} /\ (state = "completed" => ~r.trigger)
      /\ (state = "pending_review" => r.trigger) /\ r # NoRecord /\ r.kind # "review"
  BY <1>1, <1>2, <1>4 DEF Record, Closed, ReturnState, NoRecord
<1>6. mem \in Memory /\ after' \in [mem : Memory, allow : SUBSET (Packet \X Request)]
  BY <1>1, <1>2, <1>5 DEF DispatchInv, DispatchTyped, Memory
<1>7. after'.mem.records = [mem.records EXCEPT ![i] = r] /\ after'.mem.used = mem.used /\ after'.allow = {}
  BY <1>1, <1>2, <1>6 DEF Memory, DispatchInv, DispatchTyped
<1>8. CallBegins(i, r, mem)
  BY <1>1, <1>2, <1>3, <1>7 DEF CallBegins
<1>9. Guarding'
  BY <1>7 DEF Guarding
<1>10. (\A j \in Packet, s \in Record : SoundCopy(j, s) => SoundCopy(j, s)') /\ Unissued'
  BY <1>1, <1>3, SoundStays DEF DispatchInv, DispatchTyped
<1>11. SoundCopy(i, r)'
  <2>1. Shaped(i, r)'
    BY <1>3, <1>4, <1>5 DEF SoundCopy, Shaped, NoRecord
  <2>2. Truthful(i, r)'
    BY <1>1, <1>3, <1>4, <1>5 DEF SoundCopy, Shaped, Truthful, Undone, Pending, ReturnState
  <2>3. Remembers(i, r)' /\ Linked(i, r)'
    BY <1>1, <1>3, <1>4, <1>5 DEF SoundCopy, Remembers, Linked, Kindred
  <2> QED BY <2>1, <2>2, <2>3 DEF SoundCopy
<1>12. Kindred(c, r) /\ ~IsVerdict(r) /\ ~Finished(r) /\ ~Finished(c) /\ c.state # "completed"
  BY <1>1, <1>5 DEF Kindred, IsVerdict, Finished
<1>13. ~IsVerdict(disk[i]) /\ (i \in DOMAIN journal => ~IsVerdict(journal[i]))
  BY <1>0, <1>1, <1>4, CurrentFacts DEF IsVerdict, Kindred
<1>14. CallMoves
  BY <1>1, <1>3, <1>6, <1>7, <1>10, DispatchBounds DEF CallMoves, DispatchInv, DispatchTyped
<1>15. CallWrites(i, r, mem)
  BY <1>0, <1>1, <1>4, <1>5, <1>10, <1>11, <1>12, <1>13 DEF CallWrites
<1> QED BY <1>5, <1>6, <1>8, <1>9, <1>10, <1>14, <1>15, OneWrite

(* The gate moves, or nothing does.                                         *)
GateMoves ==
  /\ issued' \in issued..MaxPacket /\ gate' \in [branch : 0..issued', stuck : BOOLEAN]
  /\ gate'.branch \in {0, gate.branch} \/ gate'.branch > issued
  /\ faults' \in Nat /\ (faults' = 0 => faults = 0)

(* Every copy that is left is sound, and a verdict is still final.          *)
LEMMA FinalStays ==
  ASSUME DispatchInv, GateMoves
  PROVE  \A y \in Packet, s \in Record :
            SoundCopy(y, s) /\ IsVerdict(s) /\ gate.branch # y => gate'.branch # y
<1>1. \A y \in Packet, s \in Record : SoundCopy(y, s) /\ IsVerdict(s) => y <= issued
  BY ReviewSource DEF SoundCopy, IsVerdict
<1> QED BY <1>1, DispatchBounds DEF Packet, DispatchInv, DispatchTyped, GateMoves

(* What the files hold is of records.                                       *)
LEMMA FilesTyped ==
  ASSUME DispatchInv
  PROVE  /\ \A i \in Packet : disk[i] \in Record /\ mem.records[i] \in Record /\ after.mem.records[i] \in Record
         /\ \A i \in DOMAIN journal : i \in Packet /\ journal[i] \in Record
         /\ \A k \in 1..Len(todo) :
              /\ todo[k] \in FileWrite /\ todo[k].undo \in Memory
              /\ \A i \in Packet : todo[k].undo.records[i] \in Record
              /\ \A i \in DOMAIN todo[k].files : i \in Packet /\ todo[k].files[i] \in Record
<1>1. \A i \in Packet : disk[i] \in Record /\ mem.records[i] \in Record /\ after.mem.records[i] \in Record
  BY DEF DispatchInv, DispatchTyped, Memory
<1>2. \A i \in DOMAIN journal : i \in Packet /\ journal[i] \in Record
  BY FileFacts DEF DispatchInv, DispatchTyped
<1>3. ASSUME NEW k \in 1..Len(todo)
      PROVE  todo[k] \in FileWrite /\ todo[k].files \in FileSet /\ todo[k].undo \in Memory
  <2>1. todo[k] \in FileWrite
    BY DEF DispatchInv, DispatchTyped
  <2> QED BY <2>1 DEF FileWrite
<1>4. ASSUME NEW k \in 1..Len(todo)
      PROVE  /\ \A i \in DOMAIN todo[k].files : i \in Packet /\ todo[k].files[i] \in Record
             /\ \A i \in Packet : todo[k].undo.records[i] \in Record
  BY <1>3, FileFacts DEF Memory
<1> QED BY <1>1, <1>2, <1>3, <1>4

(* Whatever happens to the gate alone, the records keep the invariant.      *)
LEMMA GateStep ==
  ASSUME DispatchInv, GateMoves,
         UNCHANGED <<disk, journal, pilot, mem, todo, after, target, effect, allowed, replayed>>
  PROVE  DispatchInv'
<1>1. (\A j \in Packet, s \in Record : SoundCopy(j, s) => SoundCopy(j, s)') /\ Unissued'
  BY SoundStays DEF GateMoves
<1>2. DispatchTyped'
  BY DispatchBounds DEF DispatchInv, DispatchTyped, GateMoves
<1>3. CopiesSound'
  BY <1>1, FilesTyped DEF DispatchInv, CopiesSound, SoundMemory, SoundFiles
<1>4. Resting' /\ InStep' /\ Links' /\ Guarding'
  BY DEF DispatchInv, Resting, InStep, Links, MemLinked, Guarding
<1>5. OnDisk'
  BY DEF DispatchInv, OnDisk, Known, Comes
<1>6. Nonces'
  BY DEF DispatchInv, Nonces
<1>7. VerdictFinal'
  BY FinalStays, FilesTyped DEF DispatchInv, VerdictFinal, Final, CopiesSound, SoundFiles
<1>8. ApprovalInv'
  <2>1. \A p \in Packet : Approved(p)' = Approved(p)
    BY DEF Approved
  <2>2. \A p \in Packet, k \in Nat : ApprovedBy(p, k)' = ApprovedBy(p, k)
    BY <2>1 DEF ApprovedBy
  <2>3. \A f : Batch(f)' = Batch(f)
    BY <2>1 DEF Batch
  <2>4. Len(todo) \in Nat /\ UNCHANGED <<disk, journal, mem, after, todo>>
    BY DEF DispatchInv, DispatchTyped
  <2> QED BY <2>1, <2>2, <2>3, <2>4, FilesTyped DEF DispatchInv, ApprovalInv
<1>9. CrashOnly'
  BY DEF DispatchInv, CrashOnly, GateMoves, Recovered, Replaying, Journalling, Recording, Outcome, Covered, Harmless
<1> QED BY <1>1, <1>2, <1>3, <1>4, <1>5, <1>6, <1>7, <1>8, <1>9 DEF DispatchInv

(* The process stops: what the files hold is all that is left.              *)
LEMMA StopStep ==
  ASSUME DispatchInv, GateMoves, Stop, UNCHANGED <<disk, journal, target, effect, allowed, replayed>>
  PROVE  DispatchInv'
<1>1. (\A j \in Packet, s \in Record : SoundCopy(j, s) => SoundCopy(j, s)') /\ Unissued'
  BY SoundStays DEF GateMoves
<1>2. /\ pilot' = "down" /\ mem' = Empty /\ todo' = << >> /\ Len(todo') = 0
      /\ after' = [mem |-> Empty, allow |-> {}]
      /\ after'.mem = Empty /\ after'.allow = {}
  BY DEF Stop, Settled
<1>3. Empty \in Memory /\ \A i \in Packet : Empty.records[i] = NoRecord
  BY DEF Empty, Memory, NoRecord, Record
<1>4. DispatchTyped'
  BY <1>2, <1>3, DispatchBounds DEF DispatchInv, DispatchTyped, GateMoves
<1>5. CopiesSound'
  <2>1. \A i \in Packet : SoundCopy(i, NoRecord)'
    BY DEF SoundCopy, Shaped, Truthful, Remembers, Linked, NoRecord
  <2> QED BY <1>1, <1>2, <1>3, <2>1, FilesTyped DEF DispatchInv, CopiesSound, SoundMemory, SoundFiles
<1>6. Resting' /\ InStep' /\ Guarding'
  BY <1>2 DEF Resting, InStep, Guarding
<1>7. OnDisk' /\ Links'
  <2>1. MemLinked(mem)' /\ MemLinked(after.mem)'
    BY <1>2, <1>3 DEF MemLinked, NoRecord
  <2>2. OnDisk'
    BY <1>2, <1>3 DEF DispatchInv, OnDisk
  <2> QED BY <1>2, <2>1, <2>2 DEF Links
<1>8. Nonces'
  BY <1>2 DEF DispatchInv, Nonces
<1>9. VerdictFinal'
  BY <1>2, FinalStays, FilesTyped DEF DispatchInv, VerdictFinal, Final, CopiesSound, SoundFiles
<1>10. ApprovalInv'
  <2>1. \A p \in Packet : Approved(p)' = Approved(p)
    BY DEF Approved
  <2>2. Batch(journal)' = Batch(journal)
    BY <2>1 DEF Batch
  <2>3. ~Finished(NoRecord)
    BY DEF Finished, NoRecord
  <2> QED BY <1>2, <1>3, <2>1, <2>2, <2>3 DEF DispatchInv, ApprovalInv
<1>11. CrashOnly'
  BY <1>2 DEF DispatchInv, CrashOnly, GateMoves, Recovered
<1> QED BY <1>1, <1>4, <1>5, <1>6, <1>7, <1>8, <1>9, <1>10, <1>11 DEF DispatchInv

(* The target uses its authorization: every copy of its record is still     *)
(* pending.                                                                 *)
LEMMA ToolStep ==
  ASSUME DispatchInv, NEW i \in Packet, NEW ok \in BOOLEAN, RunTool(i, ok)
  PROVE  DispatchInv'
<1>1. /\ target[i].at = "allowed" /\ target'[i].request = target[i].request
      /\ target'[i].at = (IF ok THEN "succeeded" ELSE "failed")
      /\ \A j \in Packet \ {i} : target'[j] = target[j] /\ effect'[j] = effect[j]
      /\ effect'[i] = (IF ok THEN target[i].request[1] = "grant" ELSE effect[i])
      /\ effect' \in [Packet -> BOOLEAN]
      /\ target' \in [Packet -> [request : {NoRequest} \cup Request, at : Journey]]
      /\ UNCHANGED <<gate, disk, journal, pilot, mem, todo, after, allowed, replayed, issued, faults>>
  BY DEF RunTool, counters, DispatchInv, DispatchTyped, Journey
<1>2. \A j \in Packet, s \in Record : SoundCopy(j, s) => SoundCopy(j, s)'
  <2>1. \A s \in Record : Truthful(i, s) => Truthful(i, s)'
    BY <1>1 DEF Truthful, Pending, Undone, DispatchInv, DispatchTyped
  <2>2. \A j \in Packet \ {i}, s \in Record : Truthful(j, s) => Truthful(j, s)'
    BY <1>1 DEF Truthful
  <2>3. \A j \in Packet, s \in Record : Shaped(j, s)' = Shaped(j, s) /\ Remembers(j, s)' = Remembers(j, s)
                                          /\ Linked(j, s)' = Linked(j, s)
    BY <1>1 DEF Shaped, Remembers, Linked
  <2> QED BY <2>1, <2>2, <2>3 DEF SoundCopy
<1>3. DispatchTyped'
  BY <1>1 DEF DispatchInv, DispatchTyped
<1>4. CopiesSound'
  BY <1>1, <1>2, FilesTyped DEF DispatchInv, CopiesSound, SoundMemory, SoundFiles
<1>5. Resting' /\ InStep' /\ Links'
  BY <1>1 DEF DispatchInv, Resting, InStep, Links, MemLinked
<1>6. Unissued' /\ Guarding'
  BY <1>1 DEF DispatchInv, Unissued, Guarding
<1>7. OnDisk'
  BY <1>1 DEF DispatchInv, OnDisk, Known, Comes
<1>8. Nonces'
  BY <1>1 DEF DispatchInv, Nonces
<1>9. VerdictFinal'
  BY <1>1 DEF DispatchInv, VerdictFinal, Final
<1>10. ApprovalInv'
  <2>1. \A p \in Packet : Approved(p)' = Approved(p)
    BY <1>1 DEF Approved
  <2>2. \A p \in Packet, k \in Nat : ApprovedBy(p, k)' = ApprovedBy(p, k)
    BY <1>1, <2>1 DEF ApprovedBy
  <2>3. \A f : Batch(f)' = Batch(f)
    BY <2>1 DEF Batch
  <2>4. Len(todo) \in Nat
    BY DEF DispatchInv, DispatchTyped
  <2> QED BY <1>1, <2>1, <2>2, <2>3, <2>4, FilesTyped DEF DispatchInv, ApprovalInv
<1>11. CrashOnly'
  BY <1>1 DEF DispatchInv, CrashOnly, Recovered, Replaying, Journalling, Recording, Outcome, Covered, Harmless
<1> QED BY <1>3, <1>4, <1>5, <1>6, <1>7, <1>8, <1>9, <1>10, <1>11 DEF DispatchInv

(* What the journal holds when it holds anything: a review and the work it  *)
(* is of.                                                                   *)
LEMMA JournalHolds ==
  ASSUME DispatchInv, journal # NoFiles
  PROVE  \E y, p \in Packet :
           /\ y # p /\ DOMAIN journal = {y, p}
           /\ JournalWrites = <<WriteRecord(y, journal[y], Empty), WriteRecord(p, journal[p], Empty),
                                RemoveJournal(Empty)>>
           /\ IsVerdict(journal[y]) /\ journal[y].source = p /\ journal[p].kind = "work"
           /\ (journal[y].review = "approved" => journal[p].state = "completed")
           /\ (Finished(journal[p]) => Approves(journal[y], p) \/ Approved(p))
<1>1. Batch(journal)
  BY DEF DispatchInv, ApprovalInv
<1>2. PICK y, p \in Packet :
        /\ p < y /\ DOMAIN journal = {y, p} /\ IsVerdict(journal[y]) /\ journal[y].source = p
        /\ journal[p].kind = "work"
        /\ journal[y].review = "approved" => journal[p].state = "completed"
        /\ Finished(journal[p]) => Approves(journal[y], p) \/ Approved(p)
  BY <1>1 DEF Batch
<1>3. y \in Int /\ p \in Int
  BY DispatchBounds DEF Packet
<1>4. (CHOOSE i \in DOMAIN journal : \A j \in DOMAIN journal : j <= i) = y
  BY <1>2, <1>3
<1>5. (CHOOSE i \in DOMAIN journal : i # y) = p
  BY <1>2, <1>3
<1>6. JournalWrites = <<WriteRecord(y, journal[y], Empty), WriteRecord(p, journal[p], Empty), RemoveJournal(Empty)>>
  BY <1>4, <1>5 DEF JournalWrites
<1> QED BY <1>2, <1>3, <1>6

(* The memory that is loaded from these records.                            *)
LEMMA LoadedFacts ==
  ASSUME NEW f \in [Packet -> Record]
  PROVE  /\ Loaded(f) \in Memory /\ Loaded(f).records = f
         /\ \A i \in Packet, n \in Request : n \in f[i].nonces => <<i, n>> \in Loaded(f).used
<1>1. \A i \in Packet : f[i].nonces \in SUBSET Request
  BY DEF Record
<1>2. UNION {{<<i, n>> : n \in f[i].nonces} : i \in Packet} \in SUBSET (Packet \X Request)
  BY <1>1
<1>3. \A i \in Packet, n \in Request : n \in f[i].nonces =>
         <<i, n>> \in UNION {{<<j, m>> : m \in f[j].nonces} : j \in Packet}
  OBVIOUS
<1> QED BY <1>2, <1>3 DEF Loaded, Memory

(* The memory that knows nothing.                                           *)
LEMMA EmptyFacts ==
  /\ Empty \in Memory /\ \A i \in Packet : Empty.records[i] = NoRecord
  /\ \A i \in Packet : DispatchInv => SoundCopy(i, NoRecord)
<1>1. Empty \in Memory /\ \A i \in Packet : Empty.records[i] = NoRecord
  BY DEF Empty, Memory, NoRecord, Record
<1>2. \A i \in Packet : SoundCopy(i, NoRecord)
  BY DEF SoundCopy, Shaped, Truthful, Remembers, Linked, NoRecord
<1> QED BY <1>1, <1>2

(* A restart loads the records, or begins to replay the journal.            *)
LEMMA RestartStep ==
  ASSUME DispatchInv, Restart
  PROVE  DispatchInv'
<1>1. /\ pilot = "down" /\ mem = Empty /\ todo = << >> /\ after = [mem |-> Empty, allow |-> {}]
      /\ UNCHANGED <<gate, disk, journal, target, effect, allowed, replayed, issued, faults>>
  BY DEF Restart, world, counters, DispatchInv, Resting
<1>2. (\A j \in Packet, s \in Record : SoundCopy(j, s) => SoundCopy(j, s)') /\ Unissued'
  BY <1>1, SoundStays DEF DispatchInv, DispatchTyped
<1>3. \A i \in Packet : SoundCopy(i, NoRecord)' /\ NoRecord \in Record
  BY <1>2, EmptyFacts DEF NoRecord, Record
<1>4. \A p \in Packet : Approved(p)' = Approved(p)
  BY <1>1 DEF Approved
<1>5. \A f : Batch(f)' = Batch(f)
  BY <1>4 DEF Batch
<1>6. (\A i \in Packet : SoundCopy(i, disk[i])') /\ SoundFiles(journal)'
  BY <1>1, <1>2, FilesTyped DEF DispatchInv, CopiesSound, SoundFiles
<1>7. CASE journal = NoFiles
  <2>1. pilot' = "up" /\ mem' = Loaded(disk) /\ todo' = << >> /\ Len(todo') = 0
          /\ after'.mem = Empty /\ after'.allow = {} /\ after' = after
    BY <1>1, <1>7 DEF Restart
  <2>2. disk \in [Packet -> Record]
    BY DEF DispatchInv, DispatchTyped
  <2>3. /\ mem' \in Memory /\ mem'.records = disk
        /\ \A i \in Packet, n \in Request : n \in disk[i].nonces => <<i, n>> \in mem'.used
    BY <2>1, <2>2, LoadedFacts
  <2>4. DispatchTyped' /\ Resting'
    BY <1>1, <2>1, <2>3, EmptyFacts DEF DispatchInv, DispatchTyped, Resting
  <2>5. CopiesSound'
    BY <1>3, <1>6, <1>1, <2>1, <2>3, EmptyFacts DEF CopiesSound, SoundMemory
  <2>6. InStep' /\ Guarding'
    BY <2>1 DEF InStep, Guarding
  <2>7. OnDisk'
    BY <1>1, <2>1, <2>3, EmptyFacts DEF DispatchInv, OnDisk
  <2>8. Links'
    <3>1. MemLinked(after.mem)'
      BY <2>1, EmptyFacts DEF MemLinked, NoRecord
    <3>2. MemLinked(mem)'
      BY <1>1, <2>3 DEF MemLinked, DispatchInv, CopiesSound, SoundCopy, Linked, NoRecord
    <3> QED BY <2>1, <3>1, <3>2 DEF Links
  <2>9. Nonces'
    <3>1. \A a \in allowed : a[1] \in Packet /\ a[2] \in Request /\ a = <<a[1], a[2]>>
      BY DEF DispatchInv, DispatchTyped
    <3> QED BY <1>1, <2>1, <2>3, <3>1 DEF DispatchInv, Nonces
  <2>10. VerdictFinal'
    BY <1>1, <2>1 DEF DispatchInv, VerdictFinal, Final
  <2>11. ApprovalInv'
    BY <1>1, <1>4, <1>5, <2>1, <2>3, EmptyFacts DEF DispatchInv, ApprovalInv, Finished, NoRecord
  <2>12. CrashOnly'
    BY <1>1, <1>7, <2>1, <2>3 DEF DispatchInv, CrashOnly, Recovered
  <2> QED BY <1>2, <2>4, <2>5, <2>6, <2>7, <2>8, <2>9, <2>10, <2>11, <2>12 DEF DispatchInv
<1>8. CASE journal # NoFiles
  <2>1. PICK y, p \in Packet :
           /\ y # p /\ DOMAIN journal = {y, p}
           /\ JournalWrites = <<WriteRecord(y, journal[y], Empty), WriteRecord(p, journal[p], Empty),
                                RemoveJournal(Empty)>>
           /\ IsVerdict(journal[y]) /\ journal[y].source = p /\ journal[p].kind = "work"
           /\ (journal[y].review = "approved" => journal[p].state = "completed")
           /\ (Finished(journal[p]) => Approves(journal[y], p) \/ Approved(p))
    BY <1>8, JournalHolds
  <2>2. /\ pilot' = "loading" /\ mem' = Empty /\ todo' = JournalWrites
        /\ after' = [mem |-> Loaded(Recovered), allow |-> {}]
    BY <1>1, <1>8 DEF Restart, Continue
  <2>3. PICK w1, w2, w3 : w1 = WriteRecord(y, journal[y], Empty) /\ w2 = WriteRecord(p, journal[p], Empty)
                            /\ w3 = RemoveJournal(Empty)
    OBVIOUS
  <2>4. /\ w1.place = "record" /\ DOMAIN w1.files = {y} /\ w1.files[y] = journal[y] /\ w1.undo = Empty
        /\ w2.place = "record" /\ DOMAIN w2.files = {p} /\ w2.files[p] = journal[p] /\ w2.undo = Empty
        /\ w3.place = "journal" /\ DOMAIN w3.files = {} /\ w3.undo = Empty /\ w3.files = NoFiles
    BY <2>3 DEF WriteRecord, RemoveJournal, WriteJournal, NoFiles
  <2>5. w1 \in FileWrite /\ w2 \in FileWrite /\ w3 \in FileWrite
    <3>1. journal[y] \in Record /\ journal[p] \in Record
      BY <2>1, FilesTyped
    <3>2. w1.files \in FileSet /\ w2.files \in FileSet
      BY <2>3, <3>1, FileMade DEF WriteRecord
    <3>3. w3.files \in FileSet
      <4>1. NoFiles \in [{} -> Record]
        BY DEF NoFiles
      <4> QED BY <2>4, <4>1, FileMade
    <3> QED BY <2>3, <3>2, <3>3, EmptyFacts DEF FileWrite, WriteRecord, RemoveJournal, WriteJournal
  <2>6. todo' = <<w1, w2, w3>> /\ todo' \in Seq(FileWrite) /\ Len(todo') = 3 /\ todo' # << >>
          /\ todo'[1] = w1 /\ todo'[2] = w2 /\ todo'[3] = w3
    BY <2>1, <2>2, <2>3, <2>5
  <2>7. \A k \in 1..Len(todo') : k \in {1, 2, 3} /\ todo'[k] \in {w1, w2, w3}
    BY <2>6
  <2>8. Recovered \in [Packet -> Record] /\ Recovered' = Recovered
          /\ \A i \in Packet : Recovered[i] = IF i \in {y, p} THEN journal[i] ELSE disk[i]
    BY <1>1, <2>1, FilesTyped DEF Recovered, Over
  <2>9. /\ after'.mem \in Memory /\ after'.mem.records = Recovered /\ after'.allow = {}
        /\ \A i \in Packet, n \in Request : n \in Recovered[i].nonces => <<i, n>> \in after'.mem.used
    BY <2>2, <2>8, LoadedFacts
  <2>10. DispatchTyped'
    BY <1>1, <2>2, <2>6, <2>9, EmptyFacts DEF DispatchInv, DispatchTyped
  <2>11. Resting' /\ Guarding'
    BY <2>2, <2>6, <2>9 DEF Resting, Guarding
  <2>12. \A i \in Packet : disk[i] # NoRecord => Recovered[i] # NoRecord
    BY <2>1, <2>8 DEF DispatchInv, CopiesSound, SoundFiles
  <2>13. CopiesSound'
    BY <1>1, <1>3, <1>6, <2>1, <2>2, <2>4, <2>7, <2>8, <2>9, EmptyFacts DEF CopiesSound, SoundMemory, SoundFiles
  <2>14. InStep'
    BY <2>4, <2>7, <2>8, <2>9, EmptyFacts DEF InStep, Kindred
  <2>15. OnDisk'
    <3>1. \A i \in Packet : Recovered[i] # NoRecord => disk[i] # NoRecord
      BY <2>1, <2>8 DEF DispatchInv, OnDisk
    <3> QED BY <1>1, <2>2, <2>4, <2>7, <2>9, <3>1, EmptyFacts DEF DispatchInv, OnDisk, Known
  <2>16. Links'
    <3>1. MemLinked(Empty)
      BY EmptyFacts DEF MemLinked, NoRecord
    <3>2. \A i \in Packet : SoundCopy(i, Recovered[i])
      BY <2>1, <2>8 DEF DispatchInv, CopiesSound, SoundFiles
    <3>3. \A i \in Packet : Recovered[i].kind = "review" =>
             Recovered[i].source \in Packet /\ Recovered[Recovered[i].source] # NoRecord
      <4>1. ASSUME NEW i \in Packet, Recovered[i].kind = "review"
            PROVE  /\ Recovered[i].source \in Packet
                   /\ disk[Recovered[i].source].kind = "work"
        BY <3>2, <4>1, ReviewSource DEF SoundCopy, Linked
      <4>2. NoRecord.kind # "work"
        BY DEF NoRecord
      <4> QED BY <2>12, <4>1, <4>2
    <3> QED BY <2>2, <2>4, <2>7, <2>9, <3>1, <3>3 DEF Links, MemLinked
  <2>17. Nonces'
    <3>1. \A a \in allowed : a[1] \in Packet /\ a[2] \in Request /\ a = <<a[1], a[2]>>
      BY DEF DispatchInv, DispatchTyped
    <3>2. \A a \in allowed : a[2] \in Recovered[a[1]].nonces
      BY <2>1, <2>8, <3>1 DEF DispatchInv, Nonces, CopiesSound, SoundFiles, SoundCopy, Remembers
    <3> QED BY <1>1, <2>2, <2>9, <3>1, <3>2 DEF DispatchInv, Nonces
  <2>18. VerdictFinal'
    <3>1. \A k \in 1..Len(todo'), z \in Packet : z \in DOMAIN todo'[k].files =>
             z \in DOMAIN journal /\ todo'[k].files[z] = journal[z]
      BY <2>1, <2>4, <2>7
    <3>2. \A k \in 1..Len(todo') : DOMAIN todo'[k].files \subseteq Packet
      BY <2>4, <2>7
    <3>3. \A z \in Packet : Final(z, disk[z])' /\ (z \in DOMAIN journal => Final(z, journal[z])')
      BY <1>1, <3>1 DEF DispatchInv, VerdictFinal, Final
    <3> QED BY <1>1, <2>1, <3>1, <3>2, <3>3 DEF VerdictFinal
  <2>19. ~Finished(journal[y])
    BY <2>1 DEF DispatchInv, CopiesSound, SoundFiles, SoundCopy, Shaped, IsVerdict, Finished
  <2>20. Finished(journal[p]) => ApprovedBy(p, 2)' /\ ApprovedBy(p, 4)'
    BY <1>4, <2>1, <2>4, <2>6 DEF ApprovedBy
  <2>21. ApprovalInv'
    <3>1. \A q \in Packet : Finished(Recovered[q]) => ApprovedBy(q, 4)'
      BY <1>4, <2>8, <2>19, <2>20 DEF DispatchInv, ApprovalInv, ApprovedBy
    <3>2. \A q \in Packet : ~Finished(Empty.records[q])
      BY EmptyFacts DEF Finished, NoRecord
    <3> QED BY <1>1, <1>4, <1>5, <2>2, <2>4, <2>6, <2>7, <2>9, <2>19, <2>20, <3>1, <3>2 DEF DispatchInv, ApprovalInv
  <2>22. CrashOnly'
    <3>1. Replaying'
      BY <1>1, <2>1, <2>4, <2>6 DEF Replaying, Covered
    <3>2. \A i \in Packet : Outcome(i)'
      BY <2>1, <2>4, <2>6, <2>7, <2>8, <2>9 DEF Outcome
    <3> QED BY <1>1, <1>8, <2>6, <2>8, <3>1, <3>2 DEF DispatchInv, CrashOnly
  <2> QED BY <1>2, <2>10, <2>11, <2>13, <2>14, <2>15, <2>16, <2>17, <2>18, <2>21, <2>22 DEF DispatchInv
<1> QED BY <1>7, <1>8

(* What a call that begins leaves alone, and what stays true of it.         *)
CallFrame ==
  Idle /\ UNCHANGED <<disk, journal, pilot, mem, effect, allowed, replayed, faults>>

(* What a call that begins leaves alone is as sound as it was.              *)
LEMMA OldParts ==
  ASSUME DispatchInv, CallFrame, CallMoves
  PROVE  /\ \A i \in Packet : SoundCopy(i, disk[i])' /\ SoundCopy(i, mem.records[i])'
         /\ SoundFiles(journal)' /\ SoundMemory(mem)' /\ MemLinked(mem)
         /\ \A p \in Packet : Approved(p)' = Approved(p)
         /\ \A f : Batch(f)' = Batch(f)
         /\ \A z \in Packet : IsVerdict(disk[z]) => gate.branch # z /\ gate'.branch # z
         /\ \A z \in DOMAIN journal : IsVerdict(journal[z]) => gate.branch # z /\ gate'.branch # z
         /\ \A z \in DOMAIN journal : IsVerdict(disk[z]) => journal[z] = disk[z]
         /\ \A p \in Packet : Finished(disk[p]) \/ Finished(mem.records[p]) => Approved(p)
         /\ journal # NoFiles => Batch(journal)
<1>1. CallMoves /\ UNCHANGED <<disk, journal, pilot, mem, faults>>
  BY DEF CallFrame
<1>2. GateMoves
  BY <1>1 DEF CallMoves, GateMoves, DispatchInv, DispatchTyped
<1>3. \A i \in Packet : SoundCopy(i, disk[i])' /\ SoundCopy(i, mem.records[i])'
  BY <1>1, FilesTyped DEF DispatchInv, CopiesSound, SoundMemory, CallMoves
<1>4. SoundFiles(journal)' /\ SoundMemory(mem)' /\ MemLinked(mem)
  BY <1>1, FilesTyped DEF DispatchInv, CopiesSound, SoundMemory, SoundFiles, CallMoves, Links
<1>5. \A p \in Packet : Approved(p)' = Approved(p)
  BY <1>1 DEF Approved
<1>6. \A f : Batch(f)' = Batch(f)
  BY <1>5 DEF Batch
<1>7. \A z \in Packet : IsVerdict(disk[z]) => gate.branch # z /\ gate'.branch # z
  BY <1>2, FinalStays, FilesTyped DEF DispatchInv, VerdictFinal, Final, CopiesSound
<1>8. \A z \in DOMAIN journal : IsVerdict(journal[z]) => gate.branch # z /\ gate'.branch # z
  BY <1>2, FinalStays, FilesTyped DEF DispatchInv, VerdictFinal, Final, CopiesSound, SoundFiles
<1>9. \A z \in DOMAIN journal : IsVerdict(disk[z]) => journal[z] = disk[z]
  BY FilesTyped DEF DispatchInv, VerdictFinal, Final
<1> QED BY <1>3, <1>4, <1>5, <1>6, <1>7, <1>8, <1>9 DEF DispatchInv, ApprovalInv

(* Where no file operation failed, a call begins with what is on disk.      *)
LEMMA CrashOnlyParts ==
  ASSUME DispatchInv, CallFrame, faults = 0
  PROVE  /\ journal = NoFiles /\ journal' = NoFiles /\ mem.records = disk /\ Together(disk)
         /\ Together(Recovered)' /\ \A i \in Packet : Recovered'[i] = disk[i]
<1>1. journal = NoFiles /\ mem.records = disk /\ Together(Recovered)
  BY DEF DispatchInv, CrashOnly, CallFrame, Idle
<1>2. Recovered = disk
  BY <1>1 DEF Recovered, Over, NoFiles, DispatchInv, DispatchTyped
<1>3. Recovered' = Recovered /\ journal' = journal
  BY DEF CallFrame, Recovered
<1> QED BY <1>1, <1>2, <1>3 DEF Together

(* A review is dispatched: its record, and the packet it is of.             *)
LEMMA ReviewStep ==
  ASSUME DispatchInv, NEW p \in Packet, RequireYodaReview(p)
  PROVE  DispatchInv'
<1>0. PICK y, r, c, d, w1, w2, u :
        /\ y = issued + 1 /\ r = Delegated("review", FALSE, p) /\ c = mem.records[p]
        /\ d = [c EXCEPT !.review = "dispatched"] /\ u = [mem EXCEPT !.records[y] = r]
        /\ w1 = WriteRecord(y, r, mem) /\ w2 = WriteRecord(p, d, u)
  OBVIOUS
<1>1. y \in Packet /\ y \in issued..MaxPacket /\ y > issued
  BY <1>0, DispatchBounds DEF RequireYodaReview, OpenBranch, Packet, DispatchInv, DispatchTyped
<1>2. /\ Idle /\ c.state = "pending_review" /\ c.trigger
      /\ todo' = <<w1, w2>> /\ after' = [mem |-> [u EXCEPT !.records[p] = d], allow |-> {}]
      /\ issued' = y /\ gate' = [gate EXCEPT !.branch = y] /\ gate.branch = 0
      /\ UNCHANGED <<disk, journal, pilot, mem, world, expired, crashes, faults>>
  BY <1>0 DEF RequireYodaReview, OpenBranch, Continue, With, Current
<1>3. UNCHANGED <<target, effect, allowed, replayed>>
  BY <1>2 DEF world
<1>4. c \in Record /\ SoundCopy(p, c) /\ c # NoRecord /\ c.kind = "work" /\ p < y /\ p # y
  <2>1. c \in Record /\ SoundCopy(p, c) /\ c # NoRecord
    BY <1>0, <1>2, CurrentFacts DEF NoRecord
  <2>2. c.kind = "work" /\ p <= issued
    BY <1>2, <2>1 DEF SoundCopy, Shaped, Record
  <2> QED BY <2>1, <2>2, <1>1, DispatchBounds DEF Packet, DispatchInv, DispatchTyped
<1>5. r \in Record /\ r.state = "delegated" /\ r.kind = "review" /\ r.trigger = FALSE /\ r.source = p
        /\ r.errand = "none" /\ r.nonces = {} /\ r # NoRecord
  BY <1>0 DEF Delegated, Record, NoRecord
<1>6. d \in Record /\ d.state = "pending_review" /\ d.kind = "work" /\ d.trigger /\ d.source = c.source
        /\ d.errand = c.errand /\ d.nonces = c.nonces /\ d # NoRecord /\ Kindred(c, d)
  BY <1>0, <1>2, <1>4 DEF Record, NoRecord, Kindred
<1>7. mem \in Memory /\ u \in Memory /\ after' \in [mem : Memory, allow : SUBSET (Packet \X Request)]
        /\ after'.mem \in Memory
  BY <1>0, <1>1, <1>2, <1>5, <1>6 DEF DispatchInv, DispatchTyped, Memory
<1>8. /\ \A i \in Packet : /\ u.records[i] = IF i = y THEN r ELSE mem.records[i]
                           /\ after'.mem.records[i] = IF i = y THEN r ELSE IF i = p THEN d ELSE mem.records[i]
      /\ u.used = mem.used /\ after'.mem.used = mem.used /\ after'.allow = {}
  BY <1>0, <1>1, <1>2, <1>4, <1>7 DEF Memory, DispatchInv, DispatchTyped
<1>9. /\ w1 \in FileWrite /\ w1.place = "record" /\ DOMAIN w1.files = {y} /\ w1.files[y] = r /\ w1.undo = mem
      /\ w2 \in FileWrite /\ w2.place = "record" /\ DOMAIN w2.files = {p} /\ w2.files[p] = d /\ w2.undo = u
  BY <1>0, <1>1, <1>5, <1>6, <1>7, FileMade DEF FileWrite, WriteRecord
<1>10. todo' \in Seq(FileWrite) /\ Len(todo') = 2 /\ todo' # << >> /\ todo'[1] = w1 /\ todo'[2] = w2
  BY <1>2, <1>9
<1>11. \A k \in 1..Len(todo') : k \in {1, 2} /\ todo'[k] \in {w1, w2}
  BY <1>10
<1>12. (\A j \in Packet, s \in Record : SoundCopy(j, s) => SoundCopy(j, s)') /\ Unissued'
  BY <1>1, <1>2, <1>3, SoundStays
<1>13. CallMoves /\ CallFrame
  BY <1>1, <1>2, <1>3, <1>7, <1>8, <1>12, DispatchBounds DEF CallMoves, CallFrame, DispatchInv, DispatchTyped
<1>14. mem.records[y] = NoRecord /\ disk[y] = NoRecord /\ y \notin DOMAIN journal /\ disk[p] # NoRecord
         /\ disk[p].kind = "work" /\ disk[p].trigger /\ Kindred(c, disk[p])
  BY <1>0, <1>1, <1>2, <1>4, FreshPacket, CurrentFacts DEF Kindred
<1>15. SoundCopy(y, r)'
  <2>1. Shaped(y, r)'
    BY <1>1, <1>2, <1>4, <1>5, DispatchBounds DEF Shaped, NoRecord, Packet
  <2>2. Truthful(y, r)'
    BY <1>5 DEF Truthful
  <2>3. Remembers(y, r)' /\ Linked(y, r)'
    BY <1>1, <1>2, <1>3, <1>5, <1>14, FreshPacket DEF Remembers, Linked
  <2> QED BY <2>1, <2>2, <2>3 DEF SoundCopy
<1>16. SoundCopy(p, d)'
  <2>1. SoundCopy(p, c)'
    BY <1>4, <1>12
  <2>2. Shaped(p, d)'
    BY <1>4, <1>6, <2>1 DEF SoundCopy, Shaped, NoRecord
  <2>3. Truthful(p, d)'
    BY <1>6 DEF Truthful
  <2>4. Remembers(p, d)' /\ Linked(p, d)'
    BY <1>4, <1>6, <1>14, <1>2, <2>1 DEF SoundCopy, Remembers, Linked, Kindred
  <2> QED BY <2>2, <2>3, <2>4 DEF SoundCopy
<1>17. DispatchTyped' /\ Resting' /\ Guarding'
  BY <1>2, <1>3, <1>7, <1>8, <1>10, <1>13 DEF DispatchInv, DispatchTyped, Resting, Guarding, CallMoves, Idle
<1>18. CopiesSound'
  BY <1>2, <1>5, <1>6, <1>8, <1>9, <1>11, <1>13, <1>15, <1>16, OldParts DEF CopiesSound, SoundMemory, SoundFiles
<1>19. InStep'
  <2>1. \A i \in Packet : mem.records[i] # NoRecord => Kindred(mem.records[i], after'.mem.records[i])
    BY <1>0, <1>4, <1>6, <1>8, <1>14 DEF Kindred
  <2>2. \A i \in Packet : u.records[i] # NoRecord => Kindred(u.records[i], after'.mem.records[i])
    <3>1. \A i \in Packet \ {y} : u.records[i] = mem.records[i]
      BY <1>8
    <3>2. Kindred(u.records[y], after'.mem.records[y])
      BY <1>1, <1>8 DEF Kindred
    <3> QED BY <2>1, <3>1, <3>2
  <2>3. Kindred(r, after'.mem.records[y]) /\ Kindred(d, after'.mem.records[p])
    BY <1>1, <1>4, <1>8 DEF Kindred
  <2> QED BY <1>9, <1>11, <2>1, <2>2, <2>3 DEF InStep, Kindred
<1>20. OnDisk'
  <2>1. \A k \in 2..3 : Comes(y, k)'
    BY <1>9, <1>10 DEF Comes
  <2>2. \A i \in Packet : mem.records[i] # NoRecord => disk[i] # NoRecord
    BY CurrentFacts
  <2> QED BY <1>2, <1>8, <1>9, <1>10, <1>11, <1>14, <2>1, <2>2 DEF DispatchInv, OnDisk, Known
<1>21. Links'
  <2>1. \A z \in Packet : mem.records[z].kind = "review" =>
           mem.records[z].source \in Packet /\ mem.records[mem.records[z].source] # NoRecord
    BY <1>13, OldParts, CurrentFacts, ReviewSource DEF MemLinked, SoundCopy
  <2>2. MemLinked(mem)' /\ MemLinked(u) /\ MemLinked(after'.mem)
    <3>1. MemLinked(mem)'
      BY <1>2, <2>1 DEF MemLinked
    <3>2. MemLinked(u)
      <4>1. ASSUME NEW z \in Packet \ {y}, u.records[z].kind = "review"
            PROVE  u.records[u.records[z].source] # NoRecord
        <5>1. u.records[z] = mem.records[z]
          BY <1>8
        <5> QED BY <1>5, <1>8, <2>1, <4>1, <5>1
      <4>2. u.records[y].kind = "review" => u.records[u.records[y].source] # NoRecord
        <5>1. u.records[y] = r /\ u.records[p] = c
          BY <1>0, <1>1, <1>4, <1>8
        <5> QED BY <1>4, <1>5, <5>1
      <4> QED BY <4>1, <4>2 DEF MemLinked
    <3>3. d.kind # "review" /\ r.source = p
      BY <1>5, <1>6
    <3>4. MemLinked(after'.mem)
      BY <1>4, <1>5, <1>6, <1>8, <2>1, <3>3 DEF MemLinked
    <3> QED BY <3>1, <3>2, <3>4
  <2> QED BY <1>2, <1>9, <1>11, <2>2 DEF Links, MemLinked
<1>22. Nonces'
  BY <1>2, <1>3, <1>8, <1>9, <1>10, <1>11 DEF DispatchInv, Nonces, Idle
<1>23. ~IsVerdict(r) /\ ~IsVerdict(d) /\ ~IsVerdict(disk[y]) /\ ~IsVerdict(disk[p])
         /\ (p \in DOMAIN journal => ~IsVerdict(journal[p]))
  BY <1>5, <1>6, <1>14, CurrentFacts DEF IsVerdict, NoRecord, Kindred
<1>24. VerdictFinal'
  BY <1>2, <1>9, <1>11, <1>13, <1>14, <1>23, OldParts, FilesTyped DEF VerdictFinal, Final
<1>25. ApprovalInv'
  <2>1. ~Finished(r) /\ ~Finished(d)
    BY <1>5, <1>6 DEF Finished
  <2> QED BY <1>2, <1>8, <1>9, <1>11, <1>13, <2>1, OldParts DEF ApprovalInv, ApprovedBy
<1>26. CrashOnly'
  <2>1. CASE faults = 0
    <3>1. mem.records = disk /\ Together(Recovered)' /\ journal' = NoFiles /\ \A i \in Packet : Recovered'[i] = disk[i]
      BY <1>13, <2>1, CrashOnlyParts
    <3>2. Recording'
      <4>1. disk'[p].state # "completed" /\ disk'[y].state # "completed"
        BY <1>0, <1>2, <1>14, <3>1 DEF NoRecord
      <4>2. Harmless(w1.files)' /\ Harmless(w2.files)'
        BY <1>5, <1>6, <1>9, <4>1 DEF Harmless, Approves
      <4> QED BY <1>9, <1>11, <4>2 DEF Recording, Harmless
    <3>3. \A i \in Packet : Outcome(i)'
      BY <1>4, <1>8, <1>9, <1>10, <1>11, <3>1 DEF Outcome
    <3> QED BY <1>10, <3>1, <3>2, <3>3 DEF CrashOnly
  <2> QED BY <1>2, <2>1 DEF CrashOnly
<1> QED BY <1>12, <1>17, <1>18, <1>19, <1>20, <1>21, <1>22, <1>24, <1>25, <1>26 DEF DispatchInv

(* The record of a packet that has none.                                    *)
LEMMA NoRecordFacts ==
  NoRecord \in Record /\ NoRecord.kind = "none" /\ NoRecord.state = "absent" /\ NoRecord.trigger = FALSE
BY DEF NoRecord, Record

(* The record of a review that is closed.                                   *)
LEMMA ClosedFacts ==
  ASSUME NEW c \in Record, c.kind = "review", NEW state \in {"completed", "failed"},
         NEW review \in {"unavailable"} \cup Verdict
  PROVE  /\ Closed(c, state, review) \in Record /\ Closed(c, state, review).state = state
         /\ Closed(c, state, review).kind = "review" /\ Closed(c, state, review).trigger = c.trigger
         /\ Closed(c, state, review).source = c.source /\ Closed(c, state, review).review = review
         /\ Closed(c, state, review).errand = c.errand /\ Closed(c, state, review).nonces = c.nonces
BY DEF Record, Closed, Verdict

(* The record that carries a verdict, and the work that has become          *)
(* complete.                                                                *)
Marked(b, review) == [b EXCEPT !.review = review]
Judged(b, review, state) == [b EXCEPT !.review = review, !.state = state]

(* The work that a verdict is on, with its state.                           *)
LEMMA JudgedFacts ==
  ASSUME NEW b \in Record, NEW review \in {"unavailable"} \cup Verdict, NEW state \in {"completed", b.state}
  PROVE  /\ Judged(b, review, state) \in Record /\ Judged(b, review, state).state = state
         /\ Judged(b, review, state).kind = b.kind /\ Judged(b, review, state).trigger = b.trigger
         /\ Judged(b, review, state).source = b.source /\ Judged(b, review, state).review = review
         /\ Judged(b, review, state).errand = b.errand /\ Judged(b, review, state).nonces = b.nonces
BY DEF Record, Verdict, Judged

(* The work that a review is marked on.                                     *)
LEMMA MarkedFacts ==
  ASSUME NEW b \in Record, NEW review \in {"unavailable"} \cup Verdict
  PROVE  /\ Marked(b, review) \in Record /\ Marked(b, review).state = b.state
         /\ Marked(b, review).kind = b.kind /\ Marked(b, review).trigger = b.trigger
         /\ Marked(b, review).source = b.source /\ Marked(b, review).review = review
         /\ Marked(b, review).errand = b.errand /\ Marked(b, review).nonces = b.nonces
BY DEF Record, Verdict, Marked

(* The review that holds the branch, and the packet it is of.               *)
LEMMA ReviewHeld ==
  ASSUME DispatchInv, Idle, NEW y \in Packet, CloseBranch(y), NEW c, NEW p, NEW b,
         c = mem.records[y], p = c.source, b = mem.records[p],
         c.state = "delegated", c.kind = "review"
  PROVE  /\ c \in Record /\ SoundCopy(y, c) /\ ~c.trigger /\ c # NoRecord
         /\ disk[y] # NoRecord /\ Kindred(c, disk[y]) /\ ~IsVerdict(disk[y]) /\ y \notin DOMAIN journal
         /\ p \in Packet /\ p < y /\ p # y
         /\ b \in Record /\ SoundCopy(p, b) /\ b # NoRecord /\ b.kind = "work" /\ b.trigger
         /\ disk[p] # NoRecord /\ Kindred(b, disk[p]) /\ disk[p].kind = "work"
         /\ (p \in DOMAIN journal => journal[p].kind = "work")
         /\ gate.branch = y /\ y # 0
<1>1. c \in Record /\ SoundCopy(y, c) /\ c # NoRecord /\ disk[y] # NoRecord /\ Kindred(c, disk[y])
  <2>1. c # NoRecord
    BY NoRecordFacts
  <2> QED BY <2>1, CurrentFacts
<1>2. ~c.trigger /\ p \in Packet /\ p # y /\ p < y /\ gate.branch = y /\ y # 0
  <2>1. p \in 1..(y - 1) /\ ~c.trigger
    BY <1>1 DEF SoundCopy, Shaped
  <2> QED BY <2>1, DispatchBounds DEF Packet, CloseBranch, OwnsBranch
<1>3. disk[p].kind = "work" /\ disk[p].trigger /\ disk[p] # NoRecord
  BY <1>1 DEF SoundCopy, Linked, NoRecord
<1>4. b # NoRecord
  BY <1>1 DEF DispatchInv, Links, MemLinked
<1>5. b \in Record /\ SoundCopy(p, b) /\ Kindred(b, disk[p])
  BY <1>2, <1>4, CurrentFacts
<1>6. b.kind = "work" /\ b.trigger
  BY <1>3, <1>5 DEF Kindred
<1>7. ~IsVerdict(disk[y])
  BY <1>2 DEF DispatchInv, VerdictFinal, Final
<1>8. y \notin DOMAIN journal
  <2>1. SUFFICES ASSUME y \in DOMAIN journal PROVE FALSE
    OBVIOUS
  <2>2. journal # NoFiles
    BY <2>1 DEF NoFiles
  <2>3. PICK q \in DOMAIN journal : IsVerdict(journal[q]) /\ \A i \in DOMAIN journal : i = q \/ journal[i].kind = "work"
    BY <2>2, JournalHolds
  <2>4. gate.branch # q
    BY <2>3 DEF DispatchInv, VerdictFinal, Final
  <2>5. journal[y].kind = "work" /\ journal[y].kind = disk[y].kind
    BY <1>2, <2>1, <2>3, <2>4, CurrentFacts DEF Kindred
  <2> QED BY <1>1, <2>5 DEF Kindred
<1>9. p \in DOMAIN journal => journal[p].kind = "work"
  BY <1>2, <1>3, CurrentFacts DEF Kindred
<1> QED BY <1>1, <1>2, <1>3, <1>4, <1>5, <1>6, <1>7, <1>8, <1>9

(* A review returns its verdict: the batch of the two records.              *)
LEMMA VerdictStep ==
  ASSUME DispatchInv, NEW y \in Packet, NEW verdict \in Verdict, ReturnYodaReview(y, verdict)
  PROVE  DispatchInv'
<1>0. PICK c, p, b : c = mem.records[y] /\ p = c.source /\ b = mem.records[p]
  OBVIOUS
<1>3. /\ c \in Record /\ SoundCopy(y, c) /\ ~c.trigger /\ c # NoRecord
      /\ disk[y] # NoRecord /\ Kindred(c, disk[y]) /\ ~IsVerdict(disk[y]) /\ y \notin DOMAIN journal
      /\ p \in Packet /\ p < y /\ p # y
      /\ b \in Record /\ SoundCopy(p, b) /\ b # NoRecord /\ b.kind = "work" /\ b.trigger
      /\ disk[p] # NoRecord /\ Kindred(b, disk[p]) /\ disk[p].kind = "work"
      /\ (p \in DOMAIN journal => journal[p].kind = "work")
      /\ gate.branch = y /\ y # 0 /\ c.state = "delegated" /\ c.kind = "review" /\ Idle /\ CloseBranch(y)
  <2>1. c.state = "delegated" /\ c.kind = "review" /\ Idle /\ CloseBranch(y)
    BY <1>0 DEF ReturnYodaReview, Close, Current
  <2> QED BY <1>0, <2>1, ReviewHeld
<1>9. PICK state \in {"completed", b.state} : state = (IF verdict = "approved" THEN "completed" ELSE b.state)
  OBVIOUS
<1>10. PICK r, d, e : r = Closed(c, "completed", verdict) /\ d = Judged(b, verdict, state) /\ e = Marked(c, verdict)
  OBVIOUS
<1>11. PICK u : u = [mem EXCEPT !.records[y] = e]
  OBVIOUS
<1>12. PICK f, w1, w2, w3, w4 :
        /\ f = [j \in {y, p} |-> IF j = y THEN r ELSE d]
        /\ w1 = WriteJournal(f, u) /\ w2 = WriteRecord(y, r, u) /\ w3 = WriteRecord(p, d, u) /\ w4 = RemoveJournal(u)
  OBVIOUS
<1>1. /\ todo' = <<w1, w2, w3, w4>>
      /\ after' = [mem |-> [[mem EXCEPT !.records[y] = r] EXCEPT !.records[p] = d], allow |-> {}]
      /\ UNCHANGED <<disk, journal, pilot, mem, world, expired, crashes, faults>>
  <2>1. mem.records \in [Packet -> Record] /\ mem \in [records : [Packet -> Record], used : SUBSET (Packet \X Request)]
    BY DEF DispatchInv, DispatchTyped, Memory
  <2>2. u = [mem EXCEPT !.records[y].review = verdict]
    BY <1>0, <1>10, <1>11, <2>1 DEF Marked
  <2>3. d = [b EXCEPT !.review = verdict, !.state = IF verdict = "approved" THEN "completed" ELSE @]
    BY <1>9, <1>10 DEF Judged
  <2> QED BY <1>0, <1>10, <1>12, <2>2, <2>3 DEF ReturnYodaReview, Continue, With, Current, WriteBatch
<1>2. UNCHANGED <<issued, target, effect, allowed, replayed>> /\ gate'.branch = 0 /\ gate' \in [branch : 0..issued', stuck : BOOLEAN]
  BY <1>1, <1>3 DEF world, CloseBranch, DispatchInv, DispatchTyped
<1>4. /\ r \in Record /\ r.state = "completed" /\ r.kind = "review" /\ ~r.trigger /\ r.source = p
      /\ r.review = verdict /\ r.errand = c.errand /\ r.nonces = c.nonces /\ r # NoRecord /\ Kindred(c, r)
  <2>1. /\ r \in Record /\ r.state = "completed" /\ r.kind = "review" /\ r.trigger = c.trigger
        /\ r.source = c.source /\ r.review = verdict /\ r.errand = c.errand /\ r.nonces = c.nonces
    <3>1. c \in Record /\ c.kind = "review" /\ r = Closed(c, "completed", verdict)
      BY <1>3, <1>10
    <3>2. verdict \in {"unavailable"} \cup Verdict
      OBVIOUS
    <3> QED BY <3>1, <3>2, ClosedFacts
  <2> QED BY <1>0, <1>3, <2>1, NoRecordFacts DEF Kindred
<1>5. /\ d \in Record /\ d.kind = "work" /\ d.trigger /\ Kindred(b, d) /\ d.source = b.source
      /\ d.errand = b.errand /\ d.nonces = b.nonces
      /\ d.state = state /\ d # NoRecord
  <2>1. /\ d \in Record /\ d.state = state /\ d.kind = b.kind /\ d.trigger = b.trigger
        /\ d.source = b.source /\ d.errand = b.errand /\ d.nonces = b.nonces
    <3>1. b \in Record /\ d = Judged(b, verdict, state)
      BY <1>3, <1>10
    <3>2. verdict \in {"unavailable"} \cup Verdict /\ state \in {"completed", b.state}
      OBVIOUS
    <3> QED BY <3>1, <3>2, JudgedFacts
  <2> QED BY <1>3, <2>1, NoRecordFacts DEF Kindred
<1>6. /\ e \in Record /\ e.kind = "review" /\ ~e.trigger /\ Kindred(c, e) /\ e.source = c.source
      /\ e.errand = c.errand /\ e.nonces = c.nonces /\ e.state = "delegated" /\ e # NoRecord
  <2>1. /\ e \in Record /\ e.state = c.state /\ e.kind = c.kind /\ e.trigger = c.trigger
        /\ e.source = c.source /\ e.errand = c.errand /\ e.nonces = c.nonces
    <3>1. c \in Record /\ e = Marked(c, verdict)
      BY <1>3, <1>10
    <3>2. verdict \in {"unavailable"} \cup Verdict
      OBVIOUS
    <3> QED BY <3>1, <3>2, MarkedFacts
  <2> QED BY <1>3, <2>1, NoRecordFacts DEF Kindred
<1>7. mem \in Memory /\ u \in Memory /\ after' \in [mem : Memory, allow : SUBSET (Packet \X Request)]
        /\ after'.mem \in Memory
  <2>1. mem \in Memory /\ [mem EXCEPT !.records[y] = r] \in Memory /\ u \in Memory
    BY <1>11, <1>4, <1>6 DEF DispatchInv, DispatchTyped, Memory
  <2>2. ASSUME NEW m \in Memory PROVE [m EXCEPT !.records[p] = d] \in Memory
    BY <1>5, <1>3 DEF Memory
  <2> QED BY <1>1, <2>1, <2>2
<1>8. /\ \A i \in Packet : /\ u.records[i] = IF i = y THEN e ELSE mem.records[i]
                           /\ after'.mem.records[i] = IF i = y THEN r ELSE IF i = p THEN d ELSE mem.records[i]
      /\ u.used = mem.used /\ after'.mem.used = mem.used /\ after'.allow = {}
  <2>1. /\ \A i \in Packet : u.records[i] = IF i = y THEN e ELSE mem.records[i]
        /\ u.used = mem.used
    BY <1>11, <1>3, <1>7 DEF Memory
  <2>2. PICK m : m = [mem EXCEPT !.records[y] = r]
    OBVIOUS
  <2>3. m \in Memory /\ m.used = mem.used /\ \A i \in Packet : m.records[i] = IF i = y THEN r ELSE mem.records[i]
    BY <1>3, <1>4, <1>7, <2>2 DEF Memory
  <2>4. after'.mem = [m EXCEPT !.records[p] = d] /\ after'.allow = {}
    BY <1>1, <2>2
  <2>5. after'.mem.used = mem.used /\ \A i \in Packet : after'.mem.records[i] = IF i = p THEN d ELSE m.records[i]
    BY <1>3, <2>3, <2>4 DEF Memory
  <2> QED BY <1>3, <2>1, <2>3, <2>4, <2>5
<1>13. f \in FileSet /\ DOMAIN f = {y, p} /\ f[y] = r /\ f[p] = d /\ f # NoFiles
  <2>1. f \in [{y, p} -> Record]
    BY <1>4, <1>5, <1>12
  <2> QED BY <1>3, <1>12, <2>1, FileMade DEF NoFiles
<1>14. /\ w1.place = "journal" /\ w1.files = f /\ w1.undo = u
       /\ w2.place = "record" /\ DOMAIN w2.files = {y} /\ w2.files[y] = r /\ w2.undo = u
       /\ w3.place = "record" /\ DOMAIN w3.files = {p} /\ w3.files[p] = d /\ w3.undo = u
       /\ w4.place = "journal" /\ DOMAIN w4.files = {} /\ w4.files = NoFiles /\ w4.undo = u
  BY <1>12 DEF WriteRecord, RemoveJournal, WriteJournal, NoFiles
<1>15. w1 \in FileWrite /\ w2 \in FileWrite /\ w3 \in FileWrite /\ w4 \in FileWrite
  <2>1. w2.files \in FileSet /\ w3.files \in FileSet
    BY <1>3, <1>4, <1>5, <1>12, FileMade DEF WriteRecord
  <2>2. NoFiles \in FileSet
    <3>1. NoFiles \in [{} -> Record]
      BY DEF NoFiles
    <3> QED BY <3>1, FileMade
  <2> QED BY <1>7, <1>12, <1>13, <2>1, <2>2 DEF FileWrite, WriteRecord, RemoveJournal, WriteJournal
<1>16. /\ todo' \in Seq(FileWrite) /\ Len(todo') = 4 /\ todo' # << >>
       /\ todo'[1] = w1 /\ todo'[2] = w2 /\ todo'[3] = w3 /\ todo'[4] = w4
  BY <1>1, <1>15
<1>17. \A k \in 1..Len(todo') : k \in {1, 2, 3, 4} /\ todo'[k] \in {w1, w2, w3, w4}
  BY <1>16
<1>18. \A w \in {w1, w2, w3, w4} : /\ w.undo = u /\ DOMAIN w.files \subseteq {y, p}
                                   /\ \A i \in DOMAIN w.files : w.files[i] = IF i = y THEN r ELSE d
  BY <1>3, <1>13, <1>14
<1>19. (\A j \in Packet, s \in Record : SoundCopy(j, s) => SoundCopy(j, s)') /\ Unissued'
  BY <1>1, <1>2, SoundStays DEF DispatchInv, DispatchTyped
<1>20. CallMoves /\ CallFrame
  BY <1>1, <1>2, <1>3, <1>7, <1>8, <1>19, DispatchBounds DEF CallMoves, CallFrame, DispatchInv, DispatchTyped
<1>21. ASSUME NEW s \in {r, e} PROVE SoundCopy(y, s)' /\ s # NoRecord /\ s \in Record
  <2>1. SoundCopy(y, c)'
    BY <1>3, <1>19
  <2>2. Shaped(y, s)' /\ s # NoRecord /\ s \in Record
    <3>1. s.state # "absent" /\ s.kind = "review" /\ ~s.trigger /\ s.source = c.source /\ s.errand = c.errand
            /\ s.nonces = c.nonces /\ s.state # "pending_review" /\ s # NoRecord /\ s \in Record
      BY <1>0, <1>4, <1>6
    <3> QED BY <1>3, <2>1, <3>1, NoRecordFacts DEF SoundCopy, Shaped
  <2>3. Truthful(y, s)'
    BY <1>4, <1>6 DEF Truthful
  <2>4. Remembers(y, s)' /\ Linked(y, s)'
    BY <1>1, <1>3, <1>4, <1>6, <2>1 DEF SoundCopy, Remembers, Linked, Kindred
  <2> QED BY <2>2, <2>3, <2>4 DEF SoundCopy
<1>22. SoundCopy(p, d)'
  <2>1. SoundCopy(p, b)'
    BY <1>3, <1>19
  <2>2. Shaped(p, d)'
    <3>1. b.state # "absent" /\ b.nonces = {} /\ b.errand = "none"
      BY <1>3, <2>1 DEF SoundCopy, Shaped
    <3> QED BY <1>3, <1>5, <1>9, <2>1, <3>1, NoRecordFacts DEF SoundCopy, Shaped
  <2>3. Truthful(p, d)'
    BY <1>5 DEF Truthful
  <2>4. Remembers(p, d)' /\ Linked(p, d)'
    BY <1>1, <1>3, <1>5, <2>1 DEF SoundCopy, Remembers, Linked, Kindred
  <2> QED BY <2>2, <2>3, <2>4 DEF SoundCopy
<1>23. DispatchTyped' /\ Resting' /\ Guarding'
  BY <1>1, <1>2, <1>7, <1>8, <1>16, <1>20 DEF DispatchInv, DispatchTyped, Resting, Guarding, CallMoves, CallFrame, Idle
<1>24. CopiesSound'
  <2>1. SoundMemory(u)' /\ SoundMemory(after.mem)'
    BY <1>1, <1>8, <1>20, <1>21, <1>22, OldParts DEF SoundMemory, CallFrame
  <2>2. \A w \in {w1, w2, w3, w4} : SoundFiles(w.files)'
    BY <1>4, <1>5, <1>18, <1>21, <1>22 DEF SoundFiles
  <2> QED BY <1>17, <1>18, <1>20, <2>1, <2>2, OldParts DEF CopiesSound, SoundMemory
<1>25. InStep'
  <2>1. \A i \in Packet : u.records[i] # NoRecord => Kindred(u.records[i], after'.mem.records[i])
    <3>1. Kindred(e, r) /\ Kindred(b, d)
      BY <1>4, <1>5, <1>6 DEF Kindred
    <3> QED BY <1>0, <1>3, <1>8, <3>1 DEF Kindred
  <2>2. Kindred(r, after'.mem.records[y]) /\ Kindred(d, after'.mem.records[p])
    BY <1>3, <1>8 DEF Kindred
  <2> QED BY <1>17, <1>18, <2>1, <2>2 DEF InStep, Kindred
<1>26. OnDisk'
  <2>1. disk' = disk /\ journal' = journal /\ mem' = mem
    BY <1>1
  <2>2. \A i \in Packet : mem.records[i] # NoRecord => disk[i] # NoRecord
    BY CurrentFacts
  <2>3. \A i \in Packet : u.records[i] # NoRecord \/ after'.mem.records[i] # NoRecord => disk[i] # NoRecord
    BY <1>0, <1>3, <1>8, <2>2
  <2> QED BY <1>3, <1>17, <1>18, <2>1, <2>2, <2>3 DEF DispatchInv, OnDisk, Known
<1>27. Links'
  <2>1. \A z \in Packet : mem.records[z].kind = "review" =>
           mem.records[z].source \in Packet /\ mem.records[mem.records[z].source] # NoRecord
    BY <1>20, OldParts, CurrentFacts, ReviewSource DEF MemLinked, SoundCopy
  <2>2. mem' = mem /\ \A z \in Packet : mem.records[z] # NoRecord => u.records[z] # NoRecord /\ after'.mem.records[z] # NoRecord
    BY <1>1, <1>4, <1>5, <1>6, <1>8
  <2>3. MemLinked(mem)'
    BY <2>1, <2>2 DEF MemLinked
  <2>4. \A z \in Packet : u.records[z].kind = "review" => mem.records[z].kind = "review" /\ u.records[z].source = mem.records[z].source
    BY <1>0, <1>3, <1>6, <1>8
  <2>5. \A z \in Packet : after'.mem.records[z].kind = "review" =>
            mem.records[z].kind = "review" /\ after'.mem.records[z].source = mem.records[z].source
    BY <1>0, <1>3, <1>4, <1>5, <1>8
  <2>6. MemLinked(u) /\ MemLinked(after.mem)'
    BY <2>1, <2>2, <2>4, <2>5 DEF MemLinked
  <2> QED BY <1>17, <1>18, <2>3, <2>6 DEF Links, MemLinked
<1>28. Nonces'
  BY <1>1, <1>2, <1>8, <1>16, <1>17, <1>18, <1>20 DEF DispatchInv, Nonces, CallFrame, Idle
<1>29. ~IsVerdict(d) /\ ~IsVerdict(disk[p]) /\ (p \in DOMAIN journal => ~IsVerdict(journal[p]))
  BY <1>3, <1>5 DEF IsVerdict
<1>30. VerdictFinal'
  <2>1. Final(y, r)'
    BY <1>1, <1>2, <1>3, <1>17, <1>18 DEF Final
  <2>2. \A z \in Packet : Final(z, disk[z])'
    BY <1>1, <1>3, <1>17, <1>18, <1>20, <1>29, OldParts, FilesTyped DEF Final
  <2>3. \A z \in DOMAIN journal : Final(z, journal[z])'
    BY <1>1, <1>3, <1>17, <1>18, <1>20, <1>29, OldParts, FilesTyped DEF Final
  <2>4. \A w \in {w1, w2, w3, w4} : \A z \in DOMAIN w.files : Final(z, w.files[z])'
    BY <1>18, <1>29, <2>1 DEF Final
  <2> QED BY <1>1, <1>17, <2>2, <2>3, <2>4 DEF VerdictFinal
<1>31. verdict = "approved" => Approves(r, p)
  BY <1>4 DEF Approves
<1>32. Finished(d) => Approves(r, p) \/ Approved(p)
  BY <1>0, <1>3, <1>5, <1>9, <1>20, <1>31, OldParts DEF Finished
<1>33. ApprovalInv'
  <2>1. ~Finished(r) /\ ~Finished(e)
    BY <1>4, <1>6 DEF Finished
  <2>2. \A q \in Packet : Finished(u.records[q]) => Approved(q)'
    BY <1>8, <1>20, <2>1, OldParts
  <2>3. Finished(d) => ApprovedBy(p, 3)' /\ ApprovedBy(p, 5)'
    BY <1>3, <1>14, <1>16, <1>20, <1>32, OldParts DEF ApprovedBy
  <2>4. \A q \in Packet : Finished(after'.mem.records[q]) => ApprovedBy(q, 5)'
    <3>1. \A q \in Packet : Approved(q)' => ApprovedBy(q, 5)'
      BY DEF ApprovedBy
    <3> QED BY <1>3, <1>8, <1>20, <2>1, <2>3, <3>1, OldParts
  <2>5. Batch(f)'
    <3>1. IsVerdict(r) /\ r.source = p /\ r.review = verdict /\ d.kind = "work"
      BY <1>4, <1>5 DEF IsVerdict
    <3>2. verdict = "approved" => d.state = "completed"
      BY <1>5, <1>9
    <3> QED BY <1>3, <1>13, <1>20, <1>32, <3>1, <3>2, OldParts DEF Batch
  <2>6. \A q \in Packet : Finished(disk'[q]) => Approved(q)'
    BY <1>1, <1>20, OldParts
  <2>7. \A q \in Packet : Finished(mem'.records[q]) => Approved(q)'
    BY <1>1, <1>20, OldParts
  <2>8. journal' # NoFiles => Batch(journal)'
    BY <1>1, <1>20, OldParts
  <2>9. ASSUME NEW k \in 1..Len(todo')
        PROVE  /\ todo'[k].place = "record" =>
                    \A q \in DOMAIN todo'[k].files : Finished(todo'[k].files[q]) => ApprovedBy(q, k)'
               /\ todo'[k].place = "journal" /\ todo'[k].files # NoFiles => Batch(todo[k].files)'
               /\ todo'[k].undo = u
    BY <1>14, <1>16, <1>17, <2>1, <2>3, <2>5
  <2> QED BY <1>16, <2>2, <2>4, <2>6, <2>7, <2>8, <2>9 DEF ApprovalInv
<1>34. CrashOnly'
  <2>1. CASE faults = 0
    <3>1. /\ mem.records = disk /\ Together(disk) /\ Together(Recovered)' /\ journal' = NoFiles
          /\ \A i \in Packet : Recovered'[i] = disk[i]
      BY <1>20, <2>1, CrashOnlyParts
    <3>2. Together(Over(f, disk))
      <4>1. PICK g : g = Over(f, disk)
        OBVIOUS
      <4>2. \A i \in Packet : g[i] = IF i = y THEN r ELSE IF i = p THEN d ELSE disk[i]
        BY <1>13, <4>1 DEF Over
      <4>3. ASSUME NEW z \in Packet, Approves(g[z], g[z].source) PROVE g[g[z].source].state = "completed"
        <5>1. CASE z = y
          BY <1>3, <1>4, <1>5, <1>9, <4>2, <4>3, <5>1 DEF Approves
        <5>2. CASE z # y
          <6>1. z # p /\ g[z] = disk[z]
            BY <1>5, <1>3, <4>2, <4>3, <5>2 DEF Approves
          <6>2. disk[disk[z].source].state = "completed" /\ disk[z].source \in Packet
            BY <3>1, <4>3, <6>1, CurrentFacts, ReviewSource DEF Together, Approves, SoundCopy
          <6>3. disk[y].state # "completed" /\ disk[p].state = b.state
            BY <1>0, <1>3, <3>1
          <6> QED BY <1>3, <1>5, <1>9, <4>2, <6>1, <6>2, <6>3
        <5> QED BY <5>1, <5>2
      <4> QED BY <4>1, <4>3 DEF Together
    <3>3. Journalling'
      <4>1. Together(Over(todo[1].files, disk))'
        BY <1>1, <1>14, <1>16, <3>2 DEF Together, Over
      <4>2. Covered(todo[1].files, 2)' /\ Covered(todo[1].files, 3)'
        BY <1>13, <1>14, <1>16 DEF Covered
      <4>3. \A k \in 2..3 : k = 2 \/ k = 3
        OBVIOUS
      <4>4. \A i \in DOMAIN f : (i = y /\ i \in DOMAIN todo'[2].files) \/ (i = p /\ i \in DOMAIN todo'[3].files)
        BY <1>13, <1>14, <1>16
      <4> QED BY <1>13, <1>14, <1>16, <4>1, <4>2, <4>3, <4>4 DEF Journalling
    <3>4. \A i \in Packet : Outcome(i)'
      <4>1. \A i \in Packet, k \in 1..Len(todo') : i \in DOMAIN todo'[k].files => todo'[k].files[i] = after'.mem.records[i]
        BY <1>3, <1>8, <1>17, <1>18
      <4>2. \A i \in Packet : i \notin DOMAIN todo'[1].files => after'.mem.records[i] = disk[i]
        BY <1>8, <1>13, <1>14, <1>16, <3>1
      <4> QED BY <1>16, <3>1, <4>1, <4>2 DEF Outcome
    <3> QED BY <1>16, <3>1, <3>3, <3>4 DEF CrashOnly
  <2> QED BY <1>1, <2>1 DEF CrashOnly
<1> QED BY <1>19, <1>23, <1>24, <1>25, <1>26, <1>27, <1>28, <1>30, <1>33, <1>34 DEF DispatchInv

(* A review that fails: the work it is of is marked first, then its own     *)
(* record.                                                                  *)
LEMMA FailReviewStep ==
  ASSUME DispatchInv, NEW y \in Packet, FailReview(y)
  PROVE  DispatchInv'
<1>1. PICK c, p, b : c = mem.records[y] /\ p = c.source /\ b = mem.records[p]
  OBVIOUS
<1>2. /\ c \in Record /\ SoundCopy(y, c) /\ ~c.trigger /\ c # NoRecord
      /\ disk[y] # NoRecord /\ Kindred(c, disk[y]) /\ ~IsVerdict(disk[y]) /\ y \notin DOMAIN journal
      /\ p \in Packet /\ p < y /\ p # y
      /\ b \in Record /\ SoundCopy(p, b) /\ b # NoRecord /\ b.kind = "work" /\ b.trigger
      /\ disk[p] # NoRecord /\ Kindred(b, disk[p]) /\ disk[p].kind = "work"
      /\ (p \in DOMAIN journal => journal[p].kind = "work")
      /\ gate.branch = y /\ y # 0 /\ c.state = "delegated" /\ c.kind = "review" /\ Idle /\ CloseBranch(y)
  <2>1. c.state = "delegated" /\ c.kind = "review" /\ Idle /\ CloseBranch(y)
    BY <1>1 DEF FailReview, Close, Current
  <2> QED BY <1>1, <2>1, ReviewHeld
<1>3. PICK marked \in BOOLEAN : marked = (b.review # "none")
  OBVIOUS
<1>4. PICK r, d, e : /\ r = Closed(c, "failed", "unavailable") /\ e = Marked(c, "unavailable")
                     /\ d = (IF marked THEN Marked(b, "unavailable") ELSE b)
  OBVIOUS
<1>5. PICK m, done, undone : /\ m = (IF marked THEN [mem EXCEPT !.records[p] = d] ELSE mem)
                             /\ done = [m EXCEPT !.records[y] = r] /\ undone = [m EXCEPT !.records[y] = e]
  OBVIOUS
<1>6. PICK w1, w2 : w1 = WriteRecord(p, d, done) /\ w2 = WriteRecord(y, r, undone)
  OBVIOUS
<1>7. /\ r \in Record /\ r.state = "failed" /\ r.kind = "review" /\ ~r.trigger /\ r.source = p
      /\ r.errand = c.errand /\ r.nonces = c.nonces /\ r # NoRecord /\ Kindred(c, r)
  <2>1. c \in Record /\ c.kind = "review" /\ r = Closed(c, "failed", "unavailable")
    BY <1>2, <1>4
  <2>2. /\ r \in Record /\ r.state = "failed" /\ r.kind = "review" /\ r.trigger = c.trigger
        /\ r.source = c.source /\ r.errand = c.errand /\ r.nonces = c.nonces
    BY <2>1, ClosedFacts
  <2> QED BY <1>1, <1>2, <2>2, NoRecordFacts DEF Kindred
<1>8. /\ e \in Record /\ e.state = "delegated" /\ e.kind = "review" /\ ~e.trigger /\ e.source = p
      /\ e.errand = c.errand /\ e.nonces = c.nonces /\ e # NoRecord /\ Kindred(c, e)
  <2>1. c \in Record /\ e = Marked(c, "unavailable")
    BY <1>2, <1>4
  <2>2. /\ e \in Record /\ e.state = c.state /\ e.kind = c.kind /\ e.trigger = c.trigger
        /\ e.source = c.source /\ e.errand = c.errand /\ e.nonces = c.nonces
    BY <2>1, MarkedFacts
  <2> QED BY <1>1, <1>2, <2>2, NoRecordFacts DEF Kindred
<1>9. /\ d \in Record /\ d.state = b.state /\ d.kind = "work" /\ d.trigger /\ d.source = b.source
      /\ d.errand = b.errand /\ d.nonces = b.nonces /\ d # NoRecord /\ Kindred(b, d)
  <2>1. b \in Record /\ (d = b \/ d = Marked(b, "unavailable"))
    BY <1>2, <1>4
  <2>2. /\ d \in Record /\ d.state = b.state /\ d.kind = b.kind /\ d.trigger = b.trigger
        /\ d.source = b.source /\ d.errand = b.errand /\ d.nonces = b.nonces
    BY <2>1, MarkedFacts
  <2> QED BY <1>2, <2>2, NoRecordFacts DEF Kindred
<1>10. /\ mem \in Memory /\ m \in Memory /\ done \in Memory /\ undone \in Memory
       /\ \A i \in Packet : /\ done.records[i] = IF i = y THEN r ELSE IF i = p THEN d ELSE mem.records[i]
                            /\ undone.records[i] = IF i = y THEN e ELSE IF i = p THEN d ELSE mem.records[i]
       /\ done.used = mem.used /\ undone.used = mem.used
  <2>1. mem \in Memory
    BY DEF DispatchInv, DispatchTyped
  <2>2. m \in Memory /\ m.used = mem.used /\ \A i \in Packet : m.records[i] = IF i = p THEN d ELSE mem.records[i]
    <3>1. CASE marked
      BY <1>2, <1>5, <1>9, <2>1, <3>1 DEF Memory
    <3>2. CASE ~marked
      BY <1>1, <1>4, <1>5, <2>1, <3>2
    <3> QED BY <3>1, <3>2
  <2>3. done \in Memory /\ done.used = m.used /\ \A i \in Packet : done.records[i] = IF i = y THEN r ELSE m.records[i]
    BY <1>5, <1>7, <2>2 DEF Memory
  <2>4. undone \in Memory /\ undone.used = m.used /\ \A i \in Packet : undone.records[i] = IF i = y THEN e ELSE m.records[i]
    BY <1>5, <1>8, <2>2 DEF Memory
  <2> QED BY <2>1, <2>2, <2>3, <2>4
<1>11. /\ w1 \in FileWrite /\ w1.place = "record" /\ DOMAIN w1.files = {p} /\ w1.files[p] = d /\ w1.undo = done
       /\ w2 \in FileWrite /\ w2.place = "record" /\ DOMAIN w2.files = {y} /\ w2.files[y] = r /\ w2.undo = undone
  BY <1>2, <1>6, <1>7, <1>9, <1>10, FileMade DEF FileWrite, WriteRecord
<1>12. /\ todo' = (IF marked THEN <<w1>> ELSE << >>) \o <<w2>>
       /\ after' = [mem |-> done, allow |-> {}] /\ after'.mem = done /\ after'.allow = {}
       /\ UNCHANGED <<disk, journal, pilot, mem, world, expired, crashes, faults>>
  <2>1. undone = [m EXCEPT !.records[y].review = "unavailable"]
    <3>1. m.records[y] = c
      BY <1>1, <1>2, <1>5, <1>10 DEF Memory
    <3> QED BY <1>4, <1>5, <1>10, <3>1 DEF Marked, Memory
  <2>4. /\ todo' = (IF marked THEN <<w1>> ELSE << >>) \o <<w2>>
        /\ after' = [mem |-> done, allow |-> {}]
        /\ UNCHANGED <<disk, journal, pilot, mem, world, expired, crashes, faults>>
    <3>1. CASE marked
      <4>1. d = [b EXCEPT !.review = "unavailable"] /\ b.review # "none" /\ m = With(p, d)
        BY <1>3, <1>4, <1>5, <3>1 DEF Marked, With
      <4> QED BY <1>1, <1>4, <1>5, <1>6, <2>1, <3>1, <4>1 DEF FailReview, Continue, Current
    <3>2. CASE ~marked
      <4>1. ~(b.review # "none") /\ m = mem
        BY <1>3, <1>5, <3>2
      <4> QED BY <1>1, <1>4, <1>5, <1>6, <2>1, <3>2, <4>1 DEF FailReview, Continue, Current
    <3> QED BY <3>1, <3>2
  <2> QED BY <2>4
<1>13. UNCHANGED <<issued, target, effect, allowed, replayed>> /\ gate'.branch = 0 /\ gate' \in [branch : 0..issued', stuck : BOOLEAN]
  <2>1. UNCHANGED world /\ CloseBranch(y)
    BY <1>2, <1>12
  <2> QED BY <2>1 DEF world, CloseBranch, DispatchInv, DispatchTyped
<1>14. /\ todo' \in Seq(FileWrite) /\ todo' # << >> /\ Len(todo') \in {1, 2}
       /\ \A k \in 1..Len(todo') : todo'[k] \in {w1, w2} /\ k \in {1, 2}
       /\ marked => Len(todo') = 2 /\ todo'[1] = w1 /\ todo'[2] = w2
       /\ ~marked => Len(todo') = 1 /\ todo'[1] = w2
  <2>1. <<w1>> \in Seq(FileWrite) /\ <<w2>> \in Seq(FileWrite) /\ << >> \in Seq(FileWrite)
    BY <1>11
  <2>2. CASE marked
    <3>1. todo' = <<w1>> \o <<w2>>
      BY <1>12, <2>2
    <3>2. todo' \in Seq(FileWrite) /\ Len(todo') = 2 /\ todo'[1] = w1 /\ todo'[2] = w2
      BY <2>1, <3>1
    <3> QED BY <2>2, <3>2
  <2>3. CASE ~marked
    <3>1. todo' = << >> \o <<w2>>
      BY <1>12, <2>3
    <3>2. todo' \in Seq(FileWrite) /\ Len(todo') = 1 /\ todo'[1] = w2
      BY <2>1, <3>1
    <3> QED BY <2>3, <3>2
  <2> QED BY <2>2, <2>3
<1>15. \A w \in {w1, w2} : /\ DOMAIN w.files \subseteq {y, p} /\ w.place = "record"
                           /\ \A i \in DOMAIN w.files : w.files[i] = IF i = y THEN r ELSE d
  BY <1>2, <1>11
<1>16. (\A j \in Packet, s \in Record : SoundCopy(j, s) => SoundCopy(j, s)') /\ Unissued'
  BY <1>12, <1>13, SoundStays DEF DispatchInv, DispatchTyped
<1>17. CallMoves /\ CallFrame
  BY <1>2, <1>10, <1>12, <1>13, <1>16, DispatchBounds DEF CallMoves, CallFrame, DispatchInv, DispatchTyped
<1>18. ASSUME NEW s \in {r, e} PROVE SoundCopy(y, s)'
  <2>1. SoundCopy(y, c)'
    BY <1>2, <1>16
  <2>2. Shaped(y, s)'
    <3>1. s.state # "absent" /\ s.kind = "review" /\ ~s.trigger /\ s.source = c.source /\ s.errand = c.errand
            /\ s.nonces = c.nonces /\ s.state # "pending_review" /\ s # NoRecord /\ s \in Record
      BY <1>1, <1>7, <1>8
    <3> QED BY <1>2, <2>1, <3>1, NoRecordFacts DEF SoundCopy, Shaped
  <2>3. Truthful(y, s)'
    BY <1>7, <1>8 DEF Truthful
  <2>4. Remembers(y, s)' /\ Linked(y, s)'
    <3>1. s.nonces = c.nonces /\ s.kind = c.kind /\ s.source = c.source /\ Kindred(c, s)
      BY <1>1, <1>2, <1>7, <1>8
    <3> QED BY <1>2, <1>12, <2>1, <3>1 DEF SoundCopy, Remembers, Linked, Kindred
  <2> QED BY <2>2, <2>3, <2>4 DEF SoundCopy
<1>19. SoundCopy(p, d)'
  <2>1. SoundCopy(p, b)'
    BY <1>2, <1>16
  <2>2. Shaped(p, d)'
    BY <1>2, <1>9, <2>1, NoRecordFacts DEF SoundCopy, Shaped
  <2>3. Truthful(p, d)'
    BY <1>9 DEF Truthful
  <2>4. Remembers(p, d)' /\ Linked(p, d)'
    BY <1>2, <1>9, <1>12, <2>1 DEF SoundCopy, Remembers, Linked, Kindred
  <2> QED BY <2>2, <2>3, <2>4 DEF SoundCopy
<1>20. DispatchTyped' /\ Resting' /\ Guarding'
  BY <1>10, <1>12, <1>13, <1>14, <1>17 DEF DispatchInv, DispatchTyped, Resting, Guarding, CallMoves, CallFrame, Idle
<1>21. CopiesSound'
  <2>1. SoundMemory(done)' /\ SoundMemory(undone)'
    BY <1>10, <1>12, <1>17, <1>18, <1>19, OldParts DEF SoundMemory
  <2>2. \A w \in {w1, w2} : SoundFiles(w.files)'
    BY <1>7, <1>9, <1>15, <1>18, <1>19 DEF SoundFiles
  <2> QED BY <1>11, <1>12, <1>14, <1>17, <2>1, <2>2, OldParts DEF CopiesSound, SoundMemory
<1>22. InStep'
  <2>1. \A i \in Packet : /\ done.records[i] # NoRecord => Kindred(done.records[i], done.records[i])
                          /\ undone.records[i] # NoRecord => Kindred(undone.records[i], done.records[i])
    <3>1. Kindred(e, r)
      BY <1>7, <1>8 DEF Kindred
    <3> QED BY <1>2, <1>10, <3>1 DEF Kindred
  <2>2. Kindred(r, done.records[y]) /\ Kindred(d, done.records[p])
    BY <1>2, <1>10 DEF Kindred
  <2> QED BY <1>11, <1>12, <1>14, <1>15, <2>1, <2>2 DEF InStep, Kindred
<1>23. OnDisk'
  <2>1. disk' = disk /\ journal' = journal /\ mem' = mem
    BY <1>12
  <2>2. \A i \in Packet : mem.records[i] # NoRecord => disk[i] # NoRecord
    BY CurrentFacts
  <2>3. \A i \in Packet : undone.records[i] # NoRecord \/ done.records[i] # NoRecord => disk[i] # NoRecord
    BY <1>2, <1>10, <2>2
  <2> QED BY <1>11, <1>12, <1>14, <1>15, <2>1, <2>2, <2>3 DEF DispatchInv, OnDisk, Known
<1>24. Links'
  <2>1. \A z \in Packet : mem.records[z].kind = "review" =>
           mem.records[z].source \in Packet /\ mem.records[mem.records[z].source] # NoRecord
    BY <1>17, OldParts, CurrentFacts, ReviewSource DEF MemLinked, SoundCopy
  <2>2. mem' = mem /\ \A z \in Packet : mem.records[z] # NoRecord => undone.records[z] # NoRecord /\ done.records[z] # NoRecord
    BY <1>7, <1>8, <1>9, <1>10, <1>12
  <2>3. MemLinked(mem)'
    BY <2>1, <2>2 DEF MemLinked
  <2>4. \A z \in Packet : undone.records[z].kind = "review" =>
            mem.records[z].kind = "review" /\ undone.records[z].source = mem.records[z].source
    BY <1>1, <1>2, <1>8, <1>9, <1>10
  <2>5. \A z \in Packet : done.records[z].kind = "review" =>
            mem.records[z].kind = "review" /\ done.records[z].source = mem.records[z].source
    BY <1>1, <1>2, <1>7, <1>9, <1>10
  <2>6. MemLinked(undone) /\ MemLinked(done)
    BY <2>1, <2>2, <2>4, <2>5 DEF MemLinked
  <2> QED BY <1>11, <1>12, <1>14, <2>3, <2>6 DEF Links, MemLinked
<1>25. Nonces'
  BY <1>10, <1>11, <1>12, <1>13, <1>14, <1>17 DEF DispatchInv, Nonces, CallFrame, Idle
<1>26. ~IsVerdict(d) /\ ~IsVerdict(disk[p]) /\ (p \in DOMAIN journal => ~IsVerdict(journal[p]))
  BY <1>2, <1>9 DEF IsVerdict
<1>27. VerdictFinal'
  <2>1. Final(y, r)'
    BY <1>2, <1>12, <1>13, <1>14, <1>15 DEF Final
  <2>2. \A z \in Packet : Final(z, disk[z])'
    BY <1>2, <1>12, <1>14, <1>15, <1>17, <1>26, OldParts, FilesTyped DEF Final
  <2>3. \A z \in DOMAIN journal : Final(z, journal[z])'
    BY <1>2, <1>12, <1>14, <1>15, <1>17, <1>26, OldParts, FilesTyped DEF Final
  <2>4. \A w \in {w1, w2} : \A z \in DOMAIN w.files : Final(z, w.files[z])'
    BY <1>15, <1>26, <2>1 DEF Final
  <2> QED BY <1>12, <1>14, <2>2, <2>3, <2>4 DEF VerdictFinal
<1>28. ApprovalInv'
  <2>1. ~Finished(r) /\ ~Finished(e)
    BY <1>7, <1>8 DEF Finished
  <2>2. Finished(d) => Finished(b)
    BY <1>2, <1>9 DEF Finished
  <2>3. \A q \in Packet : /\ Finished(undone.records[q]) => Approved(q)'
                          /\ Finished(done.records[q]) => Approved(q)'
    BY <1>1, <1>10, <1>17, <2>1, <2>2, OldParts
  <2>4. \A q \in Packet, k \in Nat : Approved(q)' => ApprovedBy(q, k)'
    BY DEF ApprovedBy
  <2>5. \A q \in Packet : Finished(disk'[q]) \/ Finished(mem'.records[q]) => Approved(q)'
    BY <1>12, <1>17, OldParts
  <2>6. journal' # NoFiles => Batch(journal)'
    BY <1>12, <1>17, OldParts
  <2>7. Finished(d) => Approved(p)'
    BY <1>1, <1>2, <1>17, <2>2, OldParts
  <2> QED BY <1>2, <1>11, <1>12, <1>14, <1>15, <2>1, <2>3, <2>4, <2>5, <2>6, <2>7 DEF ApprovalInv
<1>29. CrashOnly'
  <2>1. CASE faults = 0
    <3>1. /\ mem.records = disk /\ Together(Recovered)' /\ journal' = NoFiles
          /\ \A i \in Packet : Recovered'[i] = disk[i]
      BY <1>17, <2>1, CrashOnlyParts
    <3>2. \A w \in {w1, w2} : Harmless(w.files)'
      <4>1. disk'[y].state # "completed" /\ disk'[p].state = d.state
        BY <1>1, <1>2, <1>9, <1>12, <3>1
      <4>2. ~Approves(r, r.source) /\ ~Approves(d, d.source)
        BY <1>7, <1>9 DEF Approves
      <4> QED BY <1>2, <1>15, <4>1, <4>2 DEF Harmless
    <3>3. Recording'
      BY <1>14, <1>15, <3>2 DEF Recording, Harmless
    <3>4. \A i \in Packet : Outcome(i)'
      <4>1. \A i \in Packet, k \in 1..Len(todo') : i \in DOMAIN todo'[k].files => todo'[k].files[i] = done.records[i]
        BY <1>2, <1>10, <1>14, <1>15
      <4>2. \E k \in 1..Len(todo') : y \in DOMAIN todo'[k].files
        BY <1>11, <1>14
      <4>3. marked => \E k \in 1..Len(todo') : p \in DOMAIN todo'[k].files
        BY <1>11, <1>14
      <4>4. ~marked => d = disk[p]
        BY <1>1, <1>4, <3>1
      <4> QED BY <1>10, <1>12, <3>1, <4>1, <4>2, <4>3, <4>4 DEF Outcome
    <3> QED BY <1>12, <1>14, <3>1, <3>3, <3>4 DEF CrashOnly
  <2> QED BY <1>12, <2>1 DEF CrashOnly
<1> QED BY <1>16, <1>20, <1>21, <1>22, <1>23, <1>24, <1>25, <1>27, <1>28, <1>29 DEF DispatchInv

(* One file is changed: what stays, what comes, and what is then on file.   *)
LEMMA PerformFiles ==
  ASSUME DispatchInv, todo # << >>, Perform(Head(todo)), NEW w, w = todo[1]
  PROVE  /\ w \in FileWrite /\ w.place \in {"record", "journal"} /\ w.undo \in Memory
         /\ DOMAIN w.files \subseteq Packet /\ (\A i \in DOMAIN w.files : w.files[i] \in Record)
         /\ 1 \in 1..Len(todo)
         /\ w.place = "record" =>
              /\ journal' = journal
              /\ \A i \in Packet : disk'[i] = IF i \in DOMAIN w.files THEN w.files[i] ELSE disk[i]
         /\ w.place = "journal" => journal' = w.files /\ disk' = disk
         /\ disk' \in [Packet -> Record] /\ journal' \in FileSet
<1>1. w \in FileWrite /\ Head(todo) = w /\ Len(todo) \in Nat \ {0}
  BY RestOfWrites DEF DispatchInv, DispatchTyped
<1>2. /\ w.place \in {"record", "journal"} /\ w.undo \in Memory /\ w.files \in FileSet
  BY <1>1 DEF FileWrite
<1>3. DOMAIN w.files \subseteq Packet /\ \A i \in DOMAIN w.files : w.files[i] \in Record
  BY <1>2, FileFacts
<1>4. disk \in [Packet -> Record] /\ journal \in FileSet
  BY DEF DispatchInv, DispatchTyped
<1>5. w.place = "record" => journal' = journal /\ disk' = Over(w.files, disk)
  BY <1>1 DEF Perform
<1>6. w.place = "journal" => journal' = w.files /\ disk' = disk
  BY <1>1 DEF Perform
<1>7. Over(w.files, disk) \in [Packet -> Record]
        /\ \A i \in Packet : Over(w.files, disk)[i] = IF i \in DOMAIN w.files THEN w.files[i] ELSE disk[i]
  BY <1>3, <1>4 DEF Over
<1> QED BY <1>1, <1>2, <1>3, <1>4, <1>5, <1>6, <1>7

(* A file operation forgets no packet, no approval and no link.             *)
LEMMA PerformKeeps ==
  ASSUME DispatchInv, todo # << >>, Perform(Head(todo))
  PROVE  /\ \A j \in Packet : disk[j] # NoRecord => disk'[j] # NoRecord /\ Kindred(disk'[j], disk[j])
         /\ \A j \in Packet, s \in Record :
              /\ Linked(j, s) /\ Shaped(j, s)
              /\ disk[j] # NoRecord \/ s = NoRecord \/ Kindred(s, after.mem.records[j])
              => Linked(j, s)'
         /\ \A p \in Packet : Approved(p) => Approved(p)'
         /\ \A f : Batch(f) => Batch(f)'
<1>0. PICK w : w = todo[1]
  OBVIOUS
<1>1. /\ DOMAIN w.files \subseteq Packet /\ (\A i \in DOMAIN w.files : w.files[i] \in Record)
      /\ 1 \in 1..Len(todo)
      /\ \A i \in Packet : disk'[i] = disk[i] \/ (i \in DOMAIN w.files /\ disk'[i] = w.files[i])
  BY <1>0, PerformFiles
<1>2. \A i \in DOMAIN w.files : SoundCopy(i, w.files[i]) /\ w.files[i] # NoRecord
                                  /\ Kindred(w.files[i], after.mem.records[i])
  BY <1>0, <1>1 DEF DispatchInv, CopiesSound, SoundFiles, InStep
<1>3. \A j \in Packet : disk[j] # NoRecord => disk'[j] # NoRecord /\ Kindred(disk'[j], disk[j])
  BY <1>1, <1>2 DEF SoundCopy, Linked, Kindred
<1>4. \A j \in Packet : disk[j] = NoRecord /\ disk'[j] # NoRecord => Kindred(disk'[j], after.mem.records[j])
  BY <1>1, <1>2
<1>5. ASSUME NEW j \in Packet, NEW s \in Record, Linked(j, s), Shaped(j, s),
             disk[j] # NoRecord \/ s = NoRecord \/ Kindred(s, after.mem.records[j])
      PROVE  Linked(j, s)'
  <2>1. s.kind = "review" => disk'[s.source].kind = "work" /\ disk'[s.source].trigger
    <3>1. s.kind = "review" => s.source \in Packet /\ disk[s.source].kind = "work" /\ disk[s.source].trigger
      BY <1>5, ReviewSource DEF Linked
    <3> QED BY <1>3, <3>1, NoRecordFacts DEF Kindred
  <2>2. s # NoRecord /\ disk'[j] # NoRecord => Kindred(s, disk'[j])
    BY <1>3, <1>4, <1>5 DEF Linked, Kindred
  <2> QED BY <2>1, <2>2 DEF Linked
<1>6. ASSUME NEW p \in Packet, Approved(p) PROVE Approved(p)'
  <2>1. PICK y \in Packet : Approves(disk[y], p)
    BY <1>6 DEF Approved
  <2>2. disk'[y] = disk[y]
    BY <1>0, <1>1, <2>1 DEF DispatchInv, VerdictFinal, Final, Approves, IsVerdict
  <2> QED BY <2>1, <2>2 DEF Approved
<1>7. ASSUME NEW f, Batch(f) PROVE Batch(f)'
  BY <1>6, <1>7 DEF Batch
<1> QED BY <1>3, <1>5, <1>6, <1>7

(* The files are sound by themselves.                                       *)
Decided(y, r) ==
  IsVerdict(r) => gate.branch # y /\ (y \in DOMAIN journal => journal[y] = r)
FilesSound ==
  /\ disk \in [Packet -> Record] /\ journal \in FileSet
  /\ \A i \in Packet : SoundCopy(i, disk[i])
  /\ SoundFiles(journal) /\ \A i \in DOMAIN journal : disk[i] # NoRecord
  /\ \A p \in Packet : Finished(disk[p]) => Approved(p)
  /\ journal # NoFiles => Batch(journal)
  /\ \A y \in Packet : Decided(y, disk[y]) /\ (y \in DOMAIN journal => Decided(y, journal[y]))

(* What packet j has on file.                                               *)
OnFile(j, s) == s = disk[j] \/ (j \in DOMAIN journal /\ s = journal[j])

(* After a file operation the files are sound.                              *)
LEMMA PerformSound ==
  ASSUME DispatchInv, todo # << >>, Perform(Head(todo)), gate' = gate,
         \A j \in Packet, s \in Record :
            SoundCopy(j, s) /\ Linked(j, s)' /\ OnFile(j, s)' => SoundCopy(j, s)'
  PROVE  FilesSound'
<1>0. PICK w : w = todo[1]
  OBVIOUS
<1>1. /\ w.place \in {"record", "journal"}
      /\ DOMAIN w.files \subseteq Packet /\ (\A i \in DOMAIN w.files : w.files[i] \in Record)
      /\ 1 \in 1..Len(todo)
      /\ w.place = "record" =>
              /\ journal' = journal
              /\ \A i \in Packet : disk'[i] = IF i \in DOMAIN w.files THEN w.files[i] ELSE disk[i]
      /\ w.place = "journal" => journal' = w.files /\ disk' = disk
      /\ disk' \in [Packet -> Record] /\ journal' \in FileSet
  BY <1>0, PerformFiles
<1>2. \A i \in DOMAIN w.files : SoundCopy(i, w.files[i]) /\ w.files[i] # NoRecord
                                  /\ Kindred(w.files[i], after.mem.records[i])
  BY <1>0, <1>1 DEF DispatchInv, CopiesSound, SoundFiles, InStep
<1>3. \A j \in DOMAIN journal : j \in Packet /\ journal[j] \in Record /\ SoundCopy(j, journal[j]) /\ journal[j] # NoRecord
                                  /\ disk[j] # NoRecord
  BY FilesTyped DEF DispatchInv, CopiesSound, SoundFiles, OnDisk
<1>4. \A j \in Packet : disk[j] \in Record /\ SoundCopy(j, disk[j])
  BY FilesTyped DEF DispatchInv, CopiesSound
<1>5. ASSUME NEW i \in Packet PROVE SoundCopy(i, disk[i])'
  <2>1. disk'[i] \in Record /\ SoundCopy(i, disk'[i])
    BY <1>1, <1>2, <1>4
  <2>2. disk[i] # NoRecord \/ disk'[i] = NoRecord \/ Kindred(disk'[i], after.mem.records[i])
    BY <1>1, <1>2
  <2>3. \A s : s = disk'[i] => SoundCopy(i, s)'
    BY <2>1, <2>2, PerformKeeps DEF SoundCopy, OnFile
  <2> QED BY <2>3
<1>6. ASSUME NEW i \in DOMAIN journal' PROVE SoundCopy(i, journal[i])' /\ journal'[i] # NoRecord /\ disk'[i] # NoRecord
  <2>1. i \in Packet /\ journal'[i] \in Record /\ SoundCopy(i, journal'[i]) /\ journal'[i] # NoRecord /\ disk[i] # NoRecord
    BY <1>0, <1>1, <1>2, <1>3, <1>6 DEF DispatchInv, OnDisk
  <2>2. \A s : s = journal'[i] => SoundCopy(i, s)'
    BY <2>1, <1>6, PerformKeeps DEF SoundCopy, OnFile
  <2> QED BY <2>1, <2>2, PerformKeeps
<1>7. ASSUME NEW p \in Packet, Finished(disk'[p]) PROVE Approved(p)'
  <2>1. Approved(p)
    <3>1. CASE disk'[p] = disk[p]
      BY <1>7, <3>1 DEF DispatchInv, ApprovalInv
    <3>2. CASE disk'[p] # disk[p]
      <4>1. w.place = "record" /\ p \in DOMAIN w.files /\ Finished(w.files[p])
        BY <1>1, <1>7, <3>2
      <4>2. ApprovedBy(p, 1)
        BY <1>0, <1>1, <4>1 DEF DispatchInv, ApprovalInv
      <4> QED BY <4>2 DEF ApprovedBy
    <3> QED BY <3>1, <3>2
  <2> QED BY <2>1, PerformKeeps
<1>8. journal' # NoFiles => Batch(journal)'
  <2>1. journal' # NoFiles => Batch(journal')
    BY <1>0, <1>1 DEF DispatchInv, ApprovalInv
  <2>2. \A f : f = journal' /\ Batch(f) => Batch(f)'
    BY PerformKeeps
  <2>3. \A f : f = journal' /\ Batch(f)' => Batch(journal)'
    BY DEF Batch
  <2> QED BY <2>1, <2>2, <2>3
<1>9. ASSUME NEW y \in Packet PROVE Decided(y, disk[y])' /\ (y \in DOMAIN journal' => Decided(y, journal[y])')
  <2>1. Final(y, disk[y]) /\ (y \in DOMAIN journal => Final(y, journal[y])) /\ (y \in DOMAIN w.files => Final(y, w.files[y]))
    BY <1>0, <1>1 DEF DispatchInv, VerdictFinal
  <2>2. Final(y, disk'[y]) /\ (y \in DOMAIN journal' => Final(y, journal'[y]))
    BY <1>1, <2>1
  <2>3. y \in DOMAIN journal' => (y \in DOMAIN journal /\ journal'[y] = journal[y]) \/ (y \in DOMAIN w.files /\ journal'[y] = w.files[y])
    BY <1>1
  <2> QED BY <1>0, <1>1, <2>2, <2>3 DEF Final, Decided
<1>10. disk' \in [Packet -> Record] /\ journal' \in FileSet
  BY <1>1
<1>11. SoundFiles(journal)' /\ \A i \in DOMAIN journal' : disk'[i] # NoRecord
  BY <1>6 DEF SoundFiles
<1> QED BY <1>5, <1>7, <1>8, <1>9, <1>10, <1>11 DEF FilesSound

(* A file operation may do its work or not: the files are sound either way. *)
Kept ==
  /\ \A j \in Packet : disk[j] # NoRecord => disk'[j] # NoRecord /\ Kindred(disk'[j], disk[j])
  /\ \A p \in Packet : Approved(p) => Approved(p)'
  /\ \A j \in Packet, s \in Record :
       /\ SoundCopy(j, s) /\ (disk[j] # NoRecord \/ s = NoRecord \/ Kindred(s, after.mem.records[j]))
       => SoundCopy(j, s)'

(* Done or not, the operation leaves sound files and sound copies.          *)
LEMMA FilesWritten ==
  ASSUME DispatchInv, todo # << >>, Perform(Head(todo)) \/ UNCHANGED <<disk, journal>>,
         UNCHANGED <<gate, target, effect, allowed, issued>>
  PROVE  FilesSound' /\ Kept
<1>0. \A j \in Packet, s \in Record : SoundCopy(j, s) /\ Linked(j, s)' => SoundCopy(j, s)'
  BY DEF SoundCopy, Shaped, Truthful, Remembers
<1>1. CASE Perform(Head(todo))
  <2>1. FilesSound'
    BY <1>0, <1>1, PerformSound
  <2>2. Kept
    <3>1. \A j \in Packet, s \in Record : SoundCopy(j, s) => Linked(j, s) /\ Shaped(j, s)
      BY DEF SoundCopy
    <3> QED BY <1>0, <1>1, <3>1, PerformKeeps DEF Kept
  <2> QED BY <2>1, <2>2
<1>2. CASE UNCHANGED <<disk, journal>>
  <2>1. \A j \in Packet, s \in Record : SoundCopy(j, s) => SoundCopy(j, s)'
    BY <1>2 DEF SoundCopy, Shaped, Truthful, Remembers, Linked
  <2>2. \A p \in Packet : Approved(p)' = Approved(p)
    BY <1>2 DEF Approved
  <2>3. Kept
    BY <1>2, <2>1, <2>2 DEF Kept, Kindred
  <2>4. (\A i \in Packet : SoundCopy(i, disk[i])') /\ SoundFiles(journal)'
    BY <1>2, <2>1, FilesTyped DEF DispatchInv, CopiesSound, SoundFiles
  <2>5. journal' # NoFiles => Batch(journal)'
    BY <1>2, <2>2 DEF Batch, DispatchInv, ApprovalInv
  <2>6. \A y \in Packet : Decided(y, disk[y])' /\ (y \in DOMAIN journal' => Decided(y, journal[y])')
    BY <1>2 DEF DispatchInv, VerdictFinal, Final, Decided
  <2>7. /\ disk' \in [Packet -> Record] /\ journal' \in FileSet
        /\ \A i \in DOMAIN journal' : disk'[i] # NoRecord
        /\ \A p \in Packet : Finished(disk'[p]) => Approved(p)'
    BY <1>2, <2>2 DEF DispatchInv, DispatchTyped, OnDisk, ApprovalInv
  <2> QED BY <2>3, <2>4, <2>5, <2>6, <2>7 DEF FilesSound
<1> QED BY <1>1, <1>2

(* The call is over, with this memory.                                      *)
MemoryHeld ==
  /\ SoundMemory(mem) /\ MemLinked(mem)
  /\ \A i \in Packet : mem.records[i] # NoRecord => disk[i] # NoRecord
  /\ \A p \in Packet : Finished(mem.records[p]) => Approved(p)
  /\ \A a \in allowed : a[2] \in disk[a[1]].nonces /\ (pilot = "up" => a \in mem.used)
  /\ ~replayed

(* A call that ends with sound files and a sound memory keeps the           *)
(* invariant.                                                               *)
LEMMA CallEnds ==
  ASSUME Settled, todo' = << >>, FilesSound', MemoryHeld', DispatchTyped', Unissued', CrashOnly',
         pilot' \in {"up", "down"}, pilot' = "down" => mem' = Empty
  PROVE  DispatchInv'
<1>1. /\ after'.mem = Empty /\ after'.allow = {} /\ after' = [mem |-> Empty, allow |-> {}] /\ Len(todo') = 0
      /\ 1..Len(todo') = {}
  BY DEF Settled
<1>2. \A i \in Packet : Empty.records[i] = NoRecord
  BY DEF Empty
<1>3. Resting' /\ InStep' /\ Guarding'
  BY <1>1 DEF Resting, InStep, Guarding
<1>4. CopiesSound'
  <2>1. \A i \in Packet : SoundCopy(i, NoRecord)'
    BY DEF SoundCopy, Shaped, Truthful, Remembers, Linked, NoRecord
  <2>2. SoundMemory(after.mem)'
    BY <1>1, <1>2, <2>1 DEF SoundMemory
  <2> QED BY <1>1, <2>2 DEF CopiesSound, FilesSound, MemoryHeld
<1>5. OnDisk'
  BY <1>1, <1>2 DEF OnDisk, FilesSound, MemoryHeld
<1>6. Links'
  <2>1. MemLinked(after.mem)'
    BY <1>1, <1>2 DEF MemLinked, NoRecord
  <2> QED BY <1>1, <2>1 DEF Links, MemoryHeld
<1>7. Nonces'
  BY <1>1 DEF Nonces, MemoryHeld
<1>8. VerdictFinal'
  BY <1>1 DEF VerdictFinal, Final, FilesSound, Decided, FileSet
<1>9. ApprovalInv'
  BY <1>1, <1>2 DEF ApprovalInv, FilesSound, MemoryHeld, Finished, NoRecord
<1> QED BY <1>3, <1>4, <1>5, <1>6, <1>7, <1>8, <1>9 DEF DispatchInv

(* The write fails: the memory goes back, or the loading is given up.       *)
LEMMA WriteFailsStep ==
  ASSUME DispatchInv, WriteFails
  PROVE  DispatchInv'
<1>0. PICK u : u = todo[1].undo
  OBVIOUS
<1>1. /\ todo # << >> /\ (Perform(Head(todo)) \/ UNCHANGED <<disk, journal>>)
      /\ todo' = << >> /\ Settled /\ faults' = faults + 1
      /\ UNCHANGED <<gate, target, effect, allowed, replayed, issued>>
  BY DEF WriteFails, world
<1>2. Head(todo) = todo[1] /\ 1 \in 1..Len(todo)
  BY <1>1, RestOfWrites DEF DispatchInv, DispatchTyped
<1>3. \/ pilot = "loading" /\ pilot' = "down" /\ mem' = mem /\ mem = Empty
      \/ pilot = "up" /\ pilot' = "up" /\ mem' = u
  BY <1>0, <1>1, <1>2 DEF WriteFails, DispatchInv, DispatchTyped, Resting
<1>4. FilesSound' /\ Kept
  BY <1>1, FilesWritten
<1>5. u \in Memory /\ \A i \in Packet : u.records[i] \in Record
  BY <1>0, <1>2, FilesTyped
<1>6. SoundMemory(u) /\ MemLinked(u)
  BY <1>0, <1>2 DEF DispatchInv, CopiesSound, Links
<1>7. \A i \in Packet : u.records[i] # NoRecord => disk[i] # NoRecord
  BY <1>0, <1>2 DEF DispatchInv, OnDisk, Known, Comes
<1>8. \A p \in Packet : Finished(u.records[p]) => Approved(p)
  BY <1>0, <1>2 DEF DispatchInv, ApprovalInv
<1>9. \A a \in allowed : a \in Packet \X Request /\ a[2] \in disk[a[1]].nonces /\ (pilot = "up" => a \in u.used)
  BY <1>0, <1>1, <1>2 DEF DispatchInv, Nonces, DispatchTyped
<1>10. \A a \in allowed : a[2] \in disk'[a[1]].nonces
  <2>1. ASSUME NEW a \in allowed PROVE a[2] \in disk'[a[1]].nonces
    <3>1. a[1] \in Packet /\ a[2] \in Request /\ a = <<a[1], a[2]>> /\ disk[a[1]] # NoRecord
      BY <1>9, <2>1 DEF NoRecord
    <3>2. Remembers(a[1], disk[a[1]])'
      BY <1>4, <3>1 DEF FilesSound, SoundCopy
    <3> QED BY <1>1, <1>4, <2>1, <3>1, <3>2 DEF Remembers, Kept
  <2> QED BY <2>1
<1>11. MemoryHeld'
  <2>1. CASE pilot' = "down"
    <3>1. \A i \in Packet : mem'.records[i] = NoRecord
      BY <1>3, <2>1 DEF Empty
    <3>2. \A i \in Packet : SoundCopy(i, NoRecord)'
      BY DEF SoundCopy, Shaped, Truthful, Remembers, Linked, NoRecord
    <3>3. SoundMemory(mem)'
      BY <3>1, <3>2 DEF SoundMemory
    <3>4. MemLinked(mem)' /\ \A p \in Packet : ~Finished(mem'.records[p])
      BY <3>1 DEF MemLinked, Finished, NoRecord
    <3>5. ~replayed'
      BY <1>1 DEF DispatchInv, Nonces
    <3> QED BY <1>1, <1>10, <2>1, <3>1, <3>3, <3>4, <3>5 DEF MemoryHeld
  <2>2. CASE pilot' = "up"
    <3>1. mem' = u /\ pilot = "up"
      BY <1>3, <2>2
    <3>2. \A i \in Packet : SoundCopy(i, u.records[i])'
      BY <1>4, <1>5, <1>6, <1>7 DEF SoundMemory, Kept
    <3>3. SoundMemory(mem)'
      BY <3>1, <3>2 DEF SoundMemory
    <3>4. MemLinked(mem)'
      BY <1>6, <3>1 DEF MemLinked
    <3>5. \A i \in Packet : mem'.records[i] # NoRecord => disk'[i] # NoRecord
      BY <1>4, <1>7, <3>1 DEF Kept
    <3>6. \A p \in Packet : Finished(mem'.records[p]) => Approved(p)'
      BY <1>4, <1>8, <3>1 DEF Kept
    <3>7. ~replayed' /\ allowed' = allowed
      BY <1>1 DEF DispatchInv, Nonces
    <3> QED BY <1>9, <1>10, <3>1, <3>3, <3>4, <3>5, <3>6, <3>7 DEF MemoryHeld
  <2> QED BY <1>3, <2>1, <2>2
<1>12. DispatchTyped'
  BY <1>1, <1>3, <1>4, <1>5, EmptyFacts DEF DispatchInv, DispatchTyped, FilesSound, Settled
<1>13. Unissued' /\ CrashOnly'
  BY <1>1 DEF DispatchInv, Unissued, CrashOnly, DispatchTyped
<1> QED BY <1>1, <1>3, <1>4, <1>11, <1>12, <1>13, CallEnds

(* What is still to be written moves up by one.                             *)
Shifted ==
  /\ todo # << >> /\ Len(todo) \in Nat /\ Len(todo) > 0 /\ Head(todo) = todo[1]
  /\ todo' \in Seq(FileWrite) /\ Len(todo') = Len(todo) - 1
  /\ \A k \in 1..(Len(todo) - 1) : todo'[k] = todo[k + 1]
  /\ Perform(todo[1]) /\ UNCHANGED <<gate, issued, faults, effect>>

(* WriteNext changes one file, and ends the call when that was the last.    *)
LEMMA ShiftFacts ==
  ASSUME DispatchInv, WriteNext
  PROVE  /\ Shifted
         /\ Len(todo) > 1 => /\ after.allow = {} /\ todo' # << >>
                             /\ UNCHANGED <<pilot, mem, after, target, allowed, replayed>>
         /\ Len(todo) = 1 => todo' = << >>
<1>1. /\ todo # << >> /\ Perform(Head(todo)) /\ todo' = Tail(todo)
      /\ Tail(todo) # << >> => UNCHANGED <<pilot, mem, after, target, effect, allowed, replayed>>
      /\ UNCHANGED <<gate, issued, faults, effect>>
  BY DEF WriteNext, world, counters
<1>2. todo \in Seq(FileWrite)
  BY DEF DispatchInv, DispatchTyped
<1>3. /\ Head(todo) = todo[1] /\ Len(todo) \in Nat \ {0}
      /\ Tail(todo) \in Seq(FileWrite) /\ Len(Tail(todo)) = Len(todo) - 1
      /\ \A k \in 1..(Len(todo) - 1) : Tail(todo)[k] = todo[k + 1]
      /\ (Tail(todo) = << >>) <=> (Len(todo) = 1)
  BY <1>1, <1>2, RestOfWrites
<1>4. Shifted
  BY <1>1, <1>3 DEF Shifted
<1>5. Len(todo) > 1 => after.allow = {}
  <2>1. Guarding
    BY DEF DispatchInv
  <2>2. after.allow # {} => Len(todo) = 1
    BY <2>1, Zenon DEF Guarding
  <2> QED BY <1>3, <2>2
<1> QED BY <1>1, <1>3, <1>4, <1>5

(* What was to come by the next write has come, or is still to come.        *)
LEMMA ShiftKnown ==
  ASSUME DispatchInv, Shifted, Kept
  PROVE  /\ \A i \in Packet, k \in 1..Len(todo) : Known(i, k + 1) => Known(i, k)'
         /\ \A p \in Packet, k \in 1..Len(todo) : ApprovedBy(p, k + 1) => ApprovedBy(p, k)'
<1>0. PICK w, n : w = todo[1] /\ n = Len(todo)
  OBVIOUS
<1>1. /\ n \in Nat /\ n > 0 /\ DOMAIN w.files \subseteq Packet
      /\ w.place = "record" =>
           \A i \in Packet : disk'[i] = IF i \in DOMAIN w.files THEN w.files[i] ELSE disk[i]
  BY <1>0, PerformFiles DEF Shifted
<1>2. \A i \in DOMAIN w.files : w.files[i] # NoRecord
  BY <1>0, <1>1 DEF DispatchInv, CopiesSound, SoundFiles
<1>3. \A k \in 1..(n - 1) : todo'[k] = todo[k + 1]
  BY <1>0 DEF Shifted
<1>4. ASSUME NEW k \in 1..n, NEW j \in 1..k, j # 1
      PROVE  j - 1 \in 1..(k - 1) /\ todo'[j - 1] = todo[j]
  BY <1>1, <1>3, <1>4
<1>5. ASSUME NEW i \in Packet, NEW k \in 1..n, Known(i, k + 1) PROVE Known(i, k)'
  <2>1. CASE disk[i] # NoRecord
    BY <2>1 DEF Kept, Known
  <2>2. CASE disk[i] = NoRecord
    <3>1. PICK j \in 1..k : todo[j].place = "record" /\ i \in DOMAIN todo[j].files
      BY <1>1, <1>5, <2>2 DEF Known, Comes
    <3>2. CASE j = 1
      BY <1>0, <1>1, <1>2, <3>1, <3>2 DEF Known
    <3>3. CASE j # 1
      <4>1. j - 1 \in 1..(k - 1) /\ todo'[j - 1] = todo[j]
        BY <1>4, <3>3
      <4> QED BY <3>1, <4>1 DEF Known, Comes
    <3> QED BY <3>2, <3>3
  <2> QED BY <2>1, <2>2
<1>6. ASSUME NEW p \in Packet, NEW k \in 1..n, ApprovedBy(p, k + 1) PROVE ApprovedBy(p, k)'
  <2>1. CASE Approved(p)
    BY <2>1 DEF Kept, ApprovedBy
  <2>2. CASE ~Approved(p)
    <3>1. PICK j \in 1..k : /\ todo[j].place = "record"
                            /\ \E y \in DOMAIN todo[j].files : Approves(todo[j].files[y], p)
      BY <1>1, <1>6, <2>2 DEF ApprovedBy
    <3>2. CASE j = 1
      <4>1. PICK y \in DOMAIN w.files : Approves(w.files[y], p)
        BY <1>0, <3>1, <3>2
      <4>2. y \in Packet /\ disk'[y] = w.files[y]
        BY <1>0, <1>1, <3>1, <3>2, <4>1
      <4> QED BY <4>1, <4>2 DEF ApprovedBy, Approved, Approves
    <3>3. CASE j # 1
      <4>1. j - 1 \in 1..(k - 1) /\ todo'[j - 1] = todo[j]
        BY <1>4, <3>3
      <4>2. PICK y \in DOMAIN todo[j].files : Approves(todo[j].files[y], p)
        BY <3>1
      <4> QED BY <3>1, <4>1, <4>2 DEF ApprovedBy, Approves
    <3> QED BY <3>2, <3>3
  <2> QED BY <2>1, <2>2
<1> QED BY <1>0, <1>5, <1>6

(* Where no operation fails, the next write leaves the records together.    *)
LEMMA NextTogether ==
  ASSUME DispatchInv, Shifted, Len(todo) > 1, faults = 0, after' = after
  PROVE  /\ Together(Recovered)'
         /\ IF journal' # NoFiles THEN Replaying' ELSE (Journalling \/ Recording)'
         /\ \A i \in Packet : Outcome(i)'
<1>0. PICK w, n : w = todo[1] /\ n = Len(todo)
  OBVIOUS
<1>1. /\ n \in Nat /\ n > 1 /\ 1 \in 1..(n - 1) /\ 1 \in 1..n /\ Len(todo') = n - 1
      /\ \A k \in 1..(n - 1) : todo'[k] = todo[k + 1] /\ k + 1 \in 1..n
      /\ todo # << >>
  BY <1>0 DEF Shifted
<1>2. /\ w.place \in {"record", "journal"}
      /\ DOMAIN w.files \subseteq Packet /\ (\A i \in DOMAIN w.files : w.files[i] \in Record)
      /\ w.place = "record" =>
           /\ journal' = journal
           /\ \A i \in Packet : disk'[i] = IF i \in DOMAIN w.files THEN w.files[i] ELSE disk[i]
      /\ w.place = "journal" => journal' = w.files /\ disk' = disk
  BY <1>0, PerformFiles DEF Shifted
<1>3. /\ Together(Recovered)
      /\ IF journal # NoFiles THEN Replaying ELSE Journalling \/ Recording
      /\ \A i \in Packet : Outcome(i)
  BY <1>1 DEF Shifted, DispatchInv, CrashOnly
<1>4. /\ \A i \in Packet : Recovered[i] = IF i \in DOMAIN journal THEN journal[i] ELSE disk[i]
      /\ \A i \in Packet : Recovered'[i] = IF i \in DOMAIN journal' THEN journal'[i] ELSE disk'[i]
  BY DEF Recovered, Over
<1>5. \A i \in Packet : /\ \A k \in 1..n : i \in DOMAIN todo[k].files => after.mem.records[i] = todo[k].files[i]
                        /\ (\A k \in 1..n : i \notin DOMAIN todo[k].files) => after.mem.records[i] = Recovered[i]
  BY <1>0, <1>3 DEF Outcome
<1>6. ASSUME \A i \in Packet : (\A k \in 1..(n - 1) : i \notin DOMAIN todo[k + 1].files)
                                 => after.mem.records[i] = Recovered'[i]
      PROVE  \A i \in Packet : Outcome(i)'
  <2>1. ASSUME NEW i \in Packet, NEW k \in 1..Len(todo'), i \in DOMAIN todo'[k].files
        PROVE  after'.mem.records[i] = todo'[k].files[i]
    BY <1>1, <1>5, <2>1
  <2>2. ASSUME NEW i \in Packet, \A k \in 1..Len(todo') : i \notin DOMAIN todo'[k].files
        PROVE  after'.mem.records[i] = Recovered'[i]
    BY <1>1, <1>6, <2>2
  <2> QED BY <2>1, <2>2 DEF Outcome
<1>7. \A i \in Packet : (\A k \in 1..(n - 1) : i \notin DOMAIN todo[k + 1].files) =>
        \/ i \in DOMAIN w.files /\ after.mem.records[i] = w.files[i]
        \/ i \notin DOMAIN w.files /\ after.mem.records[i] = Recovered[i]
  <2>1. ASSUME NEW i \in Packet, \A k \in 1..(n - 1) : i \notin DOMAIN todo[k + 1].files, i \notin DOMAIN w.files
        PROVE  after.mem.records[i] = Recovered[i]
    <3>1. ASSUME NEW k \in 1..n PROVE i \notin DOMAIN todo[k].files
      <4>1. CASE k = 1
        BY <1>0, <2>1, <4>1
      <4>2. CASE k # 1
        <5>1. k - 1 \in 1..(n - 1) /\ (k - 1) + 1 = k
          BY <1>1, <4>2
        <5> QED BY <2>1, <5>1
      <4> QED BY <4>1, <4>2
    <3> QED BY <1>5, <3>1
  <2> QED BY <2>1, <1>0, <1>1, <1>5
<1>8. CASE journal # NoFiles
  <2>1. /\ todo[n].place = "journal" /\ todo[n].files = NoFiles
        /\ \A k \in 1..(n - 1) : Covered(journal, k)
        /\ \A i \in DOMAIN journal :
             disk[i] = journal[i] \/ \E k \in 1..(n - 1) : i \in DOMAIN todo[k].files
    BY <1>0, <1>3, <1>8 DEF Replaying
  <2>2. w.place = "record" /\ \A i \in DOMAIN w.files : i \in DOMAIN journal /\ w.files[i] = journal[i]
    BY <1>0, <1>1, <2>1 DEF Covered
  <2>3. journal' = journal /\ \A i \in Packet : Recovered'[i] = Recovered[i]
    BY <1>2, <1>4, <2>2
  <2>4. Together(Recovered)'
    BY <1>3, <1>4, <2>3 DEF Recovered, Over, Together
  <2>5. Replaying'
    <3>1. todo'[n - 1].place = "journal" /\ todo'[n - 1].files = NoFiles
      BY <1>1, <2>1
    <3>2. ASSUME NEW k \in 1..(n - 2) PROVE Covered(journal, k)'
      <4>1. k \in 1..(n - 1) /\ k + 1 \in 1..(n - 1)
        BY <1>1
      <4>2. todo'[k] = todo[k + 1] /\ Covered(journal, k + 1)
        BY <1>1, <2>1, <4>1
      <4> QED BY <2>3, <4>2 DEF Covered
    <3>3. ASSUME NEW i \in DOMAIN journal
          PROVE  disk'[i] = journal[i] \/ \E k \in 1..(n - 2) : i \in DOMAIN todo'[k].files
      <4>0. i \in Packet
        BY FilesTyped
      <4>1. CASE i \in DOMAIN w.files
        BY <1>2, <2>2, <4>0, <4>1
      <4>2. CASE i \notin DOMAIN w.files /\ disk[i] = journal[i]
        BY <1>2, <2>2, <4>0, <4>2
      <4>3. CASE i \notin DOMAIN w.files /\ disk[i] # journal[i]
        <5>1. PICK k \in 1..(n - 1) : i \in DOMAIN todo[k].files
          BY <2>1, <4>3
        <5>2. k # 1
          BY <1>0, <4>3, <5>1
        <5>3. k - 1 \in 1..(n - 2) /\ k - 1 \in 1..(n - 1) /\ (k - 1) + 1 = k
          BY <1>1, <5>2
        <5> QED BY <1>1, <5>1, <5>3
      <4> QED BY <4>1, <4>2, <4>3
    <3>4. Len(todo') = n - 1 /\ Len(todo') - 1 = n - 2
      BY <1>1
    <3> QED BY <2>3, <3>1, <3>2, <3>3, <3>4 DEF Replaying
  <2>6. \A i \in Packet : Outcome(i)'
    <3>1. \A i \in DOMAIN w.files : Recovered'[i] = w.files[i]
      BY <1>2, <1>4, <2>2, <2>3
    <3> QED BY <1>6, <1>7, <2>3, <3>1
  <2> QED BY <1>8, <2>3, <2>4, <2>5, <2>6
<1>9. CASE journal = NoFiles /\ Journalling
  <2>1. /\ n = 4 /\ w.place = "journal" /\ w.files # NoFiles
        /\ Together(Over(w.files, disk))
        /\ todo[4].place = "journal" /\ todo[4].files = NoFiles
        /\ \A k \in 2..3 : Covered(w.files, k)
        /\ \A i \in DOMAIN w.files : \E k \in 2..3 : i \in DOMAIN todo[k].files
    BY <1>0, <1>9 DEF Journalling
  <2>2. journal' = w.files /\ disk' = disk
    BY <1>2, <2>1
  <2>3. Together(Recovered)'
    BY <1>4, <2>1, <2>2 DEF Recovered, Over, Together
  <2>4. /\ todo'[1] = todo[2] /\ todo'[2] = todo[3] /\ todo'[3] = todo[4] /\ Len(todo') = 3
        /\ Len(todo') - 1 = 2
    BY <1>1, <2>1
  <2>5. Covered(w.files, 2) /\ Covered(w.files, 3)
    BY <2>1
  <2>6. \A k \in 1..2 : Covered(journal, k)'
    BY <2>2, <2>4, <2>5 DEF Covered
  <2>7. ASSUME NEW i \in DOMAIN w.files PROVE \E k \in 1..2 : i \in DOMAIN todo'[k].files
    <3>1. i \in DOMAIN todo[2].files \/ i \in DOMAIN todo[3].files
      BY <2>1
    <3> QED BY <2>4, <3>1
  <2>8. Replaying'
    BY <2>1, <2>2, <2>4, <2>6, <2>7 DEF Replaying
  <2>9. \A i \in Packet : Outcome(i)'
    <3>1. \A i \in DOMAIN w.files : ~(\A k \in 1..(n - 1) : i \notin DOMAIN todo[k + 1].files)
      BY <1>1, <2>1, <2>4, <2>7
    <3>2. \A i \in Packet : i \notin DOMAIN w.files => Recovered'[i] = Recovered[i]
      BY <1>4, <1>9, <2>2 DEF NoFiles
    <3> QED BY <1>6, <1>7, <3>1, <3>2
  <2> QED BY <2>1, <2>2, <2>3, <2>8, <2>9
<1>10. CASE journal = NoFiles /\ Recording
  <2>1. \A k \in 1..n : todo[k].place = "record" /\ Harmless(todo[k].files)
    BY <1>0, <1>10 DEF Recording
  <2>2. /\ w.place = "record" /\ journal' = NoFiles
        /\ \A i \in DOMAIN w.files : ~Approves(w.files[i], w.files[i].source)
                                     /\ (disk[i].state = "completed" => w.files[i].state = "completed")
    BY <1>0, <1>1, <1>2, <1>10, <2>1 DEF Harmless
  <2>3. /\ \A i \in Packet : Recovered[i] = disk[i] /\ Recovered'[i] = disk'[i]
        /\ \A i \in Packet : disk'[i] = IF i \in DOMAIN w.files THEN w.files[i] ELSE disk[i]
    BY <1>2, <1>4, <1>10, <2>2 DEF NoFiles
  <2>4. ASSUME NEW y \in Packet, Approves(disk'[y], disk'[y].source)
        PROVE  disk'[disk'[y].source].state = "completed" /\ disk'[y].source \in Packet
    <3>1. disk'[y] = disk[y]
      BY <2>2, <2>3, <2>4
    <3>2. Shaped(y, disk[y]) /\ disk[y].kind = "review"
      BY <2>4, <3>1 DEF DispatchInv, CopiesSound, SoundCopy, Approves
    <3>3. disk[y].source \in Packet
      BY <3>2, ReviewSource
    <3>4. disk[disk[y].source].state = "completed"
      BY <1>3, <2>3, <2>4, <3>1, <3>3 DEF Together
    <3> QED BY <2>2, <2>3, <3>1, <3>3, <3>4
  <2>5. Together(Recovered)'
    <3>1. ASSUME NEW y \in Packet, Approves(Recovered'[y], Recovered'[y].source)
          PROVE  Recovered'[Recovered'[y].source].state = "completed"
      BY <2>3, <2>4, <3>1
    <3>2. \A f : f = Recovered' => (Together(f) <=> Together(Recovered)')
      BY DEF Together, Approves
    <3>3. \A f : f = Recovered' => Together(f)
      BY <3>1 DEF Together
    <3> QED BY <3>2, <3>3
  <2>6. Recording'
    <3>1. ASSUME NEW k \in 1..(n - 1) PROVE todo'[k].place = "record" /\ Harmless(todo[k].files)'
      <4>1. todo'[k] = todo[k + 1] /\ k + 1 \in 1..n /\ todo[k + 1].place = "record"
        BY <1>1, <2>1
      <4>2. \A i \in DOMAIN todo[k + 1].files :
               /\ i \in Packet
               /\ ~Approves(todo[k + 1].files[i], todo[k + 1].files[i].source)
               /\ disk[i].state = "completed" => todo[k + 1].files[i].state = "completed"
        BY <1>0, <2>1, <4>1, FilesTyped DEF Harmless
      <4>3. \A i \in DOMAIN todo[k + 1].files : i \in DOMAIN w.files => todo[k + 1].files[i] = w.files[i]
        BY <1>0, <1>1, <1>5, <4>1, <4>2
      <4>4. \A i \in DOMAIN todo'[k].files :
               /\ ~Approves(todo'[k].files[i], todo'[k].files[i].source)
               /\ disk'[i].state = "completed" => todo'[k].files[i].state = "completed"
        BY <2>3, <4>1, <4>2, <4>3
      <4> QED BY <4>1, <4>4 DEF Harmless, Approves
    <3> QED BY <1>1, <3>1 DEF Recording
  <2>7. \A i \in Packet : Outcome(i)'
    BY <1>6, <1>7, <2>3
  <2> QED BY <2>2, <2>5, <2>6, <2>7
<1> QED BY <1>3, <1>8, <1>9, <1>10

(* A used request stays in the record that used it.                         *)
LEMMA UsedOnFile ==
  ASSUME DispatchInv, FilesSound', Kept, allowed' = allowed
  PROVE  \A a \in allowed : a[2] \in disk'[a[1]].nonces
<1>1. ASSUME NEW a \in allowed PROVE a[2] \in disk'[a[1]].nonces
  <2>1. a[1] \in Packet /\ a[2] \in Request /\ a = <<a[1], a[2]>> /\ a[2] \in disk[a[1]].nonces
    BY <1>1 DEF DispatchInv, Nonces, DispatchTyped
  <2>2. disk[a[1]] # NoRecord
    BY <2>1 DEF NoRecord
  <2>3. Remembers(a[1], disk[a[1]])'
    BY <2>1 DEF FilesSound, SoundCopy
  <2> QED BY <1>1, <2>1, <2>2, <2>3 DEF Remembers, Kept
<1> QED BY <1>1

(* A write that is not the last of its call.                                *)
LEMMA NextWriteStep ==
  ASSUME DispatchInv, WriteNext, Len(todo) > 1
  PROVE  DispatchInv'
<1>0. PICK n : n = Len(todo)
  OBVIOUS
<1>1. /\ Shifted /\ after.allow = {} /\ todo' # << >>
      /\ UNCHANGED <<pilot, mem, after, target, effect, allowed, replayed, gate, issued, faults>>
  BY ShiftFacts DEF Shifted
<1>2. /\ n \in Nat /\ n > 1 /\ 1 \in 1..n /\ Len(todo') = n - 1 /\ todo' \in Seq(FileWrite) /\ todo # << >>
      /\ \A k \in 1..(n - 1) : todo'[k] = todo[k + 1] /\ k + 1 \in 1..n
  BY <1>0, <1>1 DEF Shifted
<1>3. FilesSound' /\ Kept
  BY <1>1, FilesWritten DEF Shifted
<1>4. DispatchTyped' /\ Unissued' /\ Guarding'
  BY <1>1, <1>2, <1>3 DEF DispatchInv, DispatchTyped, Unissued, Guarding, FilesSound
<1>5. Resting'
  BY <1>1, <1>2 DEF DispatchInv, Resting
<1>6. \A k \in 1..n : /\ SoundFiles(todo[k].files) /\ SoundMemory(todo[k].undo) /\ MemLinked(todo[k].undo)
                      /\ \A i \in DOMAIN todo[k].files : Kindred(todo[k].files[i], after.mem.records[i])
                      /\ \A i \in Packet : todo[k].undo.records[i] # NoRecord =>
                                             Kindred(todo[k].undo.records[i], after.mem.records[i])
  BY <1>0 DEF DispatchInv, CopiesSound, InStep, Links
<1>7. CopiesSound'
  <2>1. \A i \in Packet : SoundCopy(i, mem.records[i]) /\ SoundCopy(i, after.mem.records[i])
    BY DEF DispatchInv, CopiesSound, SoundMemory
  <2>2. SoundMemory(mem)'
    <3>1. \A i \in Packet : SoundCopy(i, mem.records[i])'
      <4>1. \A i \in Packet : mem.records[i] # NoRecord => disk[i] # NoRecord
        BY DEF DispatchInv, OnDisk
      <4>2. \A i \in Packet, s \in Record : s = mem.records[i] => SoundCopy(i, s)'
        BY <1>3, <2>1, <4>1 DEF Kept
      <4> QED BY <1>1, <4>2, FilesTyped
    <3> QED BY <3>1 DEF SoundMemory
  <2>3. SoundMemory(after.mem)'
    <3>1. \A i \in Packet, s \in Record : s = after.mem.records[i] => SoundCopy(i, s)'
      BY <1>3, <2>1 DEF Kept, Kindred
    <3> QED BY <1>1, <3>1, FilesTyped DEF SoundMemory
  <2>4. ASSUME NEW k \in 1..(n - 1) PROVE SoundFiles(todo[k].files)' /\ SoundMemory(todo[k].undo)'
    <3>1. PICK w : w = todo[k + 1]
      OBVIOUS
    <3>2. /\ todo'[k] = w /\ SoundFiles(w.files) /\ SoundMemory(w.undo)
          /\ \A i \in DOMAIN w.files : Kindred(w.files[i], after.mem.records[i])
          /\ \A i \in Packet : w.undo.records[i] # NoRecord => Kindred(w.undo.records[i], after.mem.records[i])
      BY <1>2, <1>6, <3>1
    <3>3. (\A i \in DOMAIN w.files : i \in Packet /\ w.files[i] \in Record)
            /\ \A i \in Packet : w.undo.records[i] \in Record
      BY <1>0, <1>2, <3>1, FilesTyped
    <3>4. \A i \in DOMAIN w.files : SoundCopy(i, w.files[i])' /\ w.files[i] # NoRecord
      BY <1>3, <3>2, <3>3 DEF Kept, SoundFiles
    <3>5. \A i \in Packet : SoundCopy(i, w.undo.records[i])'
      BY <1>3, <3>2, <3>3 DEF Kept, SoundMemory
    <3> QED BY <3>2, <3>4, <3>5 DEF SoundFiles, SoundMemory
  <2> QED BY <1>2, <1>3, <2>2, <2>3, <2>4 DEF CopiesSound, FilesSound
<1>8. InStep'
  BY <1>1, <1>2, <1>6 DEF InStep
<1>9. \A i \in Packet, k \in 1..n : Known(i, k + 1) => Known(i, k)'
  BY <1>0, <1>1, <1>3, ShiftKnown
<1>10. OnDisk'
  <2>1. \A i \in Packet : mem'.records[i] # NoRecord => disk'[i] # NoRecord
    BY <1>1, <1>3 DEF DispatchInv, OnDisk, Kept
  <2>2. \A i \in Packet : after'.mem.records[i] # NoRecord => Known(i, n)'
    BY <1>0, <1>1, <1>2, <1>9 DEF DispatchInv, OnDisk
  <2>3. ASSUME NEW k \in 1..(n - 1) PROVE \A i \in Packet : todo'[k].undo.records[i] # NoRecord => Known(i, k)'
    <3>1. todo'[k] = todo[k + 1] /\ k \in 1..n /\ k + 1 \in 1..Len(todo)
      BY <1>0, <1>2
    <3> QED BY <1>9, <3>1 DEF DispatchInv, OnDisk
  <2>4. ASSUME NEW k \in 1..(n - 1), todo'[k].place = "journal"
        PROVE  \A i \in DOMAIN todo'[k].files : disk'[i] # NoRecord
    <3>1. todo'[k] = todo[k + 1] /\ k + 1 \in 1..Len(todo)
      BY <1>0, <1>2
    <3>2. \A i \in DOMAIN todo[k + 1].files : i \in Packet /\ disk[i] # NoRecord
      BY <2>4, <3>1, FilesTyped DEF DispatchInv, OnDisk
    <3> QED BY <1>3, <3>1, <3>2 DEF Kept
  <2>5. Len(todo') = n - 1 /\ Len(todo') + 1 = n
    BY <1>2
  <2> QED BY <1>3, <2>1, <2>2, <2>3, <2>4, <2>5 DEF OnDisk, FilesSound
<1>11. Links'
  <2>1. MemLinked(mem)' /\ MemLinked(after.mem)'
    BY <1>1 DEF DispatchInv, Links, MemLinked
  <2>2. ASSUME NEW k \in 1..(n - 1) PROVE MemLinked(todo[k].undo)'
    <3>1. todo'[k] = todo[k + 1] /\ MemLinked(todo[k + 1].undo)
      BY <1>2, <1>6
    <3> QED BY <3>1 DEF MemLinked
  <2> QED BY <1>2, <2>1, <2>2 DEF Links
<1>12. Nonces'
  <2>1. \A a \in allowed : a[2] \in disk'[a[1]].nonces
    BY <1>1, <1>3, UsedOnFile
  <2> QED BY <1>0, <1>1, <1>2, <2>1 DEF DispatchInv, Nonces
<1>13. VerdictFinal'
  <2>1. ASSUME NEW y \in Packet, NEW r, Final(y, r) PROVE Final(y, r)'
    <3>1. y \in DOMAIN journal' => (y \in DOMAIN journal /\ journal'[y] = journal[y])
                                     \/ (y \in DOMAIN todo[1].files /\ journal'[y] = todo[1].files[y])
      BY <1>1, <1>2 DEF Shifted, Perform
    <3> QED BY <1>0, <1>1, <1>2, <2>1, <3>1 DEF Final
  <2>2. \A y \in Packet : Final(y, disk[y]) /\ (y \in DOMAIN journal => Final(y, journal[y]))
    BY DEF DispatchInv, VerdictFinal
  <2>3. \A k \in 1..n : \A y \in DOMAIN todo[k].files : y \in Packet /\ Final(y, todo[k].files[y])
    BY <1>0, FilesTyped DEF DispatchInv, VerdictFinal
  <2>4. /\ \A y \in Packet : disk'[y] = disk[y] \/ (y \in DOMAIN todo[1].files /\ disk'[y] = todo[1].files[y])
        /\ journal' = journal \/ journal' = todo[1].files
    BY <1>1, <1>2, PerformFiles DEF Shifted
  <2>5. \A y \in Packet : Final(y, disk[y])'
    <3>1. \A y \in Packet : \A r : r = disk'[y] => Final(y, r)'
      BY <1>2, <2>1, <2>2, <2>3, <2>4
    <3> QED BY <3>1 DEF Final
  <2>6. \A y \in DOMAIN journal' : Final(y, journal[y])'
    <3>1. \A y \in DOMAIN journal' : \A r : r = journal'[y] => Final(y, r)'
      BY <1>2, <2>1, <2>2, <2>3, <2>4, FilesTyped
    <3> QED BY <3>1 DEF Final
  <2>7. ASSUME NEW k \in 1..(n - 1) PROVE \A y \in DOMAIN todo'[k].files : Final(y, todo[k].files[y])'
    <3>1. \A y \in DOMAIN todo'[k].files : \A r : r = todo'[k].files[y] => Final(y, r)'
      BY <1>2, <2>1, <2>3
    <3> QED BY <3>1 DEF Final
  <2> QED BY <1>2, <2>5, <2>6, <2>7 DEF VerdictFinal
<1>14. \A p \in Packet, k \in 1..n : ApprovedBy(p, k + 1) => ApprovedBy(p, k)'
  BY <1>0, <1>1, <1>3, ShiftKnown
<1>15. ApprovalInv'
  <2>1. \A p \in Packet : Finished(mem'.records[p]) => Approved(p)'
    BY <1>1, <1>3 DEF DispatchInv, ApprovalInv, Kept
  <2>2. \A p \in Packet : Finished(after'.mem.records[p]) => ApprovedBy(p, n)'
    BY <1>0, <1>1, <1>2, <1>14 DEF DispatchInv, ApprovalInv
  <2>3. ASSUME NEW k \in 1..(n - 1)
        PROVE  /\ \A p \in Packet : Finished(todo'[k].undo.records[p]) => Approved(p)'
               /\ todo'[k].place = "record" =>
                    \A p \in DOMAIN todo'[k].files : Finished(todo'[k].files[p]) => ApprovedBy(p, k)'
               /\ todo'[k].place = "journal" /\ todo'[k].files # NoFiles => Batch(todo[k].files)'
    <3>1. PICK w : w = todo[k + 1]
      OBVIOUS
    <3>2. todo'[k] = w /\ k \in 1..n /\ k + 1 \in 1..Len(todo)
      BY <1>0, <1>2, <3>1
    <3>3. /\ \A p \in Packet : Finished(w.undo.records[p]) => Approved(p)
          /\ w.place = "record" =>
               \A p \in DOMAIN w.files : p \in Packet /\ (Finished(w.files[p]) => ApprovedBy(p, k + 1))
          /\ w.place = "journal" /\ w.files # NoFiles => Batch(w.files)
      BY <3>1, <3>2, FilesTyped DEF DispatchInv, ApprovalInv
    <3>4. \A p \in Packet : Finished(w.undo.records[p]) => Approved(p)'
      BY <1>3, <3>3 DEF Kept
    <3>5. w.place = "record" => \A p \in DOMAIN w.files : Finished(w.files[p]) => ApprovedBy(p, k)'
      BY <1>14, <3>2, <3>3
    <3>6. w.place = "journal" /\ w.files # NoFiles => Batch(w.files)'
      BY <1>3, <3>3 DEF Kept, Batch
    <3>7. \A f : f = todo'[k].files /\ Batch(f)' => Batch(todo[k].files)'
      BY DEF Batch
    <3> QED BY <3>2, <3>4, <3>5, <3>6, <3>7
  <2>4. Len(todo') = n - 1 /\ Len(todo') + 1 = n
    BY <1>2
  <2> QED BY <1>3, <2>1, <2>2, <2>3, <2>4 DEF ApprovalInv, FilesSound
<1>16. CrashOnly'
  <2>1. ASSUME faults = 0
        PROVE  /\ Together(Recovered)'
               /\ IF journal' # NoFiles THEN Replaying' ELSE (Journalling \/ Recording)'
               /\ \A i \in Packet : Outcome(i)'
    BY <1>0, <1>1, <1>2, <2>1, NextTogether
  <2> QED BY <1>1, <2>1 DEF CrashOnly
<1> QED BY <1>4, <1>5, <1>7, <1>8, <1>10, <1>11, <1>12, <1>13, <1>15, <1>16 DEF DispatchInv

(* The last write of a call: what it allows is on record by then.           *)
LEMMA LastCopies ==
  ASSUME DispatchInv, WriteNext, Len(todo) = 1
  PROVE  \A j \in Packet, s \in Record :
           SoundCopy(j, s) /\ Linked(j, s)' /\ (s = after.mem.records[j] \/ OnFile(j, s)') => SoundCopy(j, s)'
<1>1. /\ allowed' = allowed \cup after.allow /\ issued' = issued /\ effect' = effect
      /\ target' = [i \in Packet |-> IF \E n \in Request : <<i, n>> \in after.allow
                                     THEN [target[i] EXCEPT !.at = "allowed"] ELSE target[i]]
  <2>1. Tail(todo) = << >> /\ todo # << >>
    BY RestOfWrites DEF WriteNext, DispatchInv, DispatchTyped
  <2> QED BY <2>1 DEF WriteNext, counters
<1>2. CASE after.allow = {}
  <2>1. target' = target /\ allowed' = allowed
    BY <1>1, <1>2 DEF DispatchInv, DispatchTyped
  <2>2. UNCHANGED <<target, allowed, issued, effect>>
    BY <1>1, <2>1
  <2> QED BY <2>2 DEF SoundCopy, Shaped, Truthful, Remembers
<1>3. CASE after.allow # {}
  <2>1. Guarding
    BY DEF DispatchInv
  <2>2. PICK i \in Packet, q \in Request :
          /\ after.allow = {<<i, q>>} /\ todo[1].place = "record"
          /\ DOMAIN todo[1].files = {i} /\ todo[1].files[i] = after.mem.records[i]
          /\ after.mem.records[i].kind = "errand"
          /\ Pending(after.mem.records[i]) /\ after.mem.records[i].pending = q
          /\ q \in after.mem.records[i].nonces
          /\ target[i].request = q /\ target[i].at = "asked"
    BY <1>3, <2>1 DEF Guarding
  <2>3. PICK r : r = after.mem.records[i]
    OBVIOUS
  <2>4. /\ r \in Record /\ SoundCopy(i, r) /\ r.kind = "errand" /\ Pending(r) /\ r.pending = q /\ q \in r.nonces
    BY <2>2, <2>3, FilesTyped DEF DispatchInv, CopiesSound, SoundMemory
  <2>5. /\ allowed' = allowed \cup {<<i, q>>} /\ target'[i].at = "allowed" /\ target'[i].request = q
        /\ \A j \in Packet \ {i} : target'[j] = target[j]
    BY <1>1, <2>2 DEF DispatchInv, DispatchTyped
  <2>6. /\ journal' = journal /\ disk'[i] = r
    <3>1. todo # << >> /\ Perform(Head(todo)) /\ Head(todo) = todo[1]
      BY RestOfWrites DEF WriteNext, DispatchInv, DispatchTyped
    <3> QED BY <2>2, <2>3, <3>1, PerformFiles
  <2>7. i \notin DOMAIN journal
    <3>1. ASSUME i \in DOMAIN journal PROVE FALSE
      <4>1. disk[i] # NoRecord /\ Kindred(journal[i], disk[i]) /\ Linked(i, r) /\ r # NoRecord
        <5>1. disk[i] # NoRecord /\ Kindred(journal[i], disk[i])
          BY <3>1, CurrentFacts
        <5>2. Linked(i, r)
          BY <2>4 DEF SoundCopy
        <5>3. r # NoRecord
          BY <2>4 DEF NoRecord
        <5> QED BY <5>1, <5>2, <5>3
      <4>2. journal[i].kind = "errand"
        BY <2>4, <4>1 DEF Linked, Kindred
      <4>3. Batch(journal)
        BY <3>1 DEF DispatchInv, ApprovalInv, NoFiles
      <4> QED BY <3>1, <4>2, <4>3 DEF Batch, IsVerdict
    <3> QED BY <3>1
  <2>8. SoundCopy(i, r) /\ Linked(i, r)' => SoundCopy(i, r)'
    <3>1. Truthful(i, r) => Truthful(i, r)'
      BY <1>1, <2>2, <2>4, <2>5 DEF Truthful, Pending, Undone
    <3>2. Remembers(i, r) => Remembers(i, r)'
      BY <2>4, <2>5 DEF Remembers
    <3>3. Shaped(i, r) => Shaped(i, r)'
      BY <1>1 DEF Shaped
    <3> QED BY <3>1, <3>2, <3>3 DEF SoundCopy
  <2>9. ASSUME NEW j \in Packet, NEW s \in Record, j # i, SoundCopy(j, s), Linked(j, s)' PROVE SoundCopy(j, s)'
    <3>1. target'[j] = target[j] /\ \A n : <<j, n>> \in allowed' => <<j, n>> \in allowed
      BY <2>5, <2>9
    <3> QED BY <1>1, <2>9, <3>1 DEF SoundCopy, Shaped, Truthful, Remembers
  <2>10. \A s : s = after.mem.records[i] \/ OnFile(i, s)' => s = r
    BY <2>3, <2>6, <2>7 DEF OnFile
  <2> QED BY <2>8, <2>9, <2>10
<1> QED BY <1>2, <1>3

(* Where no operation fails, the last write leaves the memory as the files  *)
(* are.                                                                     *)
LEMMA LastTogether ==
  ASSUME DispatchInv, Shifted, Len(todo) = 1, faults = 0
  PROVE  Together(Recovered)' /\ journal' = NoFiles /\ after.mem.records = disk'
<1>0. PICK w : w = todo[1]
  OBVIOUS
<1>1. 1 \in 1..1 /\ todo # << >> /\ 1..0 = {}
  BY DEF Shifted
<1>2. /\ DOMAIN w.files \subseteq Packet /\ disk' \in [Packet -> Record]
      /\ w.place = "record" =>
           /\ journal' = journal
           /\ \A i \in Packet : disk'[i] = IF i \in DOMAIN w.files THEN w.files[i] ELSE disk[i]
      /\ w.place = "journal" => journal' = w.files /\ disk' = disk
  BY <1>0, PerformFiles DEF Shifted
<1>3. /\ Together(Recovered)
      /\ IF journal # NoFiles THEN Replaying ELSE Journalling \/ Recording
      /\ \A i \in Packet : Outcome(i)
  BY <1>1 DEF Shifted, DispatchInv, CrashOnly
<1>4. /\ \A i \in Packet : Recovered[i] = IF i \in DOMAIN journal THEN journal[i] ELSE disk[i]
      /\ \A i \in Packet : Recovered'[i] = IF i \in DOMAIN journal' THEN journal'[i] ELSE disk'[i]
  BY DEF Recovered, Over
<1>5. \A i \in Packet : /\ i \in DOMAIN w.files => after.mem.records[i] = w.files[i]
                        /\ i \notin DOMAIN w.files => after.mem.records[i] = Recovered[i]
  <2>1. \A k \in 1..Len(todo) : k = 1
    BY <1>1
  <2>2. ASSUME NEW i \in Packet
        PROVE  /\ i \in DOMAIN w.files => after.mem.records[i] = w.files[i]
               /\ i \notin DOMAIN w.files => after.mem.records[i] = Recovered[i]
    BY <1>0, <1>1, <1>3, <2>1 DEF Outcome
  <2> QED BY <2>2
<1>6. after.mem.records \in [Packet -> Record]
  BY DEF DispatchInv, DispatchTyped, Memory
<1>7. CASE journal # NoFiles
  <2>1. w.place = "journal" /\ w.files = NoFiles /\ \A i \in DOMAIN journal : disk[i] = journal[i]
    BY <1>0, <1>1, <1>3, <1>7 DEF Replaying
  <2>2. journal' = NoFiles /\ disk' = disk /\ \A i \in Packet : Recovered'[i] = Recovered[i] /\ Recovered[i] = disk[i]
    BY <1>2, <1>4, <2>1 DEF NoFiles
  <2>3. Together(Recovered)'
    BY <1>3, <1>4, <2>2 DEF Recovered, Over, Together
  <2>4. \A i \in Packet : after.mem.records[i] = disk'[i]
    BY <1>5, <2>1, <2>2 DEF NoFiles
  <2> QED BY <1>2, <1>6, <2>2, <2>3, <2>4
<1>8. CASE journal = NoFiles
  <2>1. w.place = "record" /\ Harmless(w.files)
    BY <1>0, <1>1, <1>3, <1>8 DEF Journalling, Recording
  <2>2. /\ journal' = NoFiles
        /\ \A i \in Packet : Recovered[i] = disk[i] /\ Recovered'[i] = disk'[i]
        /\ \A i \in Packet : disk'[i] = IF i \in DOMAIN w.files THEN w.files[i] ELSE disk[i]
    BY <1>2, <1>4, <1>8, <2>1 DEF NoFiles
  <2>3. \A i \in DOMAIN w.files : ~Approves(w.files[i], w.files[i].source)
                                     /\ (disk[i].state = "completed" => w.files[i].state = "completed")
    BY <2>1 DEF Harmless
  <2>4. ASSUME NEW y \in Packet, Approves(disk'[y], disk'[y].source)
        PROVE  disk'[disk'[y].source].state = "completed" /\ disk'[y].source \in Packet
    <3>1. disk'[y] = disk[y]
      BY <2>2, <2>3, <2>4
    <3>2. Shaped(y, disk[y]) /\ disk[y].kind = "review"
      BY <2>4, <3>1 DEF DispatchInv, CopiesSound, SoundCopy, Approves
    <3>3. disk[y].source \in Packet
      BY <3>2, ReviewSource
    <3>4. disk[disk[y].source].state = "completed"
      BY <1>3, <2>2, <2>4, <3>1, <3>3 DEF Together
    <3> QED BY <2>2, <2>3, <3>1, <3>3, <3>4
  <2>5. Together(Recovered)'
    <3>1. ASSUME NEW y \in Packet, Approves(Recovered'[y], Recovered'[y].source)
          PROVE  Recovered'[Recovered'[y].source].state = "completed"
      BY <2>2, <2>4, <3>1
    <3>2. \A f : f = Recovered' => (Together(f) <=> Together(Recovered)')
      BY DEF Together, Approves
    <3>3. \A f : f = Recovered' => Together(f)
      BY <3>1 DEF Together
    <3> QED BY <3>2, <3>3
  <2>6. \A i \in Packet : after.mem.records[i] = disk'[i]
    BY <1>5, <2>2
  <2> QED BY <1>2, <1>6, <2>2, <2>5, <2>6
<1> QED BY <1>7, <1>8

(* The last write of a call: its memory is the pilot's from now on.         *)
LEMMA LastWriteStep ==
  ASSUME DispatchInv, WriteNext, Len(todo) = 1
  PROVE  DispatchInv'
<1>1. /\ Shifted /\ todo' = << >> /\ todo # << >> /\ 1 \in 1..Len(todo) /\ Head(todo) = todo[1]
  BY ShiftFacts DEF Shifted
<1>2. /\ mem' = after.mem /\ pilot' = "up" /\ Settled
      /\ allowed' = allowed \cup after.allow /\ (replayed' = (replayed \/ after.allow \cap allowed # {}))
      /\ target' = [i \in Packet |-> IF \E n \in Request : <<i, n>> \in after.allow
                                     THEN [target[i] EXCEPT !.at = "allowed"] ELSE target[i]]
      /\ UNCHANGED <<gate, issued, faults, effect>> /\ Perform(Head(todo))
  <2>1. Tail(todo) = << >>
    BY <1>1, RestOfWrites DEF WriteNext, DispatchInv, DispatchTyped
  <2> QED BY <2>1 DEF WriteNext, counters
<1>3. \A j \in Packet, s \in Record :
        SoundCopy(j, s) /\ Linked(j, s)' /\ (s = after.mem.records[j] \/ OnFile(j, s)') => SoundCopy(j, s)'
  BY LastCopies
<1>4. FilesSound'
  BY <1>1, <1>2, <1>3, PerformSound
<1>5. /\ \A j \in Packet : disk[j] # NoRecord => disk'[j] # NoRecord /\ Kindred(disk'[j], disk[j])
      /\ \A j \in Packet, s \in Record :
              /\ Linked(j, s) /\ Shaped(j, s)
              /\ disk[j] # NoRecord \/ s = NoRecord \/ Kindred(s, after.mem.records[j])
              => Linked(j, s)'
      /\ \A p \in Packet : Approved(p) => Approved(p)'
  BY <1>1, <1>2, PerformKeeps
<1>6. PICK w : w = todo[1]
  OBVIOUS
<1>7. /\ DOMAIN w.files \subseteq Packet
      /\ w.place = "record" =>
           \A i \in Packet : disk'[i] = IF i \in DOMAIN w.files THEN w.files[i] ELSE disk[i]
  BY <1>1, <1>2, <1>6, PerformFiles
<1>8. \A i \in DOMAIN w.files : w.files[i] # NoRecord
  BY <1>1, <1>6 DEF DispatchInv, CopiesSound, SoundFiles
<1>9. SoundMemory(mem)'
  <2>1. ASSUME NEW i \in Packet, NEW s \in Record, s = after.mem.records[i] PROVE SoundCopy(i, s)'
    <3>1. SoundCopy(i, s)
      BY <2>1 DEF DispatchInv, CopiesSound, SoundMemory
    <3>2. Linked(i, s)'
      BY <1>5, <2>1, <3>1 DEF SoundCopy, Kindred
    <3> QED BY <1>3, <2>1, <3>1, <3>2
  <2>2. \A i \in Packet, s \in Record : s = after.mem.records[i] => SoundCopy(i, s)'
    BY <2>1
  <2> QED BY <1>2, <2>2, FilesTyped DEF SoundMemory
<1>10. \A k \in 1..1 : k = 1
  OBVIOUS
<1>11. \A i \in Packet : mem'.records[i] # NoRecord => disk'[i] # NoRecord
  <2>1. ASSUME NEW i \in Packet, after.mem.records[i] # NoRecord PROVE disk'[i] # NoRecord
    <3>1. Known(i, 2)
      BY <2>1 DEF DispatchInv, OnDisk
    <3>2. CASE disk[i] # NoRecord
      BY <1>5, <3>2
    <3>3. CASE Comes(i, 2)
      <4>1. w.place = "record" /\ i \in DOMAIN w.files
        BY <1>6, <1>10, <3>3 DEF Comes
      <4> QED BY <1>7, <1>8, <4>1
    <3> QED BY <3>1, <3>2, <3>3 DEF Known
  <2> QED BY <1>2, <2>1
<1>12. \A p \in Packet : Finished(mem'.records[p]) => Approved(p)'
  <2>1. ASSUME NEW p \in Packet, Finished(after.mem.records[p]) PROVE Approved(p)'
    <3>1. ApprovedBy(p, 2)
      BY <2>1 DEF DispatchInv, ApprovalInv
    <3>2. CASE Approved(p)
      BY <1>5, <3>2
    <3>3. CASE ~Approved(p)
      <4>1. w.place = "record" /\ \E y \in DOMAIN w.files : Approves(w.files[y], p)
        BY <1>6, <1>10, <3>1, <3>3 DEF ApprovedBy
      <4>2. PICK y \in DOMAIN w.files : Approves(w.files[y], p)
        BY <4>1
      <4>3. y \in Packet /\ disk'[y] = w.files[y]
        BY <1>7, <4>1, <4>2
      <4> QED BY <4>2, <4>3 DEF Approved, Approves
    <3> QED BY <3>2, <3>3
  <2> QED BY <1>2, <2>1
<1>13. after.allow = {} \/ \E i \in Packet, q \in Request :
          /\ after.allow = {<<i, q>>} /\ q \in after.mem.records[i].nonces /\ <<i, q>> \in after.mem.used
          /\ w.place = "record" /\ DOMAIN w.files = {i} /\ w.files[i] = after.mem.records[i]
  <2>1. Guarding
    BY DEF DispatchInv
  <2> QED BY <1>6, <2>1 DEF Guarding
<1>14. \A a \in allowed' : a[2] \in disk'[a[1]].nonces /\ a \in mem'.used
  <2>1. ASSUME NEW a \in allowed PROVE a[2] \in disk'[a[1]].nonces /\ a \in mem'.used
    <3>1. a[1] \in Packet /\ a[2] \in Request /\ a = <<a[1], a[2]>> /\ a[2] \in disk[a[1]].nonces /\ a \in after.mem.used
      BY <1>1, <2>1 DEF DispatchInv, Nonces, DispatchTyped
    <3>2. disk'[a[1]] # NoRecord
      <4>1. disk[a[1]] # NoRecord
        BY <3>1 DEF NoRecord
      <4> QED BY <1>5, <3>1, <4>1
    <3>3. Remembers(a[1], disk[a[1]])'
      BY <1>4, <3>1 DEF FilesSound, SoundCopy
    <3> QED BY <1>2, <2>1, <3>1, <3>2, <3>3 DEF Remembers
  <2>2. ASSUME NEW a \in after.allow PROVE a[2] \in disk'[a[1]].nonces /\ a \in mem'.used
    <3>1. PICK i \in Packet, q \in Request :
            /\ after.allow = {<<i, q>>} /\ q \in after.mem.records[i].nonces /\ <<i, q>> \in after.mem.used
            /\ w.place = "record" /\ DOMAIN w.files = {i} /\ w.files[i] = after.mem.records[i]
      BY <1>13, <2>2
    <3>2. a = <<i, q>> /\ a[1] = i /\ a[2] = q
      BY <2>2, <3>1
    <3>3. disk'[i] = after.mem.records[i] /\ mem' = after.mem
      BY <1>2, <1>7, <3>1
    <3> QED BY <3>1, <3>2, <3>3
  <2> QED BY <1>2, <2>1, <2>2
<1>15. MemLinked(mem)' /\ ~replayed'
  <2>1. MemLinked(mem)'
    BY <1>2 DEF DispatchInv, Links, MemLinked
  <2>2. after.allow \cap allowed = {} /\ ~replayed
    BY DEF DispatchInv, Nonces
  <2> QED BY <1>2, <2>1, <2>2
<1>16. MemoryHeld'
  BY <1>9, <1>11, <1>12, <1>14, <1>15 DEF MemoryHeld
<1>17. DispatchTyped' /\ Unissued'
  <2>1. target' \in [Packet -> [request : {NoRequest} \cup Request, at : Journey]]
    BY <1>2 DEF DispatchInv, DispatchTyped, Journey
  <2>2. allowed' \subseteq Packet \X Request /\ mem' \in Memory
    BY <1>2 DEF DispatchInv, DispatchTyped
  <2>3. DispatchTyped'
    BY <1>1, <1>2, <1>4, <2>1, <2>2, EmptyFacts DEF DispatchInv, DispatchTyped, FilesSound, Settled
  <2>4. ASSUME NEW i \in Packet, i > issued PROVE target'[i].at = "idle" /\ ~effect'[i]
    <3>1. target[i].at = "idle" /\ ~effect[i]
      BY <2>4 DEF DispatchInv, Unissued
    <3>2. \A n \in Request : <<i, n>> \notin after.allow
      <4>1. Guarding
        BY DEF DispatchInv
      <4>2. ASSUME NEW n \in Request, <<i, n>> \in after.allow PROVE FALSE
        <5>1. PICK j \in Packet, q \in Request : after.allow = {<<j, q>>} /\ target[j].at = "asked"
          BY <4>1, <4>2 DEF Guarding
        <5>2. i = j
          BY <4>2, <5>1
        <5> QED BY <3>1, <5>1, <5>2
      <4> QED BY <4>2
    <3> QED BY <1>2, <3>1, <3>2
  <2> QED BY <1>2, <2>3, <2>4 DEF Unissued
<1>18. CrashOnly'
  <2>1. faults = 0 => Together(Recovered)' /\ journal' = NoFiles /\ after.mem.records = disk'
    BY <1>1, LastTogether
  <2> QED BY <1>1, <1>2, <2>1 DEF CrashOnly
<1> QED BY <1>1, <1>2, <1>4, <1>16, <1>17, <1>18, CallEnds

(* The gate moves by itself: a branch is opened, closed, given up or left   *)
(* locked.                                                                  *)
LEMMA GateAlone ==
  ASSUME DispatchInv, GateFails \/ RecoverStale \/ (\E i \in Packet : Expire(i)) \/ UNCHANGED vars
  PROVE  DispatchInv'
<1>1. /\ issued \in 0..MaxPacket /\ gate \in [branch : 0..issued, stuck : BOOLEAN] /\ faults \in Nat
      /\ MaxPacket \in Nat
  BY DispatchBounds DEF DispatchInv, DispatchTyped
<1>2. UNCHANGED <<disk, journal, pilot, mem, todo, after, target, effect, allowed, replayed>>
  BY DEF GateFails, RecoverStale, Expire, vars, world
<1>3. CASE GateFails
  <2>1. faults' = faults + 1 /\ (OpenBranch \/ \E i \in Packet : CloseBranch(i))
    BY <1>3 DEF GateFails
  <2>2. GateMoves
    BY <1>1, <2>1 DEF GateMoves, OpenBranch, CloseBranch
  <2> QED BY <1>2, <2>2, GateStep
<1>4. CASE RecoverStale \/ (\E i \in Packet : Expire(i)) \/ UNCHANGED vars
  <2>1. faults' = faults /\ issued' = issued /\ (gate' = gate \/ gate' = [gate EXCEPT !.branch = 0])
    BY <1>4 DEF RecoverStale, Expire, vars, counters
  <2>2. GateMoves
    BY <1>1, <2>1 DEF GateMoves
  <2> QED BY <1>2, <2>2, GateStep
<1> QED BY <1>3, <1>4

(* The process stops, in a call or between lock and unlock of the gate.     *)
LEMMA CrashStep ==
  ASSUME DispatchInv, Crash \/ CrashInGate
  PROVE  DispatchInv'
<1>1. /\ issued \in 0..MaxPacket /\ gate \in [branch : 0..issued, stuck : BOOLEAN] /\ faults \in Nat
      /\ MaxPacket \in Nat
  BY DispatchBounds DEF DispatchInv, DispatchTyped
<1>2. Stop /\ UNCHANGED <<disk, journal, target, effect, allowed, replayed, faults>>
  BY DEF Crash, CrashInGate, world
<1>3. CASE Crash
  <2>1. GateMoves
    BY <1>1, <1>2, <1>3 DEF GateMoves, Crash
  <2> QED BY <1>2, <2>1, StopStep
<1>4. CASE CrashInGate
  <2>1. \/ issued' = issued /\ gate' = [gate EXCEPT !.stuck = TRUE]
        \/ issued < MaxPacket /\ issued' = issued + 1 /\ gate' = [branch |-> issued + 1, stuck |-> TRUE]
        \/ issued' = issued /\ gate' = [branch |-> 0, stuck |-> TRUE]
    BY <1>4 DEF CrashInGate
  <2>2. faults' \in Nat /\ (faults' = 0 => faults = 0)
    BY <1>1, <1>2
  <2>3. /\ issued' \in issued..MaxPacket /\ gate' \in [branch : 0..issued', stuck : BOOLEAN]
        /\ gate'.branch \in {0, gate.branch} \/ gate'.branch > issued
    <3>1. CASE issued' = issued /\ gate' = [gate EXCEPT !.stuck = TRUE]
      <4>1. gate' = [branch |-> gate.branch, stuck |-> TRUE] /\ gate.branch \in 0..issued
        BY <1>1, <3>1
      <4>2. gate'.branch = gate.branch /\ gate' \in [branch : 0..issued, stuck : BOOLEAN]
        BY <4>1
      <4> QED BY <1>1, <3>1, <4>2
    <3>2. CASE issued < MaxPacket /\ issued' = issued + 1 /\ gate' = [branch |-> issued + 1, stuck |-> TRUE]
      BY <1>1, <3>2
    <3>3. CASE issued' = issued /\ gate' = [branch |-> 0, stuck |-> TRUE]
      BY <1>1, <3>3
    <3> QED BY <2>1, <3>1, <3>2, <3>3
  <2>4. GateMoves
    BY <2>2, <2>3 DEF GateMoves
  <2> QED BY <1>2, <2>4, StopStep
<1> QED BY <1>3, <1>4

(* The pilot starts with nothing.                                           *)
LEMMA DispatchInit == Init => DispatchInv
<1> SUFFICES ASSUME Init PROVE DispatchInv
  OBVIOUS
<1>1. /\ gate = [branch |-> 0, stuck |-> FALSE] /\ disk = Empty.records /\ journal = NoFiles
      /\ pilot = "down" /\ mem = Empty /\ todo = << >> /\ after = [mem |-> Empty, allow |-> {}]
      /\ after.mem = Empty /\ after.allow = {} /\ Len(todo) = 0 /\ 1..Len(todo) = {}
      /\ target = [i \in Packet |-> [request |-> NoRequest, at |-> "idle"]]
      /\ effect = [i \in Packet |-> FALSE]
      /\ allowed = {} /\ replayed = FALSE /\ issued = 0 /\ faults = 0
  BY DEF Init
<1>2. Empty \in Memory /\ (\A i \in Packet : Empty.records[i] = NoRecord) /\ Empty.records \in [Packet -> Record]
  BY DEF Empty, Memory, NoRecord, Record
<1>3. journal \in FileSet /\ DOMAIN journal = {}
  <2>1. NoFiles \in [{} -> Record] /\ DOMAIN NoFiles = {}
    BY DEF NoFiles
  <2> QED BY <1>1, <2>1, FileMade
<1>4. \A i \in Packet : SoundCopy(i, NoRecord)
  BY DEF SoundCopy, Shaped, Truthful, Remembers, Linked, NoRecord
<1>5. DispatchTyped
  BY <1>1, <1>2, <1>3, DispatchBounds DEF DispatchTyped, Journey
<1>6. Resting /\ Unissued /\ InStep /\ Guarding /\ Nonces
  BY <1>1, DispatchBounds DEF Resting, Unissued, InStep, Guarding, Nonces, Packet
<1>7. CopiesSound
  BY <1>1, <1>2, <1>3, <1>4 DEF CopiesSound, SoundFiles, SoundMemory
<1>8. OnDisk /\ Links
  <2>1. OnDisk
    BY <1>1, <1>2, <1>3 DEF OnDisk
  <2>2. MemLinked(Empty)
    BY <1>2 DEF MemLinked, NoRecord
  <2> QED BY <1>1, <2>1, <2>2 DEF Links
<1>9. VerdictFinal
  BY <1>1, <1>2, <1>3 DEF VerdictFinal, Final, IsVerdict, NoRecord
<1>10. ApprovalInv
  BY <1>1, <1>2, <1>3 DEF ApprovalInv, Finished, NoRecord
<1>11. CrashOnly
  <2>1. \A i \in Packet : Recovered[i] = NoRecord
    BY <1>1, <1>2, <1>3 DEF Recovered, Over
  <2>2. Together(Recovered)
    BY <2>1 DEF Together, Approves, NoRecord
  <2> QED BY <1>1, <2>2 DEF CrashOnly
<1> QED BY <1>5, <1>6, <1>7, <1>8, <1>9, <1>10, <1>11 DEF DispatchInv

(* Every step of the pilot, the gate and the targets keeps the invariant.   *)
LEMMA DispatchStep == DispatchInv /\ [Next]_vars => DispatchInv'
<1> SUFFICES ASSUME DispatchInv, [Next]_vars PROVE DispatchInv'
  OBVIOUS
<1>1. CASE Delegating
  <2>1. CASE \E trigger \in BOOLEAN : Start("work", trigger, 0)
    BY <2>1, StartStep
  <2>2. CASE Start("errand", FALSE, 0)
    BY <2>2, StartStep
  <2>3. ASSUME NEW p \in Packet, Rework(p) PROVE DispatchInv'
    <3>1. Start("work", TRUE, p)
      BY <2>3 DEF Rework
    <3> QED BY <3>1, StartStep
  <2>4. ASSUME NEW p \in Packet, RequireYodaReview(p) PROVE DispatchInv'
    BY <2>4, ReviewStep
  <2> QED BY <1>1, <2>1, <2>2, <2>3, <2>4 DEF Delegating, Delegate, DelegateErrand
<1>2. ASSUME NEW i \in Packet, UsingTool(i) PROVE DispatchInv'
  <2>1. ASSUME NEW request \in Request, GuardErrandTool(i, request) PROVE DispatchInv'
    BY <2>1, GuardStep
  <2>2. ASSUME NEW ok \in BOOLEAN, RunTool(i, ok) PROVE DispatchInv'
    BY <2>2, ToolStep
  <2>3. CASE ObserveErrandTool(i)
    BY <2>3, ObserveStep
  <2> QED BY <1>2, <2>1, <2>2, <2>3 DEF UsingTool
<1>3. ASSUME NEW i \in Packet, Closing(i) PROVE DispatchInv'
  <2>1. CASE Return(i) \/ Fail(i)
    BY <2>1, CloseStep
  <2>2. CASE FailReview(i)
    BY <2>2, FailReviewStep
  <2>3. ASSUME NEW verdict \in Verdict, ReturnYodaReview(i, verdict) PROVE DispatchInv'
    BY <2>3, VerdictStep
  <2> QED BY <1>3, <2>1, <2>2, <2>3 DEF Closing
<1>4. CASE WriteNext
  <2>1. Len(todo) = 1 \/ Len(todo) > 1
    BY <1>4, ShiftFacts DEF Shifted
  <2> QED BY <1>4, <2>1, NextWriteStep, LastWriteStep
<1>5. CASE WriteFails
  BY <1>5, WriteFailsStep
<1>6. CASE GateFails \/ RecoverStale \/ (\E i \in Packet : Expire(i)) \/ UNCHANGED vars
  BY <1>6, GateAlone
<1>7. CASE Crash \/ CrashInGate
  BY <1>7, CrashStep
<1>8. CASE Restart
  BY <1>8, RestartStep
<1> QED BY <1>1, <1>2, <1>3, <1>4, <1>5, <1>6, <1>7, <1>8 DEF Next

(* What a restart would read is true, by the invariant.                     *)
LEMMA RestartReads == DispatchInv => RestartReadsTruth
<1> SUFFICES ASSUME DispatchInv PROVE RestartReadsTruth
  OBVIOUS
<1>1. \A i \in Packet : Recovered[i] = IF i \in DOMAIN journal THEN journal[i] ELSE disk[i]
  BY DEF Recovered, Over
<1>2. CompletedIsApproved
  <2>1. ASSUME NEW p \in Packet, Finished(Recovered[p]) PROVE \E y \in Packet : Approves(Recovered[y], p)
    <3>1. ASSUME Approved(p) PROVE \E y \in Packet : Approves(Recovered[y], p)
      <4>1. PICK y \in Packet : Approves(disk[y], p)
        BY <3>1 DEF Approved
      <4>2. IsVerdict(disk[y]) /\ Final(y, disk[y])
        BY <4>1 DEF DispatchInv, VerdictFinal, IsVerdict, Approves
      <4>3. Recovered[y] = disk[y]
        BY <1>1, <4>2 DEF Final
      <4> QED BY <4>1, <4>3
    <3>2. CASE p \notin DOMAIN journal
      BY <1>1, <2>1, <3>1, <3>2 DEF DispatchInv, ApprovalInv
    <3>3. CASE p \in DOMAIN journal
      <4>1. Batch(journal) /\ Finished(journal[p])
        BY <1>1, <2>1, <3>3 DEF DispatchInv, ApprovalInv, NoFiles
      <4>2. PICK y, q \in Packet :
              /\ DOMAIN journal = {y, q} /\ IsVerdict(journal[y])
              /\ (Finished(journal[q]) => Approves(journal[y], q) \/ Approved(q))
        BY <4>1 DEF Batch
      <4>3. Shaped(y, journal[y]) /\ journal[y].kind = "review" /\ ~journal[y].trigger
        BY <4>2 DEF DispatchInv, CopiesSound, SoundFiles, SoundCopy, Shaped, IsVerdict
      <4>4. p = q
        BY <3>3, <4>1, <4>2, <4>3 DEF Finished
      <4>5. Recovered[y] = journal[y]
        BY <1>1, <4>2
      <4> QED BY <3>1, <4>1, <4>2, <4>4, <4>5
    <3> QED BY <3>2, <3>3
  <2> QED BY <2>1 DEF CompletedIsApproved, ApprovedReview, Finished, Approves
<1>3. TogetherAfterCrash
  BY DEF DispatchInv, CrashOnly, TogetherAfterCrash, RecoveredTogether, Together, ApprovedReview, Approves
<1>4. ErrandSettled
  <2>1. \A i \in Packet : Truthful(i, Recovered[i])
    BY <1>1 DEF DispatchInv, CopiesSound, SoundFiles, SoundCopy
  <2> QED BY <2>1 DEF ErrandSettled, Truthful, Undone
<1>5. RequestOnce
  BY DEF DispatchInv, Nonces, RequestOnce
<1> QED BY <1>2, <1>3, <1>4, <1>5 DEF RestartReadsTruth

(* RestartReadsTruth (newState, writeBatch, replayTransaction,              *)
(* consumeNonceLocked, load): at every moment, whatever process stopped and *)
(* whichever file operation failed, a restart reads work that is complete   *)
(* only by an approving review, an errand that is settled with its target,  *)
(* and no request that could be allowed again; where only processes stop, a *)
(* review and its work are together.                                        *)
THEOREM DispatchTruthful == Spec => []RestartReadsTruth
<1>1. DispatchInv /\ [Next]_vars => DispatchInv'
  BY DispatchStep
<1> QED BY <1>1, DispatchInit, RestartReads, PTL DEF Spec
==============================================================================
