------------------------------ MODULE PanelProofs ------------------------------
(***************************************************************************)
(* Theorems about every panel that can be written down as a record of      *)
(* Panel, so in particular about every panel of the console, for any       *)
(* number of keys, of reads under way and of changes.                      *)
(*                                                                         *)
(* PanelInv strengthens the properties in four ways.  IdInv and FlagInv    *)
(* tell the calls under way apart: a flag has one owner, the change that   *)
(* raised it or the read that this change waits for.  PosInv ties what is  *)
(* reported as made to what the server has made.  KeyInv and GhostInv say  *)
(* of any moment without a wanted answer under way what the properties say *)
(* of rest.  SupersedingInv, PatchingInv and SerialInv are the three       *)
(* reasons why a panel shows its own writes.                               *)
(***************************************************************************)
EXTENDS Panel, TLAPS

(* Reads and changes under way can be told apart.                          *)
IdInv ==
  /\ \A r, q \in reads : r.slot = q.slot => r = q
  /\ \A w, x \in writes : w.id = x.id => w = x
  /\ \A w \in writes : w.id \in 1..sent /\ w.op \in comp.ops

(* A flag belongs to one change, or to the read that this change waits for. *)
FlagInv ==
  /\ \A w, x \in writes : w.op.flag = x.op.flag /\ w.op.flag \in Flags => w = x
  /\ \A r \in reads : r.for \in Flags =>
       r.for \in flags /\ \A w \in writes : w.op.flag # r.for
  /\ \A r, q \in reads : r.for = q.for /\ r.for \in Flags => r = q

(* The server has made a among its first n changes.                        *)
Made(a, n) == \E m \in 1..n : applied[m] = a

PosInv ==
  /\ \A w \in writes : w.pos # 0 =>
       w.pos \in 1..Len(applied) /\ applied[w.pos] = [id |-> w.id, key |-> w.key]
  /\ \A r \in reads : r.from \in 0..Len(applied)
  /\ \A a \in acked : Made(a, Len(applied))

(* A panel that is not keyed knows one key.                                *)
MountInv ==
  comp.load # "keyed" =>
    /\ key = Key0 /\ shown.key = Key0
    /\ \A r \in reads : r.key = Key0
    /\ \A w \in writes : w.key = Key0
    /\ \A a \in acked : a.key = Key0

(* No answer that is still wanted is under way.                            *)
Unmoved == \A r \in reads : ~r.live

(* The answers that are still wanted are about the present key, and so is  *)
(* the screen once they are there; where only the effect drops its reads,  *)
(* no other reads are started.                                             *)
KeyInv ==
  KeepsToKey(comp) =>
    /\ \A r \in reads : r.live => r.key = key
    /\ comp.load = "keyed" /\ comp.drop = "key" => \A r \in reads : r.for = "none"
    /\ open /\ ~missed /\ Unmoved => shown.some /\ shown.key = key

(* What is on screen was made, or is being made.                           *)
GhostInv ==
  open /\ ~missed /\ Unmoved /\ Truthful(comp) =>
    \A i \in shown.has :
      \/ \E n \in 1..Len(applied) : applied[n].id = i
      \/ \E w \in writes : w.id = i /\ w.op.eager

(* The three ways of reading one's own writes: superseding every earlier   *)
(* read, patching what was read once, and changing one thing at a time.    *)
Superseding(c) ==
  /\ c.load # "none" /\ c.drop = "always"
  /\ \A o \in c.ops : o.then \in {"reload", "await"} \/ Elsewhere(o)

Patching(c) ==
  /\ Calm(c)
  /\ \A o \in c.ops : Elsewhere(o) \/ (o.then = "patch" /\ o.fail # "reload")

Serial(c) ==
  /\ Calm(c)
  /\ \A o \in c.ops :
       \/ Elsewhere(o)
       \/ /\ o.flag = "busy" /\ o.fail # "reload"
          /\ o.then \in {"await", "apply", "patch"}

SupersedingInv ==
  Superseding(comp) =>
    /\ \A r \in reads : r.live => \A a \in acked : Made(a, r.from)
    /\ open /\ ~missed /\ Unmoved =>
         \A a \in acked : a.key = key => a.id \in shown.has

PatchingInv ==
  Patching(comp) /\ open =>
    /\ \A r, q \in reads : r = q
    /\ shown.some => reads = {}
    /\ acked # {} \/ (\E w \in writes : ~Elsewhere(w.op)) => shown.some
    /\ \A a \in acked : a.id \in shown.has

SerialInv ==
  Serial(comp) /\ open =>
    /\ \A r, q \in reads : r.for = q.for => r = q
    /\ shown.some => \A r \in reads : r.for = "busy"
    /\ \/ acked # {}
       \/ \E w \in writes : ~Elsewhere(w.op)
       \/ \E r \in reads : r.for # "none"
       => shown.some
    /\ \A r \in reads : r.live /\ r.for = "busy" => \A a \in acked : Made(a, r.from)
    /\ \A w \in writes : ~Elsewhere(w.op) /\ w.pos # 0 =>
         \A a \in acked : Made(a, w.pos)
    /\ ~missed /\ Unmoved => \A a \in acked : a.id \in shown.has

PanelInv ==
  /\ PanelTypeOK
  /\ IdInv
  /\ FlagInv
  /\ PosInv
  /\ MountInv
  /\ KeyInv
  /\ GhostInv
  /\ SupersedingInv
  /\ PatchingInv
  /\ SerialInv

-----------------------------------------------------------------------------
(* Reads.                                                                  *)

(* rs is what is left of the reads under way: fewer of them, some without  *)
(* their effect.                                                           *)
Thin(rs) ==
  /\ rs \in SUBSET Reads
  /\ \A r \in rs : \E q \in reads :
       /\ q.slot = r.slot /\ q.key = r.key /\ q.from = r.from /\ q.for = r.for
       /\ r.live => r = q
  /\ \A r, q \in rs : r.slot = q.slot => r = q
  /\ \A r, q \in rs : r.for = q.for /\ r.for \in Flags => r = q

(* n is the read that was started beside rs.                               *)
Started(n, rs, k, f) ==
  /\ n \in Reads /\ n.key = k /\ n.from = Len(applied) /\ n.live = TRUE /\ n.for = f
  /\ \A r \in rs : r.slot # n.slot
  /\ reads' = rs \cup {n}
  /\ isLoading' = TRUE

LEMMA StartReadFacts ==
  ASSUME PanelTypeOK, NEW rs, NEW k \in Keys, NEW f \in Flags \cup {"change", "none"},
         StartRead(rs, k, f)
  PROVE  \E n : Started(n, rs, k, f)
<1>1. PICK s \in Free(rs) :
        /\ reads' = rs \cup {[slot |-> s, key |-> k, from |-> Len(applied),
                              live |-> TRUE, for |-> f]}
        /\ isLoading' = TRUE
  BY DEF StartRead
<1> DEFINE n == [slot |-> s, key |-> k, from |-> Len(applied), live |-> TRUE,
                 for |-> f]
<1>2. Len(applied) \in Nat
  BY DEF PanelTypeOK
<1>3. n \in Reads
  BY <1>2 DEF Reads, Free
<1>4. \A r \in rs : r.slot # n.slot
  BY DEF Free
<1>5. Started(n, rs, k, f)
  BY <1>1, <1>3, <1>4 DEF Started
<1> QED BY <1>5

LEMMA DroppedThin ==
  ASSUME PanelTypeOK, IdInv, FlagInv
  PROVE  Thin(Dropped(reads)) /\ \A r \in Dropped(reads) : ~r.live
<1>1. \A q \in reads :
        /\ [q EXCEPT !.live = FALSE] \in Reads
        /\ [q EXCEPT !.live = FALSE].slot = q.slot
        /\ [q EXCEPT !.live = FALSE].key = q.key
        /\ [q EXCEPT !.live = FALSE].from = q.from
        /\ [q EXCEPT !.live = FALSE].for = q.for
        /\ [q EXCEPT !.live = FALSE].live = FALSE
  BY DEF PanelTypeOK, Reads
<1>2. \A r \in Dropped(reads) : \E q \in reads : r = [q EXCEPT !.live = FALSE]
  BY DEF Dropped
<1>3. Dropped(reads) \in SUBSET Reads
  BY <1>1, <1>2
<1>4. \A r \in Dropped(reads) : \E q \in reads :
       /\ q.slot = r.slot /\ q.key = r.key /\ q.from = r.from /\ q.for = r.for
       /\ r.live => r = q
  BY <1>1, <1>2
<1>5. \A r \in Dropped(reads) : ~r.live
  BY <1>1, <1>2
<1>6. ASSUME NEW r \in Dropped(reads), NEW q \in Dropped(reads), r.slot = q.slot
      PROVE  r = q
  <2>1. PICK a \in reads : r = [a EXCEPT !.live = FALSE]
    BY <1>2
  <2>2. PICK b \in reads : q = [b EXCEPT !.live = FALSE]
    BY <1>2
  <2>3. a = b
    BY <1>1, <1>6, <2>1, <2>2 DEF IdInv
  <2> QED BY <2>1, <2>2, <2>3
<1>7. ASSUME NEW r \in Dropped(reads), NEW q \in Dropped(reads), r.for = q.for /\ r.for \in Flags
      PROVE  r = q
  <2>1. PICK a \in reads : r = [a EXCEPT !.live = FALSE]
    BY <1>2
  <2>2. PICK b \in reads : q = [b EXCEPT !.live = FALSE]
    BY <1>2
  <2>3. a = b
    BY <1>1, <1>7, <2>1, <2>2 DEF FlagInv
  <2> QED BY <2>1, <2>2, <2>3
<1> QED BY <1>3, <1>4, <1>5, <1>6, <1>7 DEF Thin

LEMMA ReadsThin ==
  ASSUME PanelTypeOK, IdInv, FlagInv
  PROVE  Thin(reads)
BY DEF Thin, PanelTypeOK, IdInv, FlagInv

LEMMA KeptThin ==
  ASSUME PanelTypeOK, IdInv, FlagInv
  PROVE  /\ Thin(Kept)
         /\ comp.drop = "always" => \A r \in Kept : ~r.live
BY DroppedThin, ReadsThin DEF Kept

LEMMA CleanedThin ==
  ASSUME PanelTypeOK, IdInv, FlagInv, KeyInv
  PROVE  /\ Thin(Cleaned)
         /\ comp.drop = "always" \/ (KeepsToKey(comp) /\ comp.load = "keyed")
              => \A r \in Cleaned : ~r.live
         /\ comp.drop = "key" /\ KeepsToKey(comp) /\ comp.load = "keyed" => Cleaned = {}
<1>1. comp.drop \in {"never", "key", "always"}
  BY PanelAssumption DEF PanelTypeOK
<1>2. CASE comp.drop = "always"
  BY <1>2, DroppedThin DEF Cleaned
<1>3. CASE comp.drop = "key"
  <2>1. Cleaned = {r \in reads : r.for # "none"}
    BY <1>3 DEF Cleaned
  <2>2. Thin(Cleaned)
    BY <2>1, ReadsThin DEF Thin
  <2>3. KeepsToKey(comp) /\ comp.load = "keyed" => Cleaned = {}
    BY <1>3, <2>1 DEF KeyInv
  <2> QED BY <1>3, <2>2, <2>3
<1>4. CASE comp.drop = "never"
  BY <1>4, ReadsThin DEF Cleaned, KeepsToKey
<1> QED BY <1>1, <1>2, <1>3, <1>4

(* A read is started and no change begins or ends.                         *)
LEMMA ReadStarted ==
  ASSUME PanelInv, NEW rs, Thin(rs), NEW k \in Keys, NEW n,
         Started(n, rs, k, "none"), UNCHANGED <<comp, writes, sent, applied, acked>>,
         flags' = flags
  PROVE  /\ reads' \in SUBSET Reads
         /\ IdInv' /\ FlagInv' /\ PosInv'
<1>1. reads' \in SUBSET Reads
  BY DEF Started, Thin
<1>2. IdInv'
  BY DEF Started, Thin, IdInv, PanelInv
<1>3. FlagInv'
  BY DEF Started, Thin, FlagInv, PanelInv, Flags
<1>4. PosInv'
  BY DEF Started, Thin, PosInv, PanelInv, PanelTypeOK, Made
<1> QED BY <1>1, <1>2, <1>3, <1>4

(* Until the answer of a started read is there, the screen proves nothing. *)
LEMMA StartedMoves ==
  ASSUME NEW rs, NEW k, NEW f, NEW n, Started(n, rs, k, f)
  PROVE  ~Unmoved' /\ GhostInv'
<1>1. ~Unmoved'
  BY DEF Started, Unmoved
<1> QED BY <1>1 DEF GhostInv

LEMMA ChangeKeyKeeps ==
  ASSUME PanelInv, NEW k \in Keys, ChangeKey(k)
  PROVE  PanelInv'
<1>0. PanelTypeOK /\ IdInv /\ FlagInv /\ PosInv /\ KeyInv
  BY DEF PanelInv
<1>1. /\ comp.load = "keyed" /\ key' = k /\ missed' = FALSE
      /\ shown' = IF comp.wipe THEN Nothing ELSE shown
      /\ UNCHANGED <<comp, open, flags, writes, sent, applied, acked>>
  BY DEF ChangeKey
<1>2. PICK n : Started(n, Cleaned, k, "none")
  BY <1>0, StartReadFacts DEF ChangeKey
<1>3. /\ Thin(Cleaned)
      /\ comp.drop = "always" \/ KeepsToKey(comp) => \A r \in Cleaned : ~r.live
      /\ comp.drop = "key" /\ KeepsToKey(comp) => Cleaned = {}
  BY <1>0, <1>1, CleanedThin
<1>4. reads' \in SUBSET Reads /\ IdInv' /\ FlagInv' /\ PosInv'
  BY <1>1, <1>2, <1>3, ReadStarted
<1>5. ~Unmoved' /\ GhostInv'
  BY <1>2, StartedMoves
<1>6. PanelTypeOK'
  BY <1>0, <1>1, <1>2, <1>4 DEF PanelTypeOK, Started, Screens
<1>7. MountInv'
  BY <1>1 DEF MountInv
<1>8. KeyInv'
  BY <1>1, <1>2, <1>3, <1>5 DEF KeyInv, KeepsToKey, Started
<1>9. SupersedingInv'
  BY <1>0, <1>1, <1>2, <1>3, <1>5 DEF SupersedingInv, Superseding, Started, PosInv, Made
<1>10. PatchingInv' /\ SerialInv'
  BY <1>1 DEF PatchingInv, SerialInv, Patching, Serial, Calm
<1> QED BY <1>4, <1>5, <1>6, <1>7, <1>8, <1>9, <1>10 DEF PanelInv

LEMMA PollKeeps ==
  ASSUME PanelInv, Poll
  PROVE  PanelInv'
<1>0. PanelTypeOK /\ IdInv /\ FlagInv /\ PosInv /\ MountInv /\ KeyInv
  BY DEF PanelInv
<1>1. /\ comp.poll # "no"
      /\ UNCHANGED <<comp, open, key, shown, missed, flags, writes, sent, applied,
                     acked>>
  BY DEF Poll
<1>2. PICK n : Started(n, Kept, key, "none")
  BY <1>0, StartReadFacts DEF Poll, PanelTypeOK
<1>3. Thin(Kept) /\ (comp.drop = "always" => \A r \in Kept : ~r.live)
  BY <1>0, KeptThin
<1>4. reads' \in SUBSET Reads /\ IdInv' /\ FlagInv' /\ PosInv'
  BY <1>0, <1>1, <1>2, <1>3, ReadStarted DEF PanelTypeOK
<1>5. ~Unmoved' /\ GhostInv'
  BY <1>2, StartedMoves
<1>6. PanelTypeOK'
  BY <1>0, <1>1, <1>2, <1>4 DEF PanelTypeOK, Started
<1>7. MountInv'
  BY <1>0, <1>1, <1>2, <1>3 DEF MountInv, Started, Thin
<1>8. KeyInv'
  BY <1>0, <1>1, <1>2, <1>3, <1>5 DEF KeyInv, Started, Thin
<1>9. SupersedingInv'
  BY <1>0, <1>1, <1>2, <1>3, <1>5 DEF SupersedingInv, Superseding, Started, PosInv, Made
<1>10. PatchingInv' /\ SerialInv'
  BY <1>1 DEF PatchingInv, SerialInv, Patching, Serial, Calm
<1> QED BY <1>4, <1>5, <1>6, <1>7, <1>8, <1>9, <1>10 DEF PanelInv

-----------------------------------------------------------------------------
(* What a read shows.                                                      *)

LEMMA ReflectedFacts ==
  ASSUME PanelTypeOK, NEW n \in 0..Len(applied), NEW k \in Keys
  PROVE  /\ Reflected(n, k) \in SUBSET WriteIds
         /\ \A i \in Reflected(n, k) : \E m \in 1..Len(applied) : applied[m].id = i
         /\ \A a, m : m \in 0..n /\ Made(a, m) /\ a.key = k => a.id \in Reflected(n, k)
<1>1. \A m \in 1..Len(applied) : applied[m] \in ChangesMade
  BY DEF PanelTypeOK
<1>2. Len(applied) \in Nat
  BY DEF PanelTypeOK
<1>3. \A i \in Reflected(n, k) : \E m \in 1..Len(applied) : applied[m].id = i
  BY <1>2 DEF Reflected
<1>4. Reflected(n, k) \in SUBSET WriteIds
  BY <1>1, <1>3 DEF ChangesMade
<1>5. \A a, m : m \in 0..n /\ Made(a, m) /\ a.key = k => a.id \in Reflected(n, k)
  BY <1>2 DEF Made, Reflected
<1> QED BY <1>3, <1>4, <1>5

LEMMA ScreenIsScreen ==
  ASSUME NEW k \in Keys, NEW ids \in SUBSET WriteIds
  PROVE  /\ Screen(k, ids) \in Screens
         /\ Screen(k, ids).some /\ Screen(k, ids).key = k /\ Screen(k, ids).has = ids
BY DEF Screen, Screens

LEMMA SupersedingKeepsToKey ==
  ASSUME NEW c \in Panels, Superseding(c)
  PROVE  KeepsToKey(c)
BY PanelAssumption DEF Superseding, KeepsToKey, Elsewhere

(* A read ends, and the flag that waits for it is lowered.                 *)
LEMMA ReadEnded ==
  ASSUME PanelInv, NEW r \in reads, reads' = reads \ {r}, flags' = flags \ {r.for},
         UNCHANGED <<comp, writes, sent, applied, acked>>
  PROVE  /\ reads' \in SUBSET Reads /\ flags' \in SUBSET Flags
         /\ \A w \in writes' : w.op.flag \in Flags => w.op.flag \in flags'
         /\ IdInv' /\ FlagInv' /\ PosInv'
<1>1. PanelTypeOK /\ IdInv /\ FlagInv /\ PosInv
  BY DEF PanelInv
<1>2. reads' \in SUBSET Reads /\ flags' \in SUBSET Flags
  BY <1>1 DEF PanelTypeOK
<1>3. \A w \in writes' : w.op.flag \in Flags => w.op.flag \in flags'
  BY <1>1 DEF PanelTypeOK, FlagInv, Flags
<1>4. IdInv'
  BY <1>1 DEF IdInv
<1>5. FlagInv'
  BY <1>1 DEF FlagInv
<1>6. PosInv'
  BY <1>1 DEF PosInv, Made
<1> QED BY <1>2, <1>3, <1>4, <1>5, <1>6

LEMMA ReadArrivesKeeps ==
  ASSUME PanelInv, NEW s \in 1..MaxReads, ReadArrives(s)
  PROVE  PanelInv'
<1>0. /\ PanelTypeOK /\ IdInv /\ FlagInv /\ PosInv /\ MountInv /\ KeyInv /\ GhostInv
      /\ SupersedingInv /\ PatchingInv /\ SerialInv
  BY DEF PanelInv
<1>a. PICK r \in reads : \E n \in r.from..Len(applied) :
        /\ IF r.live
           THEN /\ shown' = Screen(r.key, Reflected(n, r.key))
                /\ missed' = FALSE /\ isLoading' = FALSE
           ELSE UNCHANGED <<shown, missed, isLoading>>
        /\ reads' = reads \ {r}
        /\ flags' = flags \ {r.for}
        /\ UNCHANGED <<comp, open, key, writes, sent, applied, acked>>
  BY DEF ReadArrives
<1>1. PICK n \in r.from..Len(applied) :
        /\ IF r.live
           THEN /\ shown' = Screen(r.key, Reflected(n, r.key))
                /\ missed' = FALSE /\ isLoading' = FALSE
           ELSE UNCHANGED <<shown, missed, isLoading>>
        /\ reads' = reads \ {r}
        /\ flags' = flags \ {r.for}
        /\ UNCHANGED <<comp, open, key, writes, sent, applied, acked>>
  BY <1>a
<1>2. /\ r.key \in Keys /\ r.from \in 0..n /\ n \in 0..Len(applied)
      /\ r.live \in BOOLEAN
  BY <1>0 DEF PanelTypeOK, PosInv, Reads
<1>3. /\ Reflected(n, r.key) \in SUBSET WriteIds
      /\ \A i \in Reflected(n, r.key) : \E m \in 1..Len(applied) : applied[m].id = i
      /\ \A a : Made(a, r.from) /\ a.key = r.key => a.id \in Reflected(n, r.key)
  BY <1>0, <1>2, ReflectedFacts
<1>4. r.live => /\ shown' \in Screens /\ shown'.some /\ shown'.key = r.key
                /\ shown'.has = Reflected(n, r.key)
  BY <1>1, <1>2, <1>3, ScreenIsScreen
<1>5. /\ reads' \in SUBSET Reads /\ flags' \in SUBSET Flags
      /\ \A w \in writes' : w.op.flag \in Flags => w.op.flag \in flags'
      /\ IdInv' /\ FlagInv' /\ PosInv'
  BY <1>1, ReadEnded
<1>6. PanelTypeOK'
  <2>1. shown' \in Screens /\ missed' \in BOOLEAN /\ isLoading' \in BOOLEAN
    BY <1>0, <1>1, <1>2, <1>4 DEF PanelTypeOK
  <2> QED BY <1>0, <1>1, <1>5, <2>1 DEF PanelTypeOK
<1>7. MountInv'
  BY <1>0, <1>1, <1>4 DEF MountInv
<1>8. ~r.live => (Unmoved' <=> Unmoved)
  BY <1>1 DEF Unmoved
<1>9. KeyInv'
  BY <1>0, <1>1, <1>4, <1>8 DEF KeyInv
<1>10. GhostInv'
  BY <1>0, <1>1, <1>3, <1>4, <1>8 DEF GhostInv
<1>11. SupersedingInv'
  <2>1. SUFFICES ASSUME Superseding(comp) PROVE SupersedingInv'
    BY <1>1 DEF SupersedingInv
  <2>2. r.live => r.key = key
    BY <1>0, <2>1, SupersedingKeepsToKey DEF KeyInv, PanelTypeOK
  <2>3. \A q \in reads' : q.live => \A a \in acked : Made(a, q.from)
    BY <1>0, <1>1, <2>1 DEF SupersedingInv
  <2>4. (open /\ ~missed /\ Unmoved)' => \A a \in acked : a.key = key => a.id \in shown'.has
    BY <1>0, <1>1, <1>3, <1>4, <1>8, <2>1, <2>2 DEF SupersedingInv
  <2> QED BY <1>1, <2>3, <2>4 DEF SupersedingInv, Made
<1>12. PatchingInv'
  BY <1>0, <1>1, <1>4 DEF PatchingInv
<1>13. SerialInv'
  <2>1. SUFFICES ASSUME Serial(comp), open PROVE SerialInv'
    BY <1>1 DEF SerialInv
  <2>2. r.key = Key0 /\ \A a \in acked : a.key = Key0
    BY <1>0, <2>1 DEF MountInv, Serial, Calm
  <2>3. \A q \in reads : q.for # "none" => q.for = "busy"
    BY <1>0, <2>1 DEF SerialInv
  <2>4. /\ \A q, t \in reads' : q.for = t.for => q = t
        /\ shown'.some => \A q \in reads' : q.for = "busy"
    BY <1>0, <1>1, <1>4, <2>1, <2>3 DEF SerialInv
  <2>5. \/ acked # {}
        \/ \E w \in writes : ~Elsewhere(w.op)
        \/ \E q \in reads' : q.for # "none"
        => shown'.some
    BY <1>0, <1>1, <1>4, <2>1 DEF SerialInv
  <2>6. /\ \A q \in reads' : q.live /\ q.for = "busy" => \A a \in acked : Made(a, q.from)
        /\ \A w \in writes : ~Elsewhere(w.op) /\ w.pos # 0 =>
             \A a \in acked : Made(a, w.pos)
    BY <1>0, <1>1, <2>1 DEF SerialInv
  <2>7. (~missed /\ Unmoved)' => \A a \in acked : a.id \in shown'.has
    BY <1>0, <1>1, <1>3, <1>4, <1>8, <2>1, <2>2 DEF SerialInv
  <2> QED BY <1>1, <2>4, <2>5, <2>6, <2>7 DEF SerialInv, Made
<1> QED BY <1>5, <1>6, <1>7, <1>9, <1>10, <1>11, <1>12, <1>13 DEF PanelInv

LEMMA ReadFailsKeeps ==
  ASSUME PanelInv, NEW s \in 1..MaxReads, ReadFails(s)
  PROVE  PanelInv'
<1>0. /\ PanelTypeOK /\ IdInv /\ FlagInv /\ PosInv /\ MountInv /\ KeyInv /\ GhostInv
      /\ SupersedingInv /\ PatchingInv /\ SerialInv
  BY DEF PanelInv
<1>1. PICK r \in reads :
        /\ IF r.live
           THEN /\ shown' = IF comp.empty THEN Screen(r.key, {}) ELSE shown
                /\ open' = (open /\ ~comp.brittle)
                /\ missed' = TRUE /\ isLoading' = FALSE
           ELSE UNCHANGED <<shown, open, missed, isLoading>>
        /\ reads' = reads \ {r}
        /\ flags' = flags \ {r.for}
        /\ UNCHANGED <<comp, key, writes, sent, applied, acked>>
  BY DEF ReadFails, Lowered
<1>2. r.key \in Keys /\ r.live \in BOOLEAN
  BY <1>0 DEF PanelTypeOK, Reads
<1>3. shown' = shown \/
        /\ r.live
        /\ shown' \in Screens /\ shown'.some /\ shown'.key = r.key /\ shown'.has = {}
  BY <1>1, <1>2, ScreenIsScreen
<1>4. (open' => open) /\ (r.live => missed') /\ (~r.live => UNCHANGED <<shown, open, missed>>)
  BY <1>1
<1>5. /\ reads' \in SUBSET Reads /\ flags' \in SUBSET Flags
      /\ \A w \in writes' : w.op.flag \in Flags => w.op.flag \in flags'
      /\ IdInv' /\ FlagInv' /\ PosInv'
  BY <1>1, ReadEnded
<1>6. PanelTypeOK'
  <2>1. shown' \in Screens
    BY <1>0, <1>3 DEF PanelTypeOK
  <2>2. open' \in BOOLEAN /\ missed' \in BOOLEAN /\ isLoading' \in BOOLEAN
    BY <1>0, <1>1, <1>2 DEF PanelTypeOK
  <2> QED BY <1>0, <1>1, <1>5, <2>1, <2>2 DEF PanelTypeOK
<1>7. MountInv'
  BY <1>0, <1>1, <1>3 DEF MountInv
<1>8. ~r.live => (Unmoved' <=> Unmoved)
  BY <1>1 DEF Unmoved
<1>9. KeyInv'
  BY <1>0, <1>1, <1>4, <1>8 DEF KeyInv
<1>10. GhostInv'
  BY <1>0, <1>1, <1>4, <1>8 DEF GhostInv
<1>11. SupersedingInv'
  BY <1>0, <1>1, <1>4, <1>8 DEF SupersedingInv, Made
<1>12. PatchingInv'
  BY <1>0, <1>1, <1>3, <1>4 DEF PatchingInv
<1>13. SerialInv'
  <2>1. SUFFICES ASSUME Serial(comp), open, open' PROVE SerialInv'
    BY <1>1, <1>4 DEF SerialInv
  <2>2. /\ \A q, t \in reads' : q.for = t.for => q = t
        /\ shown'.some => \A q \in reads' : q.for = "busy"
    BY <1>0, <1>1, <1>3, <2>1 DEF SerialInv
  <2>3. \/ acked # {}
        \/ \E w \in writes : ~Elsewhere(w.op)
        \/ \E q \in reads' : q.for # "none"
        => shown'.some
    BY <1>0, <1>1, <1>3, <2>1 DEF SerialInv
  <2>4. /\ \A q \in reads' : q.live /\ q.for = "busy" => \A a \in acked : Made(a, q.from)
        /\ \A w \in writes : ~Elsewhere(w.op) /\ w.pos # 0 =>
             \A a \in acked : Made(a, w.pos)
    BY <1>0, <1>1, <2>1 DEF SerialInv
  <2>5. (~missed /\ Unmoved)' => \A a \in acked : a.id \in shown'.has
    BY <1>0, <1>1, <1>4, <1>8, <2>1 DEF SerialInv
  <2> QED BY <1>1, <2>2, <2>3, <2>4, <2>5 DEF SerialInv, Made
<1> QED BY <1>5, <1>6, <1>7, <1>9, <1>10, <1>11, <1>12, <1>13 DEF PanelInv

-----------------------------------------------------------------------------
(* Changes.                                                                *)

LEMMA WriteFits ==
  ASSUME PanelTypeOK, NEW w \in writes
  PROVE  /\ w.id \in WriteIds /\ w.op \in Ops /\ w.key \in Keys /\ w.pos \in Nat
         /\ w.saw \in SUBSET WriteIds
         /\ w.op.flag \in Flags \cup {"row", "none"} /\ w.op.eager \in BOOLEAN
         /\ w.op.then \in {"await", "reload", "apply", "patch", "redo", "hand",
                           "leave", "none"}
         /\ [id |-> w.id, key |-> w.key] \in ChangesMade
BY DEF PanelTypeOK, Writes, Ops, ChangesMade

(* The screen with further changes on it.                                  *)
LEMMA ScreenGrows ==
  ASSUME PanelTypeOK, shown.some, NEW i \in WriteIds,
         shown' = [shown EXCEPT !.has = @ \cup {i}]
  PROVE  /\ shown' \in Screens /\ shown'.some /\ shown'.key = shown.key
         /\ shown'.has = shown.has \cup {i}
<1>1. ~Nothing.some
  BY DEF Nothing
<1>2. shown \in [some : {TRUE}, key : Keys, has : SUBSET WriteIds]
  BY <1>1 DEF PanelTypeOK, Screens
<1> QED BY <1>2 DEF Screens

LEMMA ScreenHas ==
  ASSUME PanelTypeOK
  PROVE  shown.has \in SUBSET WriteIds /\ shown.some \in BOOLEAN /\ shown.key \in Keys
<1>1. ~Nothing.some /\ Nothing.key \in Keys /\ Nothing.has = {}
  BY PanelAssumption DEF Nothing
<1>2. shown = Nothing \/ shown \in [some : {TRUE}, key : Keys, has : SUBSET WriteIds]
  BY DEF PanelTypeOK, Screens
<1>3. CASE shown = Nothing
  BY <1>1, <1>3 DEF Nothing
<1>4. CASE shown \in [some : {TRUE}, key : Keys, has : SUBSET WriteIds]
  BY <1>4
<1> QED BY <1>2, <1>3, <1>4

LEMMA SendWriteKeeps ==
  ASSUME PanelInv, NEW o \in Ops, SendWrite(o)
  PROVE  PanelInv'
<1>0. /\ PanelTypeOK /\ IdInv /\ FlagInv /\ PosInv /\ MountInv /\ KeyInv /\ GhostInv
      /\ SupersedingInv /\ PatchingInv /\ SerialInv
  BY DEF PanelInv
<1> DEFINE w == [id |-> sent + 1, op |-> o, key |-> key, pos |-> 0,
                 saw |-> IF o.then = "redo" THEN shown.has ELSE {}]
<1>1. /\ open /\ o \in comp.ops /\ sent < Budget
      /\ o.flag \notin flags /\ (o.needs = "data" => shown.some)
      /\ sent' = sent + 1 /\ writes' = writes \cup {w}
      /\ flags' = flags \cup ({o.flag} \cap Flags)
      /\ shown' = IF o.eager /\ shown.some
                  THEN [shown EXCEPT !.has = @ \cup {sent + 1}] ELSE shown
      /\ UNCHANGED <<comp, open, key, isLoading, missed, reads, applied, acked>>
  BY DEF SendWrite, Offered
<1>2. /\ sent \in Nat /\ sent' \in 0..MaxWrites /\ sent + 1 \in WriteIds
  BY <1>0, <1>1, PanelAssumption DEF PanelTypeOK, Budget, WriteIds
<1>3. /\ shown' \in Screens /\ shown'.some = shown.some /\ shown'.key = shown.key
      /\ shown'.has \in {shown.has, shown.has \cup {sent + 1}}
      /\ ~o.eager => shown' = shown
  BY <1>0, <1>1, <1>2, ScreenGrows, ScreenHas DEF PanelTypeOK
<1>4. w \in Writes
  BY <1>0, <1>2, ScreenHas DEF Writes, PanelTypeOK
<1>a. w.id = sent + 1 /\ w.op = o /\ w.key = key /\ w.pos = 0
  OBVIOUS
<1> HIDE DEF w
<1>5. PanelTypeOK'
  <2>1. writes' \in SUBSET Writes /\ flags' \in SUBSET Flags
    BY <1>0, <1>1, <1>4 DEF PanelTypeOK
  <2>2. \A x \in writes' : x.op.flag \in Flags => x.op.flag \in flags'
    BY <1>0, <1>1, <1>a DEF PanelTypeOK
  <2> QED BY <1>0, <1>1, <1>2, <1>3, <2>1, <2>2 DEF PanelTypeOK
<1>6. IdInv'
  BY <1>0, <1>1, <1>2, <1>a DEF IdInv
<1>7. FlagInv'
  <2>1. \A x \in writes : x.op.flag \in Flags => x.op.flag # o.flag
    BY <1>0, <1>1 DEF PanelTypeOK
  <2>2. \A r \in reads : r.for \in Flags => r.for \in flags /\ r.for # o.flag
    BY <1>0, <1>1 DEF FlagInv
  <2>3. \A x, y \in writes' : x.op.flag = y.op.flag /\ x.op.flag \in Flags => x = y
    BY <1>0, <1>1, <1>a, <2>1 DEF FlagInv
  <2>4. \A r \in reads : r.for \in Flags =>
          r.for \in flags' /\ \A x \in writes' : x.op.flag # r.for
    BY <1>0, <1>1, <1>a, <2>2 DEF FlagInv
  <2> QED BY <1>0, <1>1, <2>3, <2>4 DEF FlagInv
<1>8. PosInv'
  BY <1>0, <1>1, <1>a DEF PosInv, Made
<1>9. MountInv'
  BY <1>0, <1>1, <1>3, <1>a DEF MountInv
<1>10. Unmoved' <=> Unmoved
  BY <1>1 DEF Unmoved
<1>11. KeyInv'
  BY <1>0, <1>1, <1>3, <1>10 DEF KeyInv
<1>12. GhostInv'
  <2>1. SUFFICES ASSUME open, ~missed, Unmoved, Truthful(comp), NEW i \in shown'.has
                 PROVE  \/ \E n \in 1..Len(applied) : applied[n].id = i
                        \/ \E x \in writes' : x.id = i /\ x.op.eager
    BY <1>1, <1>10 DEF GhostInv
  <2>2. CASE i \in shown.has
    BY <1>0, <1>1, <2>1, <2>2 DEF GhostInv
  <2>3. CASE i \notin shown.has
    <3>1. i = w.id /\ o.eager /\ w \in writes'
      BY <1>1, <1>3, <1>a, <2>3
    <3> QED BY <1>a, <3>1
  <2> QED BY <2>2, <2>3
<1>13. SupersedingInv'
  BY <1>0, <1>1, <1>3, <1>10 DEF SupersedingInv, Made
<1>14. PatchingInv'
  BY <1>0, <1>1, <1>3, <1>a DEF PatchingInv, Patching, Calm
<1>15. SerialInv'
  <2>1. SUFFICES ASSUME Serial(comp), open PROVE SerialInv'
    BY <1>1 DEF SerialInv
  <2>2. ~Elsewhere(o) => shown.some
    BY <1>1, <2>1 DEF Serial, Calm
  <2>3. \/ acked # {}
        \/ \E x \in writes' : ~Elsewhere(x.op)
        \/ \E q \in reads : q.for # "none"
        => shown'.some
    BY <1>0, <1>1, <1>3, <1>a, <2>1, <2>2 DEF SerialInv
  <2>4. \A x \in writes' : ~Elsewhere(x.op) /\ x.pos # 0 =>
             \A a \in acked : Made(a, x.pos)
    BY <1>0, <1>1, <1>a, <2>1 DEF SerialInv
  <2>5. (~missed /\ Unmoved)' => \A a \in acked : a.id \in shown'.has
    BY <1>0, <1>1, <1>3, <1>10, <2>1 DEF SerialInv
  <2>6. shown'.some => \A q \in reads : q.for = "busy"
    BY <1>0, <1>3, <2>1 DEF SerialInv
  <2> QED BY <1>0, <1>1, <2>1, <2>3, <2>4, <2>5, <2>6 DEF SerialInv, Made
<1> QED BY <1>5, <1>6, <1>7, <1>8, <1>9, <1>11, <1>12, <1>13, <1>14, <1>15 DEF PanelInv

(* What the server has made stays made.                                    *)
LEMMA MadeStays ==
  ASSUME PanelTypeOK, NEW x \in ChangesMade, applied' = Append(applied, x)
  PROVE  /\ Len(applied') = Len(applied) + 1 /\ Len(applied) \in Nat
         /\ applied' \in Seq(ChangesMade)
         /\ \A m \in 1..Len(applied) : applied'[m] = applied[m]
         /\ applied'[Len(applied) + 1] = x
         /\ \A a : \A n \in 0..Len(applied) : Made(a, n) => Made(a, n)'
         /\ \A a : Made(a, Len(applied)) => Made(a, Len(applied))' /\ Made(a, Len(applied) + 1)'
<1>1. /\ Len(applied') = Len(applied) + 1 /\ Len(applied) \in Nat
      /\ applied' \in Seq(ChangesMade)
      /\ \A m \in 1..Len(applied) : applied'[m] = applied[m]
      /\ applied'[Len(applied) + 1] = x
  BY DEF PanelTypeOK
<1>2. \A a : \A n \in 0..Len(applied) : Made(a, n) => \E m \in 1..n : applied'[m] = a
  BY <1>1 DEF Made
<1>3. \A a : Made(a, Len(applied)) => \E m \in 1..(Len(applied) + 1) : applied'[m] = a
  BY <1>1 DEF Made
<1> QED BY <1>1, <1>2, <1>3 DEF Made

LEMMA ApplyWriteKeeps ==
  ASSUME PanelInv, NEW i \in WriteIds, ApplyWrite(i)
  PROVE  PanelInv'
<1>0. /\ PanelTypeOK /\ IdInv /\ FlagInv /\ PosInv /\ MountInv /\ KeyInv /\ GhostInv
      /\ SupersedingInv /\ PatchingInv /\ SerialInv
  BY DEF PanelInv
<1>1. PICK w \in writes :
        /\ w.pos = 0
        /\ applied' = Append(applied, [id |-> w.id, key |-> w.key])
        /\ writes' = (writes \ {w}) \cup {[w EXCEPT !.pos = Len(applied')]}
        /\ UNCHANGED <<comp, open, key, shown, isLoading, missed, flags, reads, sent,
                       acked>>
  BY DEF ApplyWrite
<1> DEFINE L == Len(applied)
<1> DEFINE x == [id |-> w.id, key |-> w.key]
<1> DEFINE v == [w EXCEPT !.pos = Len(applied')]
<1>2. /\ Len(applied') = L + 1 /\ L \in Nat
      /\ applied' \in Seq(ChangesMade)
      /\ \A m \in 1..L : applied'[m] = applied[m]
      /\ applied'[L + 1] = x
      /\ \A a : \A n \in 0..L : Made(a, n) => \E m \in 1..n : applied'[m] = a
      /\ \A a : Made(a, L) => \E m \in 1..(L + 1) : applied'[m] = a
  BY <1>0, <1>1, WriteFits, MadeStays DEF Made
<1>3. /\ v \in Writes
      /\ v.id = w.id /\ v.op = w.op /\ v.key = w.key /\ v.pos = L + 1
  <2>1. w \in Writes /\ Len(applied') \in Nat /\ Len(applied') = L + 1
    BY <1>0, <1>2 DEF PanelTypeOK
  <2> QED BY <2>1 DEF Writes
<1>4. writes' = (writes \ {w}) \cup {v}
  BY <1>1
<1> HIDE DEF v, x, L
<1>5. PanelTypeOK'
  <2>1. writes' \in SUBSET Writes
    BY <1>0, <1>3, <1>4 DEF PanelTypeOK
  <2>2. \A y \in writes' : y.op.flag \in Flags => y.op.flag \in flags
    BY <1>0, <1>3, <1>4 DEF PanelTypeOK
  <2> QED BY <1>0, <1>1, <1>2, <2>1, <2>2 DEF PanelTypeOK
<1>6. IdInv'
  BY <1>0, <1>1, <1>3, <1>4 DEF IdInv
<1>7. FlagInv'
  BY <1>0, <1>1, <1>3, <1>4 DEF FlagInv
<1>8. PosInv'
  <2>1. \A y \in writes' : y.pos # 0 =>
          y.pos \in 1..(L + 1) /\ applied'[y.pos] = [id |-> y.id, key |-> y.key]
    <3>1. TAKE y \in writes'
    <3>2. CASE y = v
      BY <1>2, <1>3, <3>2 DEF x
    <3>3. CASE y \in writes
      BY <1>0, <1>2, <3>3 DEF PosInv, L
    <3> QED BY <1>4, <3>2, <3>3
  <2>2. \A r \in reads : r.from \in 0..(L + 1)
    BY <1>0, <1>2 DEF PosInv, L
  <2>3. \A a \in acked : \E m \in 1..(L + 1) : applied'[m] = a
    BY <1>0, <1>2 DEF PosInv, L
  <2> QED BY <1>1, <1>2, <2>1, <2>2, <2>3 DEF PosInv, Made
<1>9. MountInv'
  BY <1>0, <1>1, <1>3, <1>4 DEF MountInv
<1>10. Unmoved' <=> Unmoved
  BY <1>1 DEF Unmoved
<1>11. KeyInv'
  BY <1>0, <1>1, <1>10 DEF KeyInv
<1>12. GhostInv'
  <2>1. SUFFICES ASSUME open, ~missed, Unmoved, Truthful(comp), NEW j \in shown.has
                 PROVE  \/ \E n \in 1..(L + 1) : applied'[n].id = j
                        \/ \E y \in writes' : y.id = j /\ y.op.eager
    BY <1>1, <1>2, <1>10 DEF GhostInv
  <2>2. CASE \E n \in 1..L : applied[n].id = j
    BY <1>2, <2>2
  <2>3. CASE \E y \in writes : y.id = j /\ y.op.eager
    BY <1>3, <1>4, <2>3
  <2> QED BY <1>0, <2>1, <2>2, <2>3 DEF GhostInv, L
<1>13. SupersedingInv'
  <2>1. Superseding(comp) => \A r \in reads : r.live =>
          \A a \in acked : \E m \in 1..r.from : applied'[m] = a
    BY <1>0, <1>2 DEF SupersedingInv, PosInv, L
  <2> QED BY <1>0, <1>1, <1>10, <2>1 DEF SupersedingInv, Made
<1>14. PatchingInv'
  BY <1>0, <1>1, <1>3, <1>4 DEF PatchingInv
<1>15. SerialInv'
  <2>1. SUFFICES ASSUME Serial(comp), open PROVE SerialInv'
    BY <1>1 DEF SerialInv
  <2>2. \A r \in reads : r.live /\ r.for = "busy" =>
          \A a \in acked : \E m \in 1..r.from : applied'[m] = a
    BY <1>0, <1>2, <2>1 DEF SerialInv, PosInv, L
  <2>3. \A y \in writes' : ~Elsewhere(y.op) /\ y.pos # 0 =>
          \A a \in acked : \E m \in 1..y.pos : applied'[m] = a
    <3>1. TAKE y \in writes'
    <3>2. CASE y = v
      BY <1>0, <1>2, <1>3, <3>2 DEF PosInv, L
    <3>3. CASE y \in writes
      <4>1. y.pos # 0 => y.pos \in 0..L
        <5>1. y.pos # 0 => y.pos \in 1..L
          BY <1>0, <3>3 DEF PosInv, L
        <5>2. L \in Nat
          BY <1>2
        <5> QED BY <5>1, <5>2
      <4>2. ~Elsewhere(y.op) /\ y.pos # 0 => \A a \in acked : Made(a, y.pos)
        BY <1>0, <2>1, <3>3 DEF SerialInv
      <4> QED BY <1>2, <4>1, <4>2
    <3> QED BY <1>4, <3>2, <3>3
  <2>4. (\E y \in writes' : ~Elsewhere(y.op)) => shown.some
    BY <1>0, <1>3, <1>4, <2>1 DEF SerialInv
  <2>5. \/ acked # {}
        \/ \E q \in reads : q.for # "none"
        => shown.some
    BY <1>0, <2>1 DEF SerialInv
  <2>6. shown.some => \A q \in reads : q.for = "busy"
    BY <1>0, <2>1 DEF SerialInv
  <2> QED BY <1>0, <1>1, <1>10, <2>1, <2>2, <2>3, <2>4, <2>5, <2>6 DEF SerialInv, Made
<1> QED BY <1>5, <1>6, <1>7, <1>8, <1>9, <1>11, <1>12, <1>13, <1>14, <1>15 DEF PanelInv

LEMMA WriteClosesKeeps ==
  ASSUME PanelInv, NEW i \in WriteIds, WriteCloses(i)
  PROVE  PanelInv'
<1>0. PanelTypeOK /\ IdInv /\ PosInv /\ MountInv
  BY DEF PanelInv
<1>1. /\ open' = FALSE /\ writes' = {} /\ reads' = {} /\ flags' = {}
      /\ UNCHANGED <<comp, key, shown, isLoading, missed, sent, applied, acked>>
  BY DEF WriteCloses
<1>2. PanelTypeOK'
  BY <1>0, <1>1 DEF PanelTypeOK
<1>3. IdInv' /\ FlagInv' /\ PosInv' /\ MountInv'
  BY <1>0, <1>1 DEF IdInv, FlagInv, PosInv, MountInv, Made
<1>4. KeyInv' /\ GhostInv' /\ SupersedingInv' /\ PatchingInv' /\ SerialInv'
  BY <1>1 DEF KeyInv, GhostInv, SupersedingInv, PatchingInv, SerialInv
<1> QED BY <1>2, <1>3, <1>4 DEF PanelInv

(* A change ends, and its flag is lowered or handed to the read that the    *)
(* change waits for.                                                       *)
LEMMA WriteEnded ==
  ASSUME PanelInv, NEW w \in writes, writes' = writes \ {w},
         UNCHANGED <<comp, sent, applied>>,
         NEW k \in Keys,
         \/ reads' = reads /\ flags' = flags \ {w.op.flag}
         \/ /\ \E n : Started(n, Kept, k, "change")
            /\ flags' = flags \ {w.op.flag}
         \/ /\ \E n : Started(n, Kept, k, IF w.op.flag \in Flags THEN w.op.flag ELSE "change")
            /\ flags' = flags
  PROVE  /\ reads' \in SUBSET Reads /\ flags' \in SUBSET Flags
         /\ \A x \in writes' : x.op.flag \in Flags => x.op.flag \in flags'
         /\ IdInv' /\ FlagInv'
         /\ \A r \in reads' : r.from \in 0..Len(applied)
<1>1. PanelTypeOK /\ IdInv /\ FlagInv /\ PosInv /\ Thin(Kept) /\ Len(applied) \in Nat
  BY KeptThin DEF PanelInv, PanelTypeOK
<1>2. \A x \in writes' : x.op.flag \in Flags => x.op.flag # w.op.flag
  BY <1>1 DEF FlagInv
<1>3. \A r \in reads : r.for \in Flags =>
        r.for # w.op.flag /\ r.for \in flags /\ r.for \in Flags
  BY <1>1 DEF FlagInv, PanelTypeOK, Reads
<1>4. flags' \in SUBSET Flags
  BY <1>1 DEF PanelTypeOK
<1>5. \A x \in writes' : x.op.flag \in Flags => x.op.flag \in flags'
  BY <1>1, <1>2 DEF PanelTypeOK
<1>6. CASE reads' = reads /\ flags' = flags \ {w.op.flag}
  <2>1. IdInv'
    BY <1>1, <1>6 DEF IdInv
  <2>2. FlagInv'
    BY <1>1, <1>3, <1>6 DEF FlagInv
  <2> QED BY <1>1, <1>4, <1>5, <1>6, <2>1, <2>2 DEF PanelTypeOK, PosInv
<1>7. ASSUME NEW n, NEW f, Started(n, Kept, k, f),
             \/ f = "change" /\ flags' = flags \ {w.op.flag}
             \/ f = "change" /\ flags' = flags
             \/ f = w.op.flag /\ f \in Flags /\ flags' = flags
      PROVE  /\ reads' \in SUBSET Reads /\ IdInv' /\ FlagInv'
             /\ \A r \in reads' : r.from \in 0..Len(applied)
  <2>1. reads' = Kept \cup {n} /\ n \in Reads /\ n.for = f /\ n.from = Len(applied)
    BY <1>7 DEF Started
  <2>2. IdInv'
    BY <1>1, <1>7 DEF IdInv, Started, Thin
  <2>3. \A r \in Kept : r.for \in Flags =>
          r.for # w.op.flag /\ r.for \in flags /\ \A x \in writes : x.op.flag # r.for
    BY <1>1, <1>3 DEF Thin, FlagInv, Flags
  <2>4. f \in Flags => f \in flags'
    BY <1>1, <1>7 DEF PanelTypeOK, Flags
  <2>5. \A r \in reads' : r.for \in Flags =>
          r.for \in flags' /\ \A x \in writes' : x.op.flag # r.for
    BY <1>1, <1>2, <1>7, <2>1, <2>3, <2>4 DEF Flags, FlagInv
  <2>6. \A r, q \in reads' : r.for = q.for /\ r.for \in Flags => r = q
    BY <1>1, <1>7, <2>1, <2>3 DEF Thin, Flags
  <2>7. FlagInv'
    BY <1>1, <2>5, <2>6 DEF FlagInv
  <2>8. \A r \in Kept : r.from \in 0..Len(applied)
    BY <1>1 DEF Thin, PosInv
  <2>9. \A r \in reads' : r.from \in 0..Len(applied)
    BY <1>1, <2>1, <2>8
  <2> QED BY <1>1, <2>1, <2>2, <2>7, <2>9 DEF Thin
<1>8. CASE \E n : Started(n, Kept, k, "change") /\ flags' = flags \ {w.op.flag}
  BY <1>4, <1>5, <1>7, <1>8
<1>9. CASE \E n : Started(n, Kept, k, IF w.op.flag \in Flags THEN w.op.flag ELSE "change")
                  /\ flags' = flags
  BY <1>4, <1>5, <1>7, <1>9
<1> QED BY <1>6, <1>8, <1>9

LEMMA KeyAfterFacts ==
  ASSUME PanelInv, NEW w \in writes
  PROVE  /\ KeyAfter(w) \in Keys
         /\ comp.load # "keyed" => KeyAfter(w) = Key0
         /\ comp.drop = "always" => KeyAfter(w) = key
BY WriteFits DEF PanelInv, MountInv, PanelTypeOK, KeyAfter

LEMMA WriteFailsKeeps ==
  ASSUME PanelInv, NEW i \in WriteIds, WriteFails(i)
  PROVE  PanelInv'
<1>0. /\ PanelTypeOK /\ IdInv /\ FlagInv /\ PosInv /\ MountInv /\ KeyInv /\ GhostInv
      /\ SupersedingInv /\ PatchingInv /\ SerialInv
  BY DEF PanelInv
<1>1. PICK w \in writes :
        /\ writes' = writes \ {w}
        /\ IF Refetches(w) THEN StartRead(Kept, KeyAfter(w), "change")
           ELSE UNCHANGED <<reads, isLoading>>
        /\ flags' = flags \ {w.op.flag}
        /\ open' = (open /\ ~(comp.brittle /\ w.op.fail = "report"))
        /\ UNCHANGED <<comp, key, shown, missed, sent, applied, acked>>
  BY DEF WriteFails
<1>2. /\ KeyAfter(w) \in Keys /\ w.op \in comp.ops
      /\ comp.load # "keyed" => KeyAfter(w) = Key0
      /\ comp.drop = "always" => KeyAfter(w) = key
  BY <1>0, KeyAfterFacts DEF IdInv
<1>3. \/ w.op.fail # "reload" /\ UNCHANGED <<reads, isLoading>>
      \/ w.op.fail = "reload" /\ \E n : Started(n, Kept, KeyAfter(w), "change")
  BY <1>0, <1>1, <1>2, StartReadFacts DEF Refetches
<1>4. Thin(Kept) /\ (comp.drop = "always" => \A r \in Kept : ~r.live)
  BY <1>0, KeptThin
<1>5. /\ reads' \in SUBSET Reads /\ flags' \in SUBSET Flags
      /\ \A x \in writes' : x.op.flag \in Flags => x.op.flag \in flags'
      /\ IdInv' /\ FlagInv'
      /\ \A r \in reads' : r.from \in 0..Len(applied)
  BY <1>1, <1>2, <1>3, WriteEnded
<1>6. PanelTypeOK'
  <2>1. writes' \in SUBSET Writes /\ open' \in BOOLEAN /\ isLoading' \in BOOLEAN
    BY <1>0, <1>1, <1>3 DEF PanelTypeOK, Started
  <2> QED BY <1>0, <1>1, <1>5, <2>1 DEF PanelTypeOK
<1>7. PosInv'
  BY <1>0, <1>1, <1>5 DEF PosInv, Made
<1>8. MountInv'
  BY <1>0, <1>1, <1>2, <1>3, <1>4 DEF MountInv, Started, Thin
<1>9. CASE w.op.fail # "reload"
  <2>1. reads' = reads /\ (Unmoved' <=> Unmoved) /\ (open' => open)
    BY <1>1, <1>3, <1>9 DEF Unmoved
  <2>2. KeyInv'
    BY <1>0, <1>1, <2>1 DEF KeyInv
  <2>3. GhostInv'
    BY <1>0, <1>1, <1>2, <1>9, <2>1 DEF GhostInv, Truthful
  <2>4. SupersedingInv'
    BY <1>0, <1>1, <2>1 DEF SupersedingInv, Made
  <2>5. PatchingInv'
    BY <1>0, <1>1, <2>1 DEF PatchingInv
  <2>6. SerialInv'
    BY <1>0, <1>1, <2>1 DEF SerialInv, Made
  <2> QED BY <1>5, <1>6, <1>7, <1>8, <2>2, <2>3, <2>4, <2>5, <2>6 DEF PanelInv
<1>10. CASE w.op.fail = "reload"
  <2>1. PICK n : Started(n, Kept, KeyAfter(w), "change")
    BY <1>3, <1>10
  <2>2. ~Unmoved' /\ GhostInv'
    BY <2>1, StartedMoves
  <2>3. KeyInv'
    <3>1. KeepsToKey(comp) =>
            KeyAfter(w) = key /\ ~(comp.load = "keyed" /\ comp.drop = "key")
      BY <1>0, <1>2, <1>10 DEF KeepsToKey, MountInv
    <3> QED BY <1>0, <1>1, <1>4, <2>1, <2>2, <3>1 DEF KeyInv, Started, Thin
  <2>4. SupersedingInv'
    BY <1>0, <1>1, <1>4, <2>1, <2>2 DEF SupersedingInv, Superseding, Started, PosInv, Made
  <2>5. ~Patching(comp) /\ ~Serial(comp)
    BY <1>2, <1>10 DEF Patching, Serial, Elsewhere
  <2> QED BY <1>1, <1>5, <1>6, <1>7, <1>8, <2>2, <2>3, <2>4, <2>5
          DEF PanelInv, PatchingInv, SerialInv
<1> QED BY <1>9, <1>10

(* What the success of a change puts on screen.                            *)
LEMMA PutFacts ==
  ASSUME PanelInv, NEW w \in writes, w.pos # 0, shown' = Put(w)
  PROVE  /\ shown' \in Screens
         /\ w.op.then = "apply" =>
              /\ shown'.some /\ shown'.key = w.key
              /\ shown'.has = Reflected(w.pos, w.key)
         /\ w.op.then = "redo" => shown'.some /\ shown'.key = w.key
         /\ w.op.then \notin {"apply", "redo"} =>
              /\ shown'.some = shown.some /\ shown'.key = shown.key
              /\ shown.has \subseteq shown'.has
         /\ w.op.then \notin {"apply", "redo", "patch"} => shown' = shown
         /\ w.op.then = "patch" =>
              /\ shown'.has \subseteq shown.has \cup {w.id}
              /\ shown.some /\ shown.key = w.key => shown'.has = shown.has \cup {w.id}
<1>1. PanelTypeOK /\ PosInv
  BY DEF PanelInv
<1>2. w.id \in WriteIds /\ w.key \in Keys /\ w.saw \in SUBSET WriteIds
  BY <1>1, WriteFits
<1>3. w.pos \in 0..Len(applied)
  <2>1. w.pos \in 1..Len(applied)
    BY <1>1 DEF PosInv
  <2>2. Len(applied) \in Nat
    BY <1>1 DEF PanelTypeOK
  <2> QED BY <2>1, <2>2
<1>4. Reflected(w.pos, w.key) \in SUBSET WriteIds
  BY <1>1, <1>2, <1>3, ReflectedFacts
<1>5. CASE w.op.then = "apply"
  BY <1>2, <1>4, <1>5, ScreenIsScreen DEF Put
<1>6. CASE w.op.then = "redo"
  BY <1>2, <1>6, ScreenIsScreen DEF Put
<1>7. CASE w.op.then = "patch" /\ shown.some /\ shown.key = w.key
  <2>1. shown' = [shown EXCEPT !.has = @ \cup {w.id}]
    BY <1>7 DEF Put
  <2> QED BY <1>1, <1>2, <1>7, <2>1, ScreenGrows
<1>8. CASE w.op.then \notin {"apply", "redo"} /\ ~(w.op.then = "patch" /\ shown.some /\ shown.key = w.key)
  <2>1. shown' = shown
    BY <1>8 DEF Put
  <2> QED BY <1>1, <1>8, <2>1 DEF PanelTypeOK
<1> QED BY <1>5, <1>6, <1>7, <1>8

LEMMA WriteSucceedsKeeps ==
  ASSUME PanelInv, NEW i \in WriteIds, WriteSucceeds(i)
  PROVE  PanelInv'
<1>0. /\ PanelTypeOK /\ IdInv /\ FlagInv /\ PosInv /\ MountInv /\ KeyInv /\ GhostInv
      /\ SupersedingInv /\ PatchingInv /\ SerialInv
  BY DEF PanelInv
<1>1. PICK w \in writes :
        /\ w.pos # 0 /\ w.op.then # "leave"
        /\ acked' = acked \cup Vouched(w)
        /\ writes' = writes \ {w}
        /\ shown' = Put(w)
        /\ Follow(w)
        /\ UNCHANGED <<comp, open, key, missed, sent, applied>>
  BY DEF WriteSucceeds
<1> DEFINE x == [id |-> w.id, key |-> w.key]
<1>2. /\ KeyAfter(w) \in Keys /\ w.op \in comp.ops
      /\ comp.load # "keyed" => KeyAfter(w) = Key0
      /\ comp.drop = "always" => KeyAfter(w) = key
  BY <1>0, KeyAfterFacts DEF IdInv
<1>3. /\ w.id \in WriteIds /\ w.key \in Keys /\ w.op.flag \in Flags \cup {"row", "none"}
      /\ w.op.then \in {"await", "reload", "apply", "patch", "redo", "hand", "none"}
      /\ x \in ChangesMade /\ x.id = w.id /\ x.key = w.key
  BY <1>0, <1>1, WriteFits
<1>4. /\ w.pos \in 1..Len(applied) /\ applied[w.pos] = x /\ Len(applied) \in Nat
      /\ Made(x, w.pos) /\ Made(x, Len(applied))
  <2>1. w.pos \in 1..Len(applied) /\ applied[w.pos] = x /\ Len(applied) \in Nat
    BY <1>0, <1>1 DEF PosInv, PanelTypeOK
  <2> QED BY <2>1 DEF Made
<1>5. /\ w.op.then \in {"hand", "none"} => acked' = acked
      /\ w.op.then \notin {"hand", "none"} => acked' = acked \cup {x}
  BY <1>1 DEF Vouched
<1> HIDE DEF x
<1>6. \/ /\ w.op.then = "await" /\ flags' = flags
         /\ \E n : Started(n, Kept, KeyAfter(w),
                           IF w.op.flag \in Flags THEN w.op.flag ELSE "change")
      \/ /\ w.op.then \in {"reload", "redo"} /\ flags' = flags \ {w.op.flag}
         /\ \E n : Started(n, Kept, KeyAfter(w), "change")
      \/ /\ w.op.then \in {"apply", "patch", "hand", "none"}
         /\ flags' = flags \ {w.op.flag}
         /\ UNCHANGED <<reads, isLoading>>
  <2>1. (IF w.op.flag \in Flags THEN w.op.flag ELSE "change") \in Flags \cup {"change", "none"}
    OBVIOUS
  <2>2. CASE w.op.then = "await"
    <3>1. /\ StartRead(Kept, KeyAfter(w), IF w.op.flag \in Flags THEN w.op.flag ELSE "change")
          /\ flags' = flags
      BY <1>1, <2>2 DEF Follow
    <3> QED BY <1>0, <1>2, <2>1, <2>2, <3>1, StartReadFacts
  <2>3. CASE w.op.then \in {"reload", "redo"}
    <3>1. StartRead(Kept, KeyAfter(w), "change") /\ flags' = flags \ {w.op.flag}
      BY <1>1, <2>3 DEF Follow
    <3> QED BY <1>0, <1>2, <2>3, <3>1, StartReadFacts
  <2>4. CASE w.op.then \in {"apply", "patch", "hand", "none"}
    BY <1>1, <2>4 DEF Follow
  <2> QED BY <1>3, <2>2, <2>3, <2>4
<1>7. /\ shown' \in Screens
      /\ w.op.then = "apply" =>
           /\ shown'.some /\ shown'.key = w.key
           /\ shown'.has = Reflected(w.pos, w.key)
      /\ w.op.then = "redo" => shown'.some /\ shown'.key = w.key
      /\ w.op.then \notin {"apply", "redo"} =>
           /\ shown'.some = shown.some /\ shown'.key = shown.key
           /\ shown.has \subseteq shown'.has
      /\ w.op.then \notin {"apply", "redo", "patch"} => shown' = shown
      /\ w.op.then = "patch" =>
           /\ shown'.has \subseteq shown.has \cup {w.id}
           /\ shown.some /\ shown.key = w.key => shown'.has = shown.has \cup {w.id}
  BY <1>1, PutFacts
<1>8. /\ reads' \in SUBSET Reads /\ flags' \in SUBSET Flags
      /\ \A y \in writes' : y.op.flag \in Flags => y.op.flag \in flags'
      /\ IdInv' /\ FlagInv'
      /\ \A r \in reads' : r.from \in 0..Len(applied)
  BY <1>1, <1>2, <1>6, WriteEnded
<1>9. Thin(Kept) /\ (comp.drop = "always" => \A r \in Kept : ~r.live)
  BY <1>0, KeptThin
<1>10. PanelTypeOK'
  <2>1. writes' \in SUBSET Writes /\ isLoading' \in BOOLEAN /\ acked' \in SUBSET ChangesMade
    BY <1>0, <1>1, <1>3, <1>5, <1>6 DEF PanelTypeOK, Started
  <2> QED BY <1>0, <1>1, <1>7, <1>8, <2>1 DEF PanelTypeOK
<1>11. PosInv'
  BY <1>0, <1>1, <1>4, <1>5, <1>8 DEF PosInv, Made
<1>12. MountInv'
  <2>1. SUFFICES ASSUME comp.load # "keyed" PROVE MountInv'
    BY <1>1 DEF MountInv
  <2>2. shown'.key = Key0 /\ w.key = Key0
    BY <1>0, <1>3, <1>7, <2>1 DEF MountInv
  <2>3. \A r \in reads' : r.key = Key0
    BY <1>0, <1>2, <1>6, <1>9, <2>1 DEF MountInv, Started, Thin
  <2>4. \A a \in acked' : a.key = Key0
    BY <1>0, <1>3, <1>5, <2>1, <2>2 DEF MountInv
  <2> QED BY <1>0, <1>1, <2>1, <2>2, <2>3, <2>4 DEF MountInv
<1>13. CASE w.op.then \in {"await", "reload", "redo"}
  <2>1. PICK n, f : Started(n, Kept, KeyAfter(w), f)
    BY <1>6, <1>13
  <2>2. ~Unmoved' /\ GhostInv'
    BY <2>1, StartedMoves
  <2>3. KeyInv'
    <3>1. KeepsToKey(comp) =>
            KeyAfter(w) = key /\ ~(comp.load = "keyed" /\ comp.drop = "key")
      BY <1>0, <1>2, <1>13 DEF KeepsToKey, MountInv
    <3> QED BY <1>0, <1>1, <1>9, <2>1, <2>2, <3>1 DEF KeyInv, Started, Thin
  <2>4. SupersedingInv'
    BY <1>1, <1>9, <1>11, <2>1, <2>2 DEF SupersedingInv, Superseding, Started, PosInv, Made
  <2>5. PatchingInv'
    <3>1. ~Patching(comp)
      BY <1>2, <1>13 DEF Patching, Elsewhere
    <3> QED BY <1>1, <3>1 DEF PatchingInv
  <2>6. SerialInv'
    <3>1. SUFFICES ASSUME Serial(comp), open PROVE SerialInv'
      BY <1>1 DEF SerialInv
    <3>2. w.op.flag = "busy" /\ w.op.then = "await" /\ ~Elsewhere(w.op)
      BY <1>2, <1>13, <3>1 DEF Serial, Elsewhere
    <3>3. shown.some /\ shown'.some
      BY <1>0, <1>7, <3>1, <3>2 DEF SerialInv
    <3>4. reads = {}
      BY <1>0, <3>1, <3>2, <3>3 DEF SerialInv, FlagInv, Flags
    <3>5. Kept = {}
      BY <1>9, <3>4 DEF Thin
    <3>6. PICK q : Started(q, Kept, KeyAfter(w), "busy")
      BY <1>6, <3>2 DEF Flags
    <3>7. reads' = {q} /\ q.for = "busy" /\ q.from = Len(applied)
      BY <3>5, <3>6 DEF Started
    <3>8. \A y \in writes' : Elsewhere(y.op)
      <4>1. \A y \in writes : y.op \in comp.ops
        BY <1>0 DEF IdInv
      <4>2. \A y \in writes : ~Elsewhere(y.op) => y.op.flag = "busy"
        BY <3>1, <4>1 DEF Serial
      <4> QED BY <1>0, <1>1, <3>2, <4>2 DEF FlagInv, Flags
    <3>9. \A a \in acked' : Made(a, Len(applied))'
      BY <1>1, <1>11 DEF PosInv
    <3> QED BY <1>1, <2>2, <3>3, <3>7, <3>8, <3>9 DEF SerialInv
  <2> QED BY <1>8, <1>10, <1>11, <1>12, <2>2, <2>3, <2>4, <2>5, <2>6 DEF PanelInv
<1>14. CASE w.op.then \in {"apply", "patch", "hand", "none"}
  <2>1. reads' = reads /\ (Unmoved' <=> Unmoved)
    BY <1>6, <1>14 DEF Unmoved
  <2>2. KeyInv'
    <3>1. KeepsToKey(comp) /\ w.op.then = "apply" => w.key = key
      BY <1>0, <1>2 DEF KeepsToKey, MountInv
    <3> QED BY <1>0, <1>1, <1>7, <1>14, <2>1, <3>1 DEF KeyInv
  <2>3. GhostInv'
    <3>1. SUFFICES ASSUME open, ~missed, Unmoved, Truthful(comp), NEW j \in shown'.has
                   PROVE  \/ \E n \in 1..Len(applied) : applied[n].id = j
                          \/ \E y \in writes' : y.id = j /\ y.op.eager
      BY <1>1, <2>1 DEF GhostInv
    <3>2. CASE j = w.id
      BY <1>3, <1>4, <3>2
    <3>3. CASE w.op.then = "apply"
      <4>1. w.pos \in 0..Len(applied)
        BY <1>4
      <4> QED BY <1>0, <1>3, <1>7, <3>1, <3>3, <4>1, ReflectedFacts
    <3>4. CASE w.op.then # "apply" /\ j # w.id
      <4>1. j \in shown.has
        BY <1>7, <1>14, <3>1, <3>4
      <4> QED BY <1>0, <1>1, <3>1, <3>4, <4>1 DEF GhostInv
    <3> QED BY <3>2, <3>3, <3>4
  <2>4. SupersedingInv'
    <3>1. Superseding(comp) => w.op.then \in {"hand", "none"}
      BY <1>2, <1>14 DEF Superseding, Elsewhere
    <3> QED BY <1>0, <1>1, <1>5, <1>7, <2>1, <3>1 DEF SupersedingInv, Made
  <2>5. PatchingInv'
    <3>1. SUFFICES ASSUME Patching(comp), open PROVE PatchingInv'
      BY <1>1 DEF PatchingInv
    <3>2. CASE w.op.then \in {"hand", "none"}
      BY <1>0, <1>1, <1>5, <1>7, <2>1, <3>1, <3>2 DEF PatchingInv
    <3>3. CASE w.op.then \notin {"hand", "none"}
      <4>1. w.op.then = "patch" /\ ~Elsewhere(w.op)
        BY <1>2, <1>14, <3>1, <3>3 DEF Patching, Elsewhere
      <4>2. shown.some /\ shown.key = w.key
        BY <1>0, <3>1, <4>1 DEF PatchingInv, MountInv, Patching, Calm
      <4>3. shown'.some /\ shown'.has = shown.has \cup {w.id}
        BY <1>7, <4>1, <4>2
      <4> QED BY <1>0, <1>1, <1>3, <1>5, <2>1, <3>1, <3>3, <4>2, <4>3 DEF PatchingInv
    <3> QED BY <3>2, <3>3
  <2>6. SerialInv'
    <3>1. SUFFICES ASSUME Serial(comp), open PROVE SerialInv'
      BY <1>1 DEF SerialInv
    <3>2. CASE w.op.then \in {"hand", "none"}
      BY <1>0, <1>1, <1>5, <1>7, <2>1, <3>1, <3>2 DEF SerialInv, Made
    <3>3. CASE w.op.then \in {"apply", "patch"}
      <4>1. w.op.flag = "busy" /\ ~Elsewhere(w.op)
        BY <1>2, <3>1, <3>3 DEF Serial, Elsewhere
      <4>2. shown.some /\ shown'.some
        BY <1>0, <1>7, <3>1, <3>3, <4>1 DEF SerialInv
      <4>3. reads = {}
        BY <1>0, <3>1, <4>1, <4>2 DEF SerialInv, FlagInv, Flags
      <4>4. \A y \in writes' : Elsewhere(y.op)
        <5>1. \A y \in writes : y.op \in comp.ops
          BY <1>0 DEF IdInv
        <5>2. \A y \in writes : ~Elsewhere(y.op) => y.op.flag = "busy"
          BY <3>1, <5>1 DEF Serial
        <5> QED BY <1>0, <1>1, <4>1, <5>2 DEF FlagInv, Flags
      <4>5. shown.key = Key0 /\ w.key = Key0 /\ \A a \in acked : a.key = Key0
        BY <1>0, <3>1 DEF MountInv, Serial, Calm
      <4>6. CASE w.op.then = "apply"
        <5>1. \A a \in acked' : Made(a, w.pos) /\ a.key = w.key
          BY <1>0, <1>1, <1>3, <1>4, <1>5, <3>1, <4>1, <4>5, <4>6 DEF SerialInv
        <5>2. w.pos \in 0..Len(applied) /\ w.pos \in 0..w.pos
          BY <1>4
        <5>3. \A a \in acked' : a.id \in Reflected(w.pos, w.key)
          BY <1>0, <1>3, <5>1, <5>2, ReflectedFacts
        <5> QED BY <1>1, <1>7, <2>1, <4>2, <4>3, <4>4, <4>6, <5>3 DEF SerialInv
      <4>7. CASE w.op.then = "patch"
        <5>1. shown'.has = shown.has \cup {w.id}
          BY <1>7, <4>2, <4>5, <4>7
        <5>2. (~missed /\ Unmoved)' => \A a \in acked' : a.id \in shown'.has
          BY <1>0, <1>1, <1>3, <1>5, <2>1, <3>1, <4>7, <5>1 DEF SerialInv
        <5> QED BY <1>1, <2>1, <4>2, <4>3, <4>4, <5>2 DEF SerialInv
      <4> QED BY <3>3, <4>6, <4>7
    <3> QED BY <1>14, <3>2, <3>3
  <2> QED BY <1>8, <1>10, <1>11, <1>12, <2>2, <2>3, <2>4, <2>5, <2>6 DEF PanelInv
<1> QED BY <1>3, <1>13, <1>14

-----------------------------------------------------------------------------
(* The invariant.                                                          *)

LEMMA PanelInitInv ==
  ASSUME PanelInit
  PROVE  PanelInv
<1>1. PICK c \in Panels : PanelMount(c)
  BY DEF PanelInit
<1> DEFINE n == [slot |-> 1, key |-> Key0, from |-> 0, live |-> TRUE, for |-> "none"]
<1>2. /\ comp = c /\ open = TRUE /\ key = Key0 /\ shown = Nothing
      /\ isLoading = (c.load # "none") /\ missed = FALSE /\ flags = {}
      /\ reads = IF c.load = "none" THEN {} ELSE {n}
      /\ writes = {} /\ sent = 0 /\ applied = <<>> /\ acked = {}
  BY <1>1 DEF PanelMount
<1>3. /\ n \in Reads /\ n.slot = 1 /\ n.key = Key0 /\ n.from = 0 /\ n.live
      /\ n.for = "none"
  BY PanelAssumption DEF Reads
<1>4. ~Nothing.some /\ Nothing.key = Key0 /\ Nothing.has = {}
  BY DEF Nothing
<1>5. Len(applied) = 0 /\ applied \in Seq(ChangesMade)
  BY <1>2
<1> HIDE DEF n
<1>6. PanelTypeOK
  <2>1. reads \in SUBSET Reads
    BY <1>2, <1>3
  <2>2. key \in Keys /\ sent \in 0..MaxWrites
    BY <1>2, PanelAssumption
  <2>3. shown \in Screens /\ isLoading \in BOOLEAN
    BY <1>2 DEF Screens
  <2> QED BY <1>1, <1>2, <1>5, <2>1, <2>2, <2>3 DEF PanelTypeOK
<1>7. IdInv /\ FlagInv /\ MountInv
  BY <1>2, <1>3, <1>4 DEF IdInv, FlagInv, MountInv, Flags
<1>8. PosInv
  BY <1>2, <1>3, <1>5 DEF PosInv
<1>9. KeyInv
  BY <1>2, <1>3 DEF KeyInv, KeepsToKey, Unmoved
<1>10. GhostInv /\ SupersedingInv
  BY <1>2, <1>4 DEF GhostInv, SupersedingInv
<1>11. PatchingInv
  BY <1>2, <1>4 DEF PatchingInv
<1>12. SerialInv
  BY <1>2, <1>3, <1>4 DEF SerialInv
<1> QED BY <1>6, <1>7, <1>8, <1>9, <1>10, <1>11, <1>12 DEF PanelInv

LEMMA PanelStepInv ==
  ASSUME PanelInv, [PanelNext]_panelVars
  PROVE  PanelInv'
<1>1. CASE \E k \in Keys : ChangeKey(k)
  BY <1>1, ChangeKeyKeeps
<1>2. CASE Poll
  BY <1>2, PollKeeps
<1>3. CASE \E s \in 1..MaxReads : ReadArrives(s)
  BY <1>3, ReadArrivesKeeps
<1>4. CASE \E s \in 1..MaxReads : ReadFails(s)
  BY <1>4, ReadFailsKeeps
<1>5. CASE \E o \in Ops : SendWrite(o)
  BY <1>5, SendWriteKeeps
<1>6. CASE \E i \in WriteIds : ApplyWrite(i)
  BY <1>6, ApplyWriteKeeps
<1>7. CASE \E i \in WriteIds : WriteSucceeds(i)
  BY <1>7, WriteSucceedsKeeps
<1>8. CASE \E i \in WriteIds : WriteCloses(i)
  BY <1>8, WriteClosesKeeps
<1>9. CASE \E i \in WriteIds : WriteFails(i)
  BY <1>9, WriteFailsKeeps
<1>10. CASE UNCHANGED panelVars
  BY <1>10 DEF panelVars, PanelInv, PanelTypeOK, IdInv, FlagInv, PosInv, MountInv,
     KeyInv, GhostInv, SupersedingInv, PatchingInv, SerialInv, Unmoved, Made
<1> QED BY <1>1, <1>2, <1>3, <1>4, <1>5, <1>6, <1>7, <1>8, <1>9, <1>10 DEF PanelNext

LEMMA PanelInvariant == PanelSpec => []PanelInv
<1>1. PanelInit => PanelInv
  BY PanelInitInv
<1>2. PanelInv /\ [PanelNext]_panelVars => PanelInv'
  BY PanelStepInv
<1> QED BY <1>1, <1>2, PTL DEF PanelSpec

-----------------------------------------------------------------------------
(* What it shows.                                                          *)

(* Whatever a panel reads and changes, and in whatever order the answers    *)
(* come: its state is well formed, and the flag of a change stays raised   *)
(* while the change is under way, so that it is not sent twice.            *)
THEOREM PanelTypeCorrect == PanelSpec => []PanelTypeOK
<1>1. PanelInv => PanelTypeOK
  BY DEF PanelInv
<1> QED BY <1>1, PanelInvariant, PTL

(* A panel that drops the answers of an earlier key never settles on one:  *)
(* the cancelled flag in the cleanup of the effects is enough.             *)
THEOREM PanelSettledOnKey == PanelSpec => []SettledOnKey
<1>1. PanelInv => SettledOnKey
  BY DEF PanelInv, KeyInv, SettledOnKey, Unmoved
<1> QED BY <1>1, PanelInvariant, PTL

(* A panel that reads again when an eager change fails shows at rest only  *)
(* what the server has made.                                               *)
THEOREM PanelNoGhosts == PanelSpec => []NoGhosts
<1>1. PanelInv => NoGhosts
  BY DEF PanelInv, GhostInv, NoGhosts, AtRest, Unmoved
<1> QED BY <1>1, PanelInvariant, PTL

(* The refinement mapping: quiet and onView of FreshView.                  *)
Quiet == AtRest /\ ReadsOwnWrites(comp)

OnView == {a \in ChangesMade : a.key = key => a.id \in shown.has}

(* At rest, every change that was reported as made is on screen.           *)
FreshAtRest == Quiet => acked \subseteq OnView

LEMMA RestIsFresh ==
  ASSUME PanelInv
  PROVE  FreshAtRest
<1>0. SUFFICES ASSUME Quiet PROVE acked \subseteq OnView
  BY DEF FreshAtRest
<1>1. open /\ ~missed /\ Unmoved
  BY <1>0 DEF Quiet, AtRest, Unmoved
<1>2. Superseding(comp) \/ Patching(comp) \/ Serial(comp)
  BY <1>0 DEF Quiet, ReadsOwnWrites, Superseding, Patching, Serial
<1>3. \A a \in acked : a.key = key => a.id \in shown.has
  BY <1>1, <1>2 DEF PanelInv, SupersedingInv, PatchingInv, SerialInv
<1> QED BY <1>3 DEF OnView, PanelInv, PanelTypeOK

(* Every step out of rest sends a call.                                    *)
LEMMA RestIsLeft ==
  ASSUME PanelInv, PanelNext, Quiet
  PROVE  ~Quiet' /\ acked' = acked
<1>1. reads = {} /\ writes = {}
  BY DEF Quiet, AtRest
<1>2. CASE \E k \in Keys : ChangeKey(k)
  BY <1>2 DEF ChangeKey, StartRead, Quiet, AtRest
<1>3. CASE Poll
  BY <1>3 DEF Poll, StartRead, Quiet, AtRest
<1>4. CASE \E o \in Ops : SendWrite(o)
  BY <1>4 DEF SendWrite, Quiet, AtRest
<1> QED BY <1>1, <1>2, <1>3, <1>4
        DEF PanelNext, ReadArrives, ReadFails, ApplyWrite, WriteSucceeds, WriteCloses,
            WriteFails

LEMMA AckedStays ==
  ASSUME PanelNext
  PROVE  acked \subseteq acked'
BY DEF PanelNext, ChangeKey, Poll, ReadArrives, ReadFails, SendWrite, ApplyWrite,
       WriteSucceeds, WriteCloses, WriteFails

(* A panel that supersedes its earlier reads, patches what it read once or *)
(* changes one thing at a time implements FreshView: it comes to rest only *)
(* with every change on screen that it has reported as made.               *)
THEOREM PanelImplementsFreshView == PanelSpec => ImplementsFreshView
<1>1. PanelInit => Promise!ViewInit
  <2>1. ASSUME PanelInit PROVE acked = {} /\ ~Quiet
    <3>1. PICK c \in Panels : PanelMount(c)
      BY <2>1 DEF PanelInit
    <3>2. ReadsOwnWrites(c) => c.load # "none"
      BY DEF ReadsOwnWrites, Calm
    <3> QED BY <3>1, <3>2 DEF PanelMount, Quiet, AtRest
  <2> QED BY <2>1 DEF Promise!ViewInit, Quiet
<1>2. PanelInv /\ FreshAtRest' /\ [PanelNext]_panelVars =>
        [Promise!ViewNext]_(Promise!viewVars)
  <2>1. SUFFICES ASSUME PanelInv, FreshAtRest', [PanelNext]_panelVars
                 PROVE  [Promise!ViewNext]_(Promise!viewVars)
    OBVIOUS
  <2>2. CASE PanelNext
    <3>1. acked \subseteq acked'
      BY <2>2, AckedStays
    <3>2. Quiet => ~Quiet' /\ acked' = acked
      BY <2>1, <2>2, RestIsLeft
    <3>3. Quiet' => acked' \subseteq OnView'
      BY <2>1 DEF FreshAtRest
    <3> QED BY <3>1, <3>2, <3>3
            DEF Quiet, OnView, Promise!ViewNext, Promise!GetBusy, Promise!Work,
                Promise!ComeToRest
  <2>3. CASE UNCHANGED panelVars
    BY <2>3 DEF panelVars, Promise!viewVars, AtRest
  <2> QED BY <2>1, <2>2, <2>3
<1>3. PanelInv => FreshAtRest
  BY RestIsFresh
<1> QED BY <1>1, <1>2, <1>3, PanelInvariant, PTL
        DEF PanelSpec, ImplementsFreshView, Promise!ViewSpec

=============================================================================
