------------------------- MODULE PaneRegistry_proofs -------------------------
(***************************************************************************)
(* TLAPS proofs about PaneRegistry, for any number of labels, panes,       *)
(* threads and pruning processes.  RegistryInv adds to the properties what *)
(* they rest on: the kind of a record tells whose it is, and a set of      *)
(* living panes misses only panes whose records are no older than the set. *)
(* From it, every step is a step of AddressContract or none.               *)
(***************************************************************************)
EXTENDS PaneRegistry, TLAPS

USE RegistryAssumption

-----------------------------------------------------------------------------
OwnerFits(r) ==
    /\ r.kind = "none" <=> r.owner = Nobody
    /\ r.kind = "mailbox" <=> r.owner \in Threads

KindsFit == \A l \in Labels : OwnerFits(reg[l])

ComersNameLabels == \A p \in Panes : comer[p].pc # "idle" => comer[p].label \in Labels

CacheTimely ==
    \A l \in Labels : reg[l].owner \in open \ cache.sids => reg[l].age <= cache.age

PrunersTimely ==
    \A k \in Pruners, l \in Labels :
        pruner[k].pc = "prune" /\ reg[l].owner \in open \ pruner[k].sids
            => reg[l].age <= pruner[k].age

RegistryInv ==
    /\ TypeOK
    /\ KindsFit
    /\ OneLabelPerOwner
    /\ ThreadMailStays
    /\ ComersNameLabels
    /\ CacheTimely
    /\ PrunersTimely

\* What every change of the registry but the passing of time respects
RegistryChange ==
    /\ reg' \in [Labels -> Records]
    /\ KindsFit'
    /\ OneLabelPerOwner'
    /\ \A l \in Labels :
          \/ reg'[l].age = 0
          \/ reg'[l].owner = reg[l].owner /\ reg'[l].age = reg[l].age

MailOK == ThreadMailStays /\ mail \in [Labels -> SUBSET Owners]

-----------------------------------------------------------------------------
LEMMA RecordTyped ==
  /\ NoRecord \in Records /\ NoRecord.kind = "none" /\ NoRecord.owner = Nobody /\ NoRecord.age = 0
  /\ \A r \in Records : /\ r.kind \in {"none", "pane", "channel", "mailbox"}
                        /\ r.owner \in Owners \cup {Nobody}
                        /\ r.age \in 0..2
  BY DEF NoRecord, Records, Old

LEMMA RegistryInit == Init => RegistryInv
<1> SUFFICES ASSUME Init PROVE RegistryInv
  OBVIOUS
<1>1. TypeOK
  BY RecordTyped DEF Init, TypeOK, Old, Owners
<1>2. KindsFit /\ OneLabelPerOwner /\ ThreadMailStays
  BY RecordTyped DEF Init, KindsFit, OwnerFits, OneLabelPerOwner, Registered, ThreadMailStays
<1>3. ComersNameLabels /\ CacheTimely /\ PrunersTimely
  BY RecordTyped DEF Init, ComersNameLabels, CacheTimely, PrunersTimely
<1> QED  BY <1>1, <1>2, <1>3 DEF RegistryInv

(* A change of the registry while the sets of living panes stay.           *)
LEMMA TimelyKept ==
  ASSUME RegistryInv, RegistryChange, open' \subseteq open, UNCHANGED <<cache, pruner>>
  PROVE  CacheTimely' /\ PrunersTimely'
<1>1. cache.age \in 0..2 /\ \A k \in Pruners : pruner[k].age \in 0..2
  BY DEF RegistryInv, TypeOK, Old
<1>2. \A l \in Labels : reg[l].age \in 0..2
  BY RecordTyped DEF RegistryInv, TypeOK
<1> QED  BY <1>1, <1>2 DEF RegistryInv, RegistryChange, CacheTimely, PrunersTimely

LEMMA UnchangedRegistry ==
  ASSUME RegistryInv, UNCHANGED reg
  PROVE  RegistryChange
  BY DEF RegistryInv, RegistryChange, TypeOK, KindsFit, OneLabelPerOwner, Registered

(* One record is replaced or dropped.                                      *)
LEMMA RecordReplaced ==
  ASSUME RegistryInv, NEW l \in Labels, NEW r \in Records, OwnerFits(r),
         reg' = [reg EXCEPT ![l] = r],
         r.age = 0 \/ (r.owner = reg[l].owner /\ r.age = reg[l].age),
         r.kind # "none" => \A k \in Labels \ {l} : reg[k].owner # r.owner
  PROVE  RegistryChange
<1>1. reg' \in [Labels -> Records] /\ reg'[l] = r /\ \A k \in Labels \ {l} : reg'[k] = reg[k]
  BY DEF RegistryInv, TypeOK
<1>2. KindsFit'
  BY <1>1 DEF RegistryInv, KindsFit, OwnerFits
<1>3. OneLabelPerOwner'
  BY <1>1, RecordTyped DEF RegistryInv, OneLabelPerOwner, Registered, KindsFit, OwnerFits
<1> QED  BY <1>1, <1>2, <1>3 DEF RegistryChange

LEMMA NoRecordFits == OwnerFits(NoRecord)
  BY RecordTyped DEF OwnerFits

(* A pane takes a label that is not refused.                               *)
LEMMA PaneRegistered ==
  ASSUME RegistryInv, NEW l \in Labels, NEW p \in Panes, ~Refused(l, p), reg' = WithRecord(l, p)
  PROVE  /\ RegistryChange
         /\ \A k \in Labels : reg[k].owner \in Threads => reg'[k].owner = reg[k].owner
<1> DEFINE r == [kind |-> IF reg[l].owner = p THEN reg[l].kind ELSE "pane", owner |-> p, age |-> 0]
<1>1. /\ reg[l] \in Records /\ OwnerFits(reg[l])
      /\ reg[l].kind # "mailbox" /\ p \in Owners
  BY DEF RegistryInv, TypeOK, KindsFit, Refused, Owners
<1>2. r \in Records /\ r.age = 0 /\ r.owner = p /\ OwnerFits(r)
  <2>1. r.kind \in {"pane", "channel"}
    BY <1>1, RecordTyped DEF OwnerFits
  <2> QED  BY <1>1, <2>1 DEF Records, OwnerFits, Old
<1>3. /\ reg'[l] = r
      /\ \A k \in Labels \ {l} : reg'[k] = IF reg[k].owner = p THEN NoRecord ELSE reg[k]
      /\ reg' \in [Labels -> Records]
  BY <1>2, RecordTyped DEF WithRecord, RegistryInv, TypeOK
<1> HIDE DEF r
<1>4. KindsFit'
  BY <1>2, <1>3, NoRecordFits DEF RegistryInv, KindsFit, OwnerFits
<1>5. OneLabelPerOwner'
  <2> SUFFICES ASSUME NEW j \in Labels, NEW k \in Labels,
                      reg'[j].kind # "none", reg'[j].owner = reg'[k].owner
               PROVE  j = k
    BY DEF OneLabelPerOwner, Registered
  <2>1. \A m \in Labels \ {l} : reg'[m].owner # p
    BY <1>3, RecordTyped
  <2>2. CASE j = l \/ k = l
    BY <1>2, <1>3, <2>1, <2>2
  <2>3. CASE j # l /\ k # l
    BY <1>3, <2>3, RecordTyped DEF RegistryInv, OneLabelPerOwner, Registered, KindsFit, OwnerFits
  <2> QED  BY <2>2, <2>3
<1>6. \A k \in Labels : reg[k].owner \in Threads => reg'[k].owner = reg[k].owner
  BY <1>1, <1>3 DEF OwnerFits
<1> QED  BY <1>2, <1>3, <1>4, <1>5, <1>6, RecordTyped DEF RegistryChange

(* Mail to threads stays where it is as long as their records do.          *)
LEMMA MailKept ==
  ASSUME RegistryInv, mail' \in [Labels -> SUBSET Owners],
         \A l \in Labels, t \in Threads :
             t \in mail'[l] => t \in mail[l] /\ reg'[l].owner = reg[l].owner
  PROVE  ThreadMailStays'
  BY DEF RegistryInv, ThreadMailStays

-----------------------------------------------------------------------------
(* The registry's operations.                                              *)
LEMMA OperationsKeep ==
  \A l \in Labels :
     RegistryInv /\ (\/ \E t \in Threads : RegisterMailbox(t, l)
                     \/ ConnectChannel(l) \/ Unregister(l) \/ Ask(l) \/ Drain(l)) => RegistryInv'
<1> SUFFICES ASSUME NEW l \in Labels, RegistryInv,
                    \/ \E t \in Threads : RegisterMailbox(t, l)
                    \/ ConnectChannel(l) \/ Unregister(l) \/ Ask(l) \/ Drain(l)
             PROVE  RegistryInv'
  OBVIOUS
<1>0. /\ UNCHANGED <<open, cache, cacheLock, pruner, comer, late>>
  BY DEF RegisterMailbox, ConnectChannel, Unregister, Ask, Drain
<1>1. ASSUME NEW t \in Threads, RegisterMailbox(t, l)
      PROVE  RegistryChange /\ MailOK'
  <2> DEFINE r == [kind |-> "mailbox", owner |-> t, age |-> 0]
  <2>1. r \in Records /\ OwnerFits(r) /\ r.owner = t /\ r.kind = "mailbox" /\ r.age = 0
    BY DEF Records, OwnerFits, Owners, Old
  <2>2. /\ reg' = [reg EXCEPT ![l] = r] /\ UNCHANGED mail
        /\ \A k \in Labels \ {l} : reg[k].owner # t
        /\ reg[l].owner \in {Nobody, t}
    BY <1>1 DEF RegisterMailbox, Registered, RegistryInv, KindsFit, OwnerFits
  <2> HIDE DEF r
  <2>3. RegistryChange
    BY <2>1, <2>2, RecordReplaced
  <2>4. \A k \in Labels, u \in Threads : u \in mail[k] => reg'[k].owner = u
    BY <2>1, <2>2 DEF RegistryInv, ThreadMailStays, TypeOK
  <2> QED  BY <2>2, <2>3, <2>4 DEF MailOK, ThreadMailStays, RegistryInv, TypeOK
<1>2. ASSUME ConnectChannel(l) PROVE RegistryChange /\ MailOK'
  <2>1. /\ reg' = [reg EXCEPT ![l].kind = "channel"] /\ UNCHANGED mail
        /\ reg[l].kind = "pane" /\ reg[l] \in Records /\ OwnerFits(reg[l])
    BY <1>2 DEF ConnectChannel, RegistryInv, TypeOK, KindsFit
  <2> DEFINE r == [reg[l] EXCEPT !.kind = "channel"]
  <2>2. r \in Records /\ r.kind = "channel" /\ r.owner = reg[l].owner /\ r.age = reg[l].age /\ OwnerFits(r)
    BY <2>1 DEF Records, OwnerFits
  <2>3. reg' = [reg EXCEPT ![l] = r]
    BY <2>1 DEF RegistryInv, TypeOK
  <2> HIDE DEF r
  <2>4. \A k \in Labels \ {l} : reg[k].owner # r.owner
    BY <2>1, <2>2 DEF RegistryInv, OneLabelPerOwner, Registered
  <2>5. RegistryChange
    BY <2>2, <2>3, <2>4, RecordReplaced
  <2>6. \A k \in Labels : reg'[k].owner = reg[k].owner
    BY <2>2, <2>3 DEF RegistryInv, TypeOK
  <2> QED  BY <2>1, <2>5, <2>6 DEF MailOK, ThreadMailStays, RegistryInv, TypeOK
<1>3. ASSUME Unregister(l) PROVE RegistryChange /\ MailOK'
  <2>1. RegistryChange
    BY <1>3, RecordReplaced, RecordTyped, NoRecordFits DEF Unregister
  <2>2. mail' \in [Labels -> SUBSET Owners]
    BY <1>3 DEF Unregister, RegistryInv, TypeOK
  <2>3. \A k \in Labels, t \in Threads :
           t \in mail'[k] => t \in mail[k] /\ reg'[k].owner = reg[k].owner
    BY <1>3 DEF Unregister, RegistryInv, TypeOK, ThreadMailStays, KindsFit, OwnerFits
  <2> QED  BY <2>1, <2>2, <2>3, MailKept DEF MailOK
<1>4. ASSUME Ask(l) PROVE RegistryChange /\ MailOK'
  <2>1. UNCHANGED reg /\ mail' = [mail EXCEPT ![l] = @ \cup {reg[l].owner}]
        /\ reg[l].owner \in Owners
    BY <1>4 DEF Ask, Owners, RegistryInv, TypeOK
  <2> QED  BY <2>1, UnchangedRegistry DEF MailOK, ThreadMailStays, RegistryInv, TypeOK
<1>5. ASSUME Drain(l) PROVE RegistryChange /\ MailOK'
  <2>1. UNCHANGED reg /\ \E got \in SUBSET Owners : mail' = [mail EXCEPT ![l] = @ \ got]
    <3> DEFINE got == IF reg[l].owner \in Threads THEN mail[l] \cap {reg[l].owner} ELSE mail[l]
    <3>1. got \in SUBSET Owners
      BY DEF RegistryInv, TypeOK
    <3>2. UNCHANGED reg /\ mail' = [mail EXCEPT ![l] = @ \ got]
      BY <1>5 DEF Drain
    <3> QED  BY <3>1, <3>2
  <2> QED  BY <2>1, UnchangedRegistry DEF MailOK, ThreadMailStays, RegistryInv, TypeOK
<1>6. RegistryChange /\ MailOK'
  BY <1>1, <1>2, <1>3, <1>4, <1>5
<1>7. CacheTimely' /\ PrunersTimely'
  BY <1>0, <1>6, TimelyKept
<1> QED  BY <1>0, <1>6, <1>7 DEF RegistryInv, RegistryChange, MailOK, TypeOK, ComersNameLabels

(* Panes that come, and the daemon.                                        *)
LEMMA ComersKeep ==
  \A p \in Panes :
     RegistryInv /\ (\/ RegisterSelf(p) \/ RegisterPane(p)
                     \/ ArchiveNamed(p) \/ Register(p) \/ Close(p)) => RegistryInv'
<1> SUFFICES ASSUME NEW p \in Panes, RegistryInv,
                    \/ RegisterSelf(p) \/ RegisterPane(p)
                    \/ ArchiveNamed(p) \/ Register(p) \/ Close(p)
             PROVE  RegistryInv'
  OBVIOUS
<1>0. LabelOf(p) \subseteq Labels /\ NextFree \subseteq Labels
  BY DEF LabelOf, NextFree
<1>1. ASSUME RegisterSelf(p) \/ RegisterPane(p) PROVE RegistryInv'
  <2>1. /\ UNCHANGED <<reg, mail, open, cache, cacheLock, pruner, late>>
        /\ \E pc \in {"archive", "register"}, l \in Labels :
              comer' = [comer EXCEPT ![p] = [pc |-> pc, label |-> l]]
    BY <1>0, <1>1 DEF RegisterSelf, RegisterPane, Comes, OwnOrFree
  <2>2. RegistryChange
    BY <2>1, UnchangedRegistry
  <2>3. CacheTimely' /\ PrunersTimely'
    BY <2>1, <2>2, TimelyKept
  <2>4. /\ comer' \in [Panes -> [pc : {"idle", "archive", "register"}, label : 0..MaxLabel]]
        /\ ComersNameLabels'
    BY <2>1 DEF RegistryInv, TypeOK, ComersNameLabels, Labels
  <2> QED  BY <2>1, <2>2, <2>3, <2>4 DEF RegistryInv, RegistryChange, TypeOK, ThreadMailStays
<1>2. ASSUME ArchiveNamed(p) PROVE RegistryInv'
  <2>1. /\ UNCHANGED <<reg, open, cache, cacheLock, pruner, late>>
        /\ mail' = [mail EXCEPT ![comer[p].label] = {}]
        /\ comer' = [comer EXCEPT ![p].pc = "register"]
        /\ comer[p].label \in Labels
    BY <1>2 DEF ArchiveNamed, RegistryInv, ComersNameLabels
  <2>2. RegistryChange
    BY <2>1, UnchangedRegistry
  <2>3. CacheTimely' /\ PrunersTimely'
    BY <2>1, <2>2, TimelyKept
  <2>4. /\ comer' \in [Panes -> [pc : {"idle", "archive", "register"}, label : 0..MaxLabel]]
        /\ ComersNameLabels'
    BY <2>1 DEF RegistryInv, TypeOK, ComersNameLabels
  <2>5. mail' \in [Labels -> SUBSET Owners] /\ ThreadMailStays'
    BY <2>1 DEF RegistryInv, TypeOK, ThreadMailStays
  <2> QED  BY <2>1, <2>2, <2>3, <2>4, <2>5 DEF RegistryInv, RegistryChange, TypeOK
<1>3. ASSUME Register(p) PROVE RegistryInv'
  <2> DEFINE l == comer[p].label
  <2>1. /\ UNCHANGED <<mail, open, cache, cacheLock, pruner>>
        /\ IF Refused(l, p) THEN UNCHANGED reg ELSE reg' = WithRecord(l, p)
        /\ late' \in {late, late \cup {<<l, p>>}}
        /\ comer' = [comer EXCEPT ![p] = [pc |-> "idle", label |-> 0]]
        /\ l \in Labels
    BY <1>3 DEF Register, RegistryInv, ComersNameLabels
  <2> HIDE DEF l
  <2>2. /\ RegistryChange
        /\ \A k \in Labels : reg[k].owner \in Threads => reg'[k].owner = reg[k].owner
    BY <2>1, UnchangedRegistry, PaneRegistered
  <2>3. CacheTimely' /\ PrunersTimely'
    BY <2>1, <2>2, TimelyKept
  <2>4. /\ comer' \in [Panes -> [pc : {"idle", "archive", "register"}, label : 0..MaxLabel]]
        /\ ComersNameLabels'
    BY <2>1 DEF RegistryInv, TypeOK, ComersNameLabels
  <2>5. late' \subseteq Labels \X Panes
    BY <2>1 DEF RegistryInv, TypeOK
  <2>6. ThreadMailStays'
    BY <2>1, <2>2 DEF RegistryInv, ThreadMailStays
  <2> QED  BY <2>1, <2>2, <2>3, <2>4, <2>5, <2>6 DEF RegistryInv, RegistryChange, TypeOK
<1>4. ASSUME Close(p) PROVE RegistryInv'
  <2>1. /\ UNCHANGED <<reg, mail, cache, cacheLock, pruner, late>>
        /\ open' = open \ {p}
        /\ comer' = [comer EXCEPT ![p] = [pc |-> "idle", label |-> 0]]
    BY <1>4 DEF Close
  <2>2. RegistryChange
    BY <2>1, UnchangedRegistry
  <2>3. CacheTimely' /\ PrunersTimely'
    BY <2>1, <2>2, TimelyKept
  <2>4. /\ comer' \in [Panes -> [pc : {"idle", "archive", "register"}, label : 0..MaxLabel]]
        /\ ComersNameLabels'
    BY <2>1 DEF RegistryInv, TypeOK, ComersNameLabels
  <2> QED  BY <2>1, <2>2, <2>3, <2>4 DEF RegistryInv, RegistryChange, TypeOK, ThreadMailStays
<1> QED  BY <1>1, <1>2, <1>3, <1>4

LEMMA DaemonKeeps == RegistryInv /\ DaemonRegisters => RegistryInv'
<1> SUFFICES ASSUME RegistryInv, DaemonRegisters PROVE RegistryInv'
  OBVIOUS
<1>1. PICK r \in late :
         /\ reg' = IF Refused(r[1], r[2]) THEN reg ELSE WithRecord(r[1], r[2])
         /\ late' = late \ {r}
  BY DEF DaemonRegisters
<1>2. r[1] \in Labels /\ r[2] \in Panes
  BY DEF RegistryInv, TypeOK
<1>3. /\ RegistryChange
      /\ \A k \in Labels : reg[k].owner \in Threads => reg'[k].owner = reg[k].owner
  BY <1>1, <1>2, UnchangedRegistry, PaneRegistered
<1>4. UNCHANGED <<mail, open, cache, cacheLock, pruner, comer>>
  BY DEF DaemonRegisters
<1>5. CacheTimely' /\ PrunersTimely'
  BY <1>3, <1>4, TimelyKept
<1> QED  BY <1>1, <1>3, <1>4, <1>5 DEF RegistryInv, RegistryChange, TypeOK, ThreadMailStays, ComersNameLabels

-----------------------------------------------------------------------------
(* Pruning.  PrunerStep says what a step of pruner k that leaves registry  *)
(* and mail alone may do with the set of living panes.                     *)
PrunerRecords ==
    [pc : {"idle", "refresh", "query", "prune", "archive"},
     force : BOOLEAN, sids : SUBSET Panes, age : 0..Old, removed : SUBSET Labels]

LEMMA TakesTyped ==
  ASSUME RegistryInv, NEW k \in Pruners, NEW set \in [sids : SUBSET Panes, age : 0..Old],
         pruner' = Takes(k, set),
         \A l \in Labels : reg[l].owner \in open \ set.sids => reg[l].age <= set.age,
         UNCHANGED <<reg, open>>
  PROVE  /\ pruner' \in [Pruners -> PrunerRecords]
         /\ pruner'[k].pc = "prune"
         /\ \A j \in Pruners \ {k} : pruner'[j] = pruner[j]
         /\ PrunersTimely'
<1>1. /\ pruner' \in [Pruners -> PrunerRecords]
      /\ pruner'[k].pc = "prune" /\ pruner'[k].sids = set.sids /\ pruner'[k].age = set.age
      /\ \A j \in Pruners \ {k} : pruner'[j] = pruner[j]
  <2> DEFINE r == [pc |-> "prune", force |-> FALSE, sids |-> set.sids, age |-> set.age, removed |-> {}]
  <2>1. pruner \in [Pruners -> PrunerRecords] /\ pruner' = [pruner EXCEPT ![k] = r]
    BY DEF RegistryInv, TypeOK, PrunerRecords, Takes
  <2>2. r \in PrunerRecords /\ r.pc = "prune" /\ r.sids = set.sids /\ r.age = set.age
    <3>1. set.sids \in SUBSET Panes /\ set.age \in 0..Old
      OBVIOUS
    <3> QED  BY <3>1 DEF PrunerRecords
  <2> HIDE DEF r
  <2> QED  BY <2>1, <2>2
<1> QED  BY <1>1 DEF RegistryInv, PrunersTimely

LEMMA PrunersKeep == \A k \in Pruners : RegistryInv /\ PruneStep(k) => RegistryInv'
<1> SUFFICES ASSUME NEW k \in Pruners, RegistryInv, PruneStep(k) PROVE RegistryInv'
  OBVIOUS
<1>0. /\ pruner \in [Pruners -> PrunerRecords]
      /\ cache \in [sids : SUBSET Panes, age : 0..Old]
      /\ \A j \in Pruners : cacheLock = j <=> pruner[j].pc = "query"
      /\ CacheTimely /\ PrunersTimely
  BY DEF RegistryInv, TypeOK, PrunerRecords
<1>a. ASSUME UNCHANGED <<reg, mail, open, comer, late>>,
             pruner' \in [Pruners -> PrunerRecords], PrunersTimely',
             cache' \in [sids : SUBSET Panes, age : 0..Old], CacheTimely',
             cacheLock' \in Pruners \cup {Nobody},
             \A j \in Pruners : cacheLock' = j <=> pruner'[j].pc = "query"
      PROVE  RegistryInv'
  BY <1>a DEF RegistryInv, TypeOK, PrunerRecords, KindsFit, OneLabelPerOwner, Registered,
              ThreadMailStays, ComersNameLabels
<1>1. ASSUME PruneBegin(k) PROVE RegistryInv'
  <2>1. /\ UNCHANGED <<reg, mail, open, cache, cacheLock, comer, late>>
        /\ pruner[k].pc = "idle"
        /\ \/ pruner' = Takes(k, cache)
           \/ \E force \in BOOLEAN :
                 pruner' = [pruner EXCEPT ![k].pc = "refresh", ![k].force = force]
    BY <1>1 DEF PruneBegin, At
  <2>2. /\ pruner' \in [Pruners -> PrunerRecords] /\ PrunersTimely'
        /\ pruner'[k].pc \in {"prune", "refresh"}
        /\ \A j \in Pruners \ {k} : pruner'[j] = pruner[j]
    <3>1. CASE pruner' = Takes(k, cache)
      BY <1>0, <2>1, <3>1, TakesTyped DEF CacheTimely
    <3>2. CASE \E force \in BOOLEAN :
                  pruner' = [pruner EXCEPT ![k].pc = "refresh", ![k].force = force]
      <4>1. /\ pruner' \in [Pruners -> PrunerRecords] /\ pruner'[k].pc = "refresh"
            /\ \A j \in Pruners \ {k} : pruner'[j] = pruner[j]
        <5>1. PICK force \in BOOLEAN :
                 pruner' = [pruner EXCEPT ![k].pc = "refresh", ![k].force = force]
          BY <3>2
        <5> DEFINE r == [pruner[k] EXCEPT !.pc = "refresh", !.force = force]
        <5>2. pruner' = [pruner EXCEPT ![k] = r]
          BY <1>0, <5>1
        <5>3. r \in PrunerRecords /\ r.pc = "refresh"
          BY <1>0 DEF PrunerRecords
        <5> HIDE DEF r
        <5> QED  BY <1>0, <5>2, <5>3
      <4> QED  BY <1>0, <2>1, <4>1 DEF PrunersTimely
    <3> QED  BY <2>1, <3>1, <3>2
  <2> QED  BY <1>0, <1>a, <2>1, <2>2 DEF CacheTimely, RegistryInv, TypeOK
<1>2. ASSUME PruneLock(k) PROVE RegistryInv'
  <2>1. /\ UNCHANGED <<reg, mail, open, cache, comer, late>>
        /\ pruner[k].pc = "refresh"
    BY <1>2 DEF PruneLock, At
  <2>2. ASSUME pruner' = Takes(k, cache), UNCHANGED cacheLock PROVE RegistryInv'
    <3>1. /\ pruner' \in [Pruners -> PrunerRecords] /\ PrunersTimely' /\ pruner'[k].pc = "prune"
          /\ \A j \in Pruners \ {k} : pruner'[j] = pruner[j]
      BY <1>0, <2>1, <2>2, TakesTyped DEF CacheTimely
    <3> QED  BY <1>0, <1>a, <2>1, <2>2, <3>1 DEF CacheTimely, RegistryInv, TypeOK
  <2>3. ASSUME cacheLock = Nobody, cacheLock' = k,
               pruner' = [pruner EXCEPT ![k].pc = "query", ![k].force = FALSE]
        PROVE  RegistryInv'
    <3>1. /\ pruner' \in [Pruners -> PrunerRecords] /\ pruner'[k].pc = "query"
          /\ \A j \in Pruners \ {k} : pruner'[j] = pruner[j]
      <4> DEFINE r == [pruner[k] EXCEPT !.pc = "query", !.force = FALSE]
      <4>1. pruner' = [pruner EXCEPT ![k] = r]
        BY <1>0, <2>3
      <4>2. r \in PrunerRecords /\ r.pc = "query"
        BY <1>0 DEF PrunerRecords
      <4> HIDE DEF r
      <4> QED  BY <1>0, <4>1, <4>2
    <3>2. PrunersTimely'
      BY <1>0, <2>1, <3>1 DEF PrunersTimely
    <3>3. \A j \in Pruners : pruner[j].pc # "query"
      BY <1>0, <2>3
    <3> QED  BY <1>0, <1>a, <2>1, <2>3, <3>1, <3>2, <3>3 DEF CacheTimely
  <2> QED  BY <1>2, <2>2, <2>3 DEF PruneLock
<1>3. ASSUME PruneQuery(k) PROVE RegistryInv'
  <2>1. /\ UNCHANGED <<reg, mail, open, comer, late>>
        /\ pruner[k].pc = "query" /\ cacheLock' = Nobody
        /\ pruner' = Takes(k, cache')
    BY <1>3 DEF PruneQuery, At, Takes
  <2>2. /\ cache' \in [sids : SUBSET Panes, age : 0..Old]
        /\ \A l \in Labels : reg[l].owner \in open \ cache'.sids => reg[l].age <= cache'.age
    <3>1. CASE UNCHANGED cache
      BY <1>0, <3>1 DEF CacheTimely
    <3>2. CASE \E sids \in SUBSET open :
                  /\ \A l \in Labels : reg[l].owner \in open \ sids => reg[l].age = 0
                  /\ cache' = [sids |-> sids, age |-> 0]
      BY <3>2 DEF Old, RegistryInv, TypeOK
    <3> QED  BY <1>3, <3>1, <3>2 DEF PruneQuery
  <2>3. /\ pruner' \in [Pruners -> PrunerRecords] /\ PrunersTimely' /\ pruner'[k].pc = "prune"
        /\ \A j \in Pruners \ {k} : pruner'[j] = pruner[j]
    BY <2>1, <2>2, TakesTyped
  <2>4. CacheTimely'
    BY <2>1, <2>2 DEF CacheTimely
  <2>5. \A j \in Pruners \ {k} : pruner[j].pc # "query"
    BY <1>0, <2>1
  <2> QED  BY <1>0, <1>a, <2>1, <2>2, <2>3, <2>4, <2>5
<1>4. ASSUME Prune(k) PROVE RegistryInv'
  <2>1. PICK gone \in SUBSET Labels :
          /\ \A l \in gone : reg[l].kind \in {"pane", "channel"}
          /\ reg' = [l \in Labels |-> IF l \in gone THEN NoRecord ELSE reg[l]]
          /\ pruner' = [pruner EXCEPT ![k] = [pc |-> IF gone = {} THEN "idle" ELSE "archive",
                                              force |-> FALSE, sids |-> {}, age |-> 0,
                                              removed |-> gone]]
    BY <1>4 DEF Prune, Dead, Prunable
  <2>2. UNCHANGED <<mail, open, cache, cacheLock, comer, late>> /\ pruner[k].pc = "prune"
    BY <1>4 DEF Prune, At
  <2>3. /\ reg' \in [Labels -> Records]
        /\ \A l \in Labels : reg'[l] = reg[l] \/ (reg'[l] = NoRecord /\ reg[l].kind \in {"pane", "channel"})
    BY <2>1, RecordTyped DEF RegistryInv, TypeOK
  <2>4. KindsFit' /\ OneLabelPerOwner'
    BY <2>3, RecordTyped, NoRecordFits
       DEF RegistryInv, KindsFit, OwnerFits, OneLabelPerOwner, Registered
  <2>5. ThreadMailStays'
    BY <2>2, <2>3 DEF RegistryInv, ThreadMailStays, KindsFit, OwnerFits
  <2>6. /\ pruner' \in [Pruners -> PrunerRecords] /\ pruner'[k].pc \in {"idle", "archive"}
        /\ \A j \in Pruners \ {k} : pruner'[j] = pruner[j]
    BY <1>0, <2>1 DEF PrunerRecords, Old
  <2>7. CacheTimely' /\ PrunersTimely'
    <3>1. \A l \in Labels : reg'[l].owner \in Panes => reg'[l] = reg[l]
      BY <2>3, RecordTyped
    <3> QED  BY <1>0, <2>2, <2>6, <3>1 DEF CacheTimely, PrunersTimely, RegistryInv, TypeOK
  <2> QED  BY <1>0, <2>2, <2>3, <2>4, <2>5, <2>6, <2>7
           DEF RegistryInv, TypeOK, ComersNameLabels, PrunerRecords
<1>5. ASSUME PruneArchive(k) PROVE RegistryInv'
  <2>1. /\ UNCHANGED <<reg, open, cache, cacheLock, comer, late>> /\ pruner[k].pc = "archive"
        /\ \E l \in Labels : mail' = [mail EXCEPT ![l] = {}]
    BY <1>0, <1>5 DEF PruneArchive, At, PrunerRecords
  <2>2. /\ pruner' \in [Pruners -> PrunerRecords] /\ pruner'[k].pc \in {"idle", "archive"}
        /\ \A j \in Pruners \ {k} : pruner'[j] = pruner[j]
    <3>1. PICK l \in Labels :
             pruner' = [pruner EXCEPT ![k].removed = @ \ {l},
                                      ![k].pc = IF @ = "archive" /\ pruner[k].removed = {l}
                                                THEN "idle" ELSE @]
      BY <1>0, <1>5 DEF PruneArchive, PrunerRecords
    <3> DEFINE next == IF pruner[k].removed = {l} THEN "idle" ELSE "archive"
               r == [pruner[k] EXCEPT !.removed = @ \ {l}, !.pc = next]
    <3>2. pruner' = [pruner EXCEPT ![k] = r]
      BY <1>0, <2>1, <3>1
    <3>3. r \in PrunerRecords /\ r.pc \in {"idle", "archive"}
      BY <1>0 DEF PrunerRecords
    <3> HIDE DEF r
    <3> QED  BY <1>0, <3>2, <3>3
  <2>3. RegistryChange
    BY <2>1, UnchangedRegistry
  <2>4. CacheTimely' /\ PrunersTimely'
    BY <1>0, <2>1, <2>2 DEF CacheTimely, PrunersTimely
  <2>5. mail' \in [Labels -> SUBSET Owners] /\ ThreadMailStays'
    BY <2>1 DEF RegistryInv, TypeOK, ThreadMailStays
  <2> QED  BY <1>0, <2>1, <2>2, <2>3, <2>4, <2>5
           DEF RegistryInv, RegistryChange, TypeOK, ComersNameLabels, PrunerRecords
<1> QED  BY <1>1, <1>2, <1>3, <1>4, <1>5 DEF PruneStep

(* Records and the cached set age together; no set is in use meanwhile.    *)
LEMMA TickKeeps == RegistryInv /\ Tick => RegistryInv'
<1> SUFFICES ASSUME RegistryInv, Tick PROVE RegistryInv'
  OBVIOUS
<1>1. /\ UNCHANGED <<mail, open, cacheLock, pruner, comer, late>>
      /\ \A k \in Pruners : pruner[k].pc # "prune"
      /\ cache' = [cache EXCEPT !.age = Older(@)]
      /\ reg' = [l \in Labels |->
                    IF Prunable(l) THEN [reg[l] EXCEPT !.age = Older(@)] ELSE reg[l]]
  BY DEF Tick
<1>2. \A l \in Labels :
         /\ reg'[l] \in Records /\ reg'[l].kind = reg[l].kind /\ reg'[l].owner = reg[l].owner
         /\ Prunable(l) => reg'[l].age = Older(reg[l].age)
         /\ reg[l].age \in 0..2
  BY <1>1 DEF RegistryInv, TypeOK, Records, Prunable, Older, Old
<1>3. /\ cache' \in [sids : SUBSET Panes, age : 0..Old]
      /\ cache'.sids = cache.sids /\ cache'.age = Older(cache.age) /\ cache.age \in 0..2
  BY <1>1 DEF RegistryInv, TypeOK, Older, Old
<1>4. reg' \in [Labels -> Records]
  BY <1>1, <1>2
<1>5. KindsFit' /\ OneLabelPerOwner' /\ ThreadMailStays'
  BY <1>1, <1>2 DEF RegistryInv, KindsFit, OwnerFits, OneLabelPerOwner, Registered, ThreadMailStays
<1>6. \A m, n \in 0..2 : m <= n => Older(m) <= Older(n)
  BY DEF Older, Old
<1>7. CacheTimely'
  <2>1. \A l \in Labels : reg[l].owner \in open => Prunable(l)
    BY RecordTyped DEF RegistryInv, KindsFit, OwnerFits, TypeOK, Prunable
  <2> SUFFICES ASSUME NEW l \in Labels, reg'[l].owner \in open' \ cache'.sids
               PROVE  reg'[l].age <= cache'.age
    BY DEF CacheTimely
  <2>2. reg[l].owner \in open \ cache.sids
    BY <1>1, <1>2, <1>3
  <2>3. reg[l].age <= cache.age
    BY <2>2 DEF RegistryInv, CacheTimely
  <2>4. reg'[l].age = Older(reg[l].age) /\ cache'.age = Older(cache.age)
    BY <1>2, <1>3, <2>1, <2>2
  <2> QED  BY <1>2, <1>3, <1>6, <2>3, <2>4
<1>8. PrunersTimely'
  BY <1>1 DEF PrunersTimely
<1> QED  BY <1>1, <1>3, <1>4, <1>5, <1>7, <1>8 DEF RegistryInv, TypeOK, ComersNameLabels

(* The inductive invariant.                                                *)
THEOREM RegistryInvariant == Spec => []RegistryInv
<1>1. RegistryInv /\ [Next]_vars => RegistryInv'
  <2> SUFFICES ASSUME RegistryInv, [Next]_vars PROVE RegistryInv'
    OBVIOUS
  <2>1. CASE UNCHANGED vars
    BY <2>1 DEF vars, RegistryInv, TypeOK, KindsFit, OneLabelPerOwner, Registered, ThreadMailStays,
                ComersNameLabels, CacheTimely, PrunersTimely
  <2>2. CASE Next
    BY <2>2, OperationsKeep, ComersKeep, DaemonKeeps, PrunersKeep, TickKeeps DEF Next
  <2> QED  BY <2>1, <2>2
<1> QED  BY RegistryInit, <1>1, PTL DEF Spec

(* Every variable holds what the code can put there.                       *)
THEOREM PaneRegistryTypeCorrect == Spec => []TypeOK
<1>1. RegistryInv => TypeOK
  BY DEF RegistryInv
<1> QED  BY <1>1, RegistryInvariant, PTL

(* A pane or thread has one label ("two labels share one iTerm session and *)
(* the drain hook routes messages to the wrong one" does not happen).      *)
THEOREM OwnersHaveOneLabel == Spec => []OneLabelPerOwner
<1>1. RegistryInv => OneLabelPerOwner
  BY DEF RegistryInv
<1> QED  BY <1>1, RegistryInvariant, PTL

(* Mail to a thread lies under the thread's address or not at all.         *)
THEOREM ThreadMailNeverStrays == Spec => []ThreadMailStays
<1>1. RegistryInv => ThreadMailStays
  BY DEF RegistryInv
<1> QED  BY <1>1, RegistryInvariant, PTL

(* The label of a mailbox or a connected channel goes to another owner     *)
(* only after it was free (unregister, prune_dead, or its pane took        *)
(* another one).                                                           *)
OwnerKeepsLabel ==
    [][\A l \in Labels : reg[l].kind \in {"mailbox", "channel"}
           => reg'[l].owner \in {reg[l].owner, Nobody}]_vars

(* The label of a mailbox or a connected channel is not given to another   *)
(* owner before it was free.                                               *)
THEOREM LabelsAreKept == Spec => OwnerKeepsLabel
<1>1. RegistryInv /\ [Next]_vars =>
        [\A l \in Labels : reg[l].kind \in {"mailbox", "channel"}
             => reg'[l].owner \in {reg[l].owner, Nobody}]_vars
  <2> SUFFICES ASSUME RegistryInv, Next, NEW l \in Labels, reg[l].kind \in {"mailbox", "channel"}
               PROVE  reg'[l].owner \in {reg[l].owner, Nobody}
    BY DEF vars
  <2>0. reg \in [Labels -> Records] /\ OwnerFits(reg[l]) /\ Registered(l)
    BY DEF RegistryInv, TypeOK, KindsFit, Registered
  <2>1. CASE UNCHANGED reg
    BY <2>1
  <2>2. ASSUME NEW p \in Panes, NEW k \in Labels, ~Refused(k, p), reg' = WithRecord(k, p)
        PROVE  reg'[l].owner \in {reg[l].owner, Nobody}
    BY <2>2, RecordTyped DEF Refused, WithRecord
  <2>3. CASE \E p \in Panes : Register(p)
    <3>1. PICK p \in Panes : Register(p)
      BY <2>3
    <3>2. comer[p].label \in Labels
      BY <3>1 DEF Register, RegistryInv, ComersNameLabels
    <3> QED  BY <2>2, <3>1, <3>2 DEF Register
  <2>4. CASE DaemonRegisters
    <3>1. PICK r \in late : reg' = IF Refused(r[1], r[2]) THEN reg ELSE WithRecord(r[1], r[2])
      BY <2>4 DEF DaemonRegisters
    <3>2. r[1] \in Labels /\ r[2] \in Panes
      BY DEF RegistryInv, TypeOK
    <3> QED  BY <2>2, <3>1, <3>2
  <2>5. CASE \E k \in Labels : ConnectChannel(k) \/ Unregister(k) \/ \E t \in Threads : RegisterMailbox(t, k)
    BY <2>0, <2>5, RecordTyped DEF ConnectChannel, Unregister, RegisterMailbox, Registered
  <2>6. CASE \E k \in Pruners : Prune(k)
    BY <2>6, RecordTyped DEF Prune
  <2>7. CASE Tick
    BY <2>0, <2>7 DEF Tick, Records
  <2> QED  BY <2>1, <2>3, <2>4, <2>5, <2>6, <2>7
           DEF Next, PruneStep, RegisterSelf, RegisterPane, Comes, ArchiveNamed, Close,
               Ask, Drain, PruneBegin, PruneLock, PruneQuery, PruneArchive
<1> QED  BY <1>1, RegistryInvariant, PTL DEF Spec, OwnerKeepsLabel

(* "Pane open -> label kept" (registry.prune_dead), with a set of living   *)
(* panes that is younger than the grace period.                            *)
THEOREM LivePanesAreNotPruned == Spec => LivePaneKeepsLabel
<1>1. RegistryInv /\ [Next]_vars =>
        [\A k \in Pruners :
            pruner[k].pc = "prune" /\ pruner'[k].pc # "prune" /\ pruner[k].age < Old
                => \A l \in Labels : reg[l].owner \in open => reg'[l] = reg[l]]_vars
  <2> SUFFICES ASSUME RegistryInv, Next, NEW k \in Pruners, NEW l \in Labels,
                      pruner[k].pc = "prune", pruner'[k].pc # "prune", pruner[k].age < Old,
                      reg[l].owner \in open
               PROVE  reg'[l] = reg[l]
    BY DEF vars
  <2>1. Prune(k)
    <3>1. PICK j \in Pruners : PruneStep(j)
      BY DEF Next, RegisterSelf, RegisterPane, Comes, ArchiveNamed, Register, Close,
             RegisterMailbox, ConnectChannel, Unregister, Ask, Drain, DaemonRegisters, Tick
    <3>2. \A i \in Pruners \ {j} : pruner'[i] = pruner[i]
      BY <3>1 DEF PruneStep, PruneBegin, PruneLock, PruneQuery, Prune, PruneArchive, Takes,
                  RegistryInv, TypeOK
    <3>3. j = k
      BY <3>2
    <3> QED  BY <3>1, <3>3 DEF PruneStep, PruneBegin, PruneLock, PruneQuery, PruneArchive, At
  <2>2. ~Dead(l, pruner[k].sids)
    BY DEF RegistryInv, PrunersTimely, Dead, Old, TypeOK
  <2> QED  BY <2>1, <2>2 DEF Prune
<1> QED  BY <1>1, RegistryInvariant, PTL DEF Spec, LivePaneKeepsLabel

-----------------------------------------------------------------------------
(* The contract about addresses.                                           *)

(* Steps that leave owners, kinds and mail are no steps of the contract;   *)
(* those that only archive a mailbox are one.                              *)
LEMMA AddressStutters ==
  ASSUME UNCHANGED mail, \A l \in Labels : reg'[l].owner = reg[l].owner /\ reg'[l].kind = reg[l].kind
  PROVE  UNCHANGED Contract!contractVars
  BY DEF Contract!contractVars

LEMMA AddressArchive ==
  ASSUME UNCHANGED reg, NEW l \in Labels, mail' = [mail EXCEPT ![l] = {}]
  PROVE  Contract!Next
<1>1. Contract!Archive(l)
  BY DEF Contract!Archive
<1> QED  BY <1>1 DEF Contract!Next

(* A label that is not refused is taken.                                   *)
LEMMA AddressTaken ==
  ASSUME RegistryInv, NEW l \in Labels, NEW p \in Panes, ~Refused(l, p), reg' = WithRecord(l, p),
         UNCHANGED mail
  PROVE  Contract!Next
<1>1. p \in Owners /\ p \notin Threads /\ p # Nobody
  BY DEF Owners
<1>2. /\ reg'[l].owner = p
      /\ reg'[l].kind = IF reg[l].owner = p THEN reg[l].kind ELSE "pane"
      /\ \A k \in Labels \ {l} : reg'[k] = IF reg[k].owner = p THEN NoRecord ELSE reg[k]
  BY DEF WithRecord
<1>3. \A k \in Labels : reg'[k].owner = IF k = l THEN p ELSE IF reg[k].owner = p THEN Nobody ELSE reg[k].owner
  BY <1>2, RecordTyped
<1>4. \A k \in Labels :
         reg'[k].kind \in {"mailbox", "channel"}
            <=> reg[k].kind \in {"mailbox", "channel"} /\ reg'[k].owner = reg[k].owner
  <2> SUFFICES ASSUME NEW k \in Labels
               PROVE  reg'[k].kind \in {"mailbox", "channel"}
                        <=> reg[k].kind \in {"mailbox", "channel"} /\ reg'[k].owner = reg[k].owner
    OBVIOUS
  <2>1. CASE k = l
    BY <1>2, <2>1 DEF Refused
  <2>2. CASE k # l /\ reg[k].owner = p
    BY <1>1, <1>2, <2>2, RecordTyped
  <2>3. CASE k # l /\ reg[k].owner # p
    BY <1>2, <2>3
  <2> QED  BY <2>1, <2>2, <2>3
<1>5. Contract!Take(l, p)
  <2>1. reg[l].kind \in {"mailbox", "channel"} => reg[l].owner = p
    BY DEF Refused
  <2> QED  BY <1>1, <1>3, <1>4, <2>1 DEF Contract!Take
<1> QED  BY <1>1, <1>5 DEF Contract!Next

LEMMA AddressOperations ==
  ASSUME RegistryInv, NEW l \in Labels,
         \/ \E t \in Threads : RegisterMailbox(t, l)
         \/ ConnectChannel(l) \/ Unregister(l) \/ Ask(l) \/ Drain(l)
  PROVE  Contract!Next
<1>0. /\ reg \in [Labels -> Records] /\ mail \in [Labels -> SUBSET Owners]
      /\ \A k \in Labels : OwnerFits(reg[k])
  BY DEF RegistryInv, TypeOK, KindsFit
<1>1. ASSUME NEW t \in Threads, RegisterMailbox(t, l) PROVE Contract!Next
  <2>1. /\ \A k \in Labels \ {l} : reg[k].owner # t
        /\ reg[l].kind # "none" => reg[l].owner = t
        /\ reg'[l].kind = "mailbox" /\ reg'[l].owner = t
        /\ \A k \in Labels \ {l} : reg'[k] = reg[k]
        /\ UNCHANGED mail
    BY <1>0, <1>1 DEF RegisterMailbox, Registered
  <2>2. Contract!Take(l, t)
    BY <2>1 DEF Contract!Take
  <2>3. t \in Owners
    BY DEF Owners
  <2> QED  BY <2>2, <2>3 DEF Contract!Next
<1>2. CASE ConnectChannel(l)
  <2>1. /\ reg[l].owner # Nobody /\ reg'[l].kind = "channel" /\ reg'[l].owner = reg[l].owner
        /\ \A k \in Labels \ {l} : reg'[k] = reg[k]
        /\ UNCHANGED mail
    BY <1>0, <1>2 DEF ConnectChannel, OwnerFits, Records
  <2>2. Contract!Keep(l)
    BY <2>1 DEF Contract!Keep
  <2> QED  BY <2>2 DEF Contract!Next
<1>3. CASE Unregister(l)
  <2>1. \E e \in SUBSET {l} :
           /\ reg[l].owner \in Threads => l \in e
           /\ mail' = [k \in Labels |-> IF k \in e THEN {} ELSE mail[k]]
    <3>1. CASE reg[l].kind = "pane"
      BY <1>0, <1>3, <3>1 DEF Unregister, OwnerFits
    <3>2. CASE reg[l].kind # "pane"
      <4>1. mail' = [k \in Labels |-> IF k \in {l} THEN {} ELSE mail[k]]
        BY <1>0, <1>3, <3>2 DEF Unregister
      <4> QED  BY <4>1
    <3> QED  BY <3>1, <3>2
  <2>2. PICK e \in SUBSET {l} :
           /\ reg[l].owner \in Threads => l \in e
           /\ mail' = [k \in Labels |-> IF k \in e THEN {} ELSE mail[k]]
    BY <2>1
  <2>3. reg'[l] = NoRecord /\ \A k \in Labels \ {l} : reg'[k] = reg[k]
    BY <1>0, <1>3 DEF Unregister
  <2>4. Contract!Free({l}, e)
    BY <2>2, <2>3, RecordTyped DEF Contract!Free
  <2> QED  BY <2>4 DEF Contract!Next
<1>4. CASE Ask(l)
  <2>1. reg[l].owner # Nobody
    BY <1>0, <1>4 DEF Ask, Registered, OwnerFits
  <2>2. Contract!Send(l)
    BY <1>4, <2>1 DEF Ask, Contract!Send
  <2> QED  BY <2>2 DEF Contract!Next
<1>5. CASE Drain(l)
  <2>1. reg[l].owner # Nobody
    BY <1>0, <1>5 DEF Drain, Registered, OwnerFits
  <2>2. mail' = [mail EXCEPT ![l] = IF reg[l].owner \in Threads THEN @ \ {reg[l].owner} ELSE {}]
    BY <1>0, <1>5 DEF Drain
  <2>3. Contract!Receive(l)
    BY <1>5, <2>1, <2>2 DEF Drain, Contract!Receive
  <2> QED  BY <2>3 DEF Contract!Next
<1> QED  BY <1>1, <1>2, <1>3, <1>4, <1>5

LEMMA AddressComers ==
  ASSUME RegistryInv, NEW p \in Panes,
         \/ RegisterSelf(p) \/ RegisterPane(p)
         \/ ArchiveNamed(p) \/ Register(p) \/ Close(p)
  PROVE  Contract!Next \/ UNCHANGED Contract!contractVars
<1>1. CASE RegisterSelf(p) \/ RegisterPane(p) \/ Close(p)
  BY <1>1, AddressStutters DEF RegisterSelf, RegisterPane, Comes, Close
<1>2. CASE ArchiveNamed(p)
  BY <1>2, AddressArchive DEF ArchiveNamed, RegistryInv, ComersNameLabels
<1>3. CASE Register(p)
  <2>1. comer[p].label \in Labels
    BY <1>3 DEF Register, RegistryInv, ComersNameLabels
  <2>2. UNCHANGED mail /\ (UNCHANGED reg \/ (/\ ~Refused(comer[p].label, p)
                                             /\ reg' = WithRecord(comer[p].label, p)))
    BY <1>3 DEF Register
  <2> QED  BY <2>1, <2>2, AddressStutters, AddressTaken
<1> QED  BY <1>1, <1>2, <1>3

LEMMA AddressDaemon ==
  ASSUME RegistryInv, DaemonRegisters
  PROVE  Contract!Next \/ UNCHANGED Contract!contractVars
<1>1. PICK r \in late : reg' = IF Refused(r[1], r[2]) THEN reg ELSE WithRecord(r[1], r[2])
  BY DEF DaemonRegisters
<1>2. r[1] \in Labels /\ r[2] \in Panes
  BY DEF RegistryInv, TypeOK
<1>3. UNCHANGED mail
  BY DEF DaemonRegisters
<1> QED  BY <1>1, <1>2, <1>3, AddressStutters, AddressTaken

LEMMA AddressPruners ==
  ASSUME RegistryInv, NEW k \in Pruners, PruneStep(k)
  PROVE  Contract!Next \/ UNCHANGED Contract!contractVars
<1>1. CASE PruneBegin(k) \/ PruneLock(k) \/ PruneQuery(k)
  BY <1>1, AddressStutters DEF PruneBegin, PruneLock, PruneQuery
<1>2. CASE Prune(k)
  <2>1. PICK gone \in SUBSET Labels :
          /\ \A l \in gone : Prunable(l)
          /\ reg' = [l \in Labels |-> IF l \in gone THEN NoRecord ELSE reg[l]]
    BY <1>2 DEF Prune, Dead
  <2>2. \A l \in gone : reg[l].owner \notin Threads
    BY <2>1 DEF RegistryInv, KindsFit, OwnerFits, Prunable
  <2>3. UNCHANGED mail /\ mail = [l \in Labels |-> mail[l]]
    BY <1>2 DEF Prune, RegistryInv, TypeOK
  <2>4. /\ \A l \in gone : reg'[l].owner = Nobody /\ reg'[l].kind = "none"
        /\ \A l \in Labels \ gone : reg'[l] = reg[l]
    BY <2>1, RecordTyped
  <2>5. Contract!Free(gone, {})
    BY <2>2, <2>3, <2>4 DEF Contract!Free
  <2> QED  BY <2>5 DEF Contract!Next
<1>3. CASE PruneArchive(k)
  <2>1. UNCHANGED reg /\ \E l \in Labels : mail' = [mail EXCEPT ![l] = {}]
    BY <1>3 DEF PruneArchive, RegistryInv, TypeOK
  <2> QED  BY <2>1, AddressArchive
<1> QED  BY <1>1, <1>2, <1>3 DEF PruneStep

LEMMA AddressTick ==
  ASSUME RegistryInv, Tick
  PROVE  UNCHANGED Contract!contractVars
<1>1. \A l \in Labels : reg'[l].owner = reg[l].owner /\ reg'[l].kind = reg[l].kind
  BY DEF Tick, RegistryInv, TypeOK, Records
<1> QED  BY <1>1, AddressStutters DEF Tick

(* Whichever processes register, early or late, connect, unregister and    *)
(* prune: the registry keeps its promise about addresses.                  *)
THEOREM RegistryKeepsContract == Spec => ImplementsAddressContract
<1>1. Init => Contract!Init
  BY RecordTyped DEF Init, Contract!Init
<1>2. RegistryInv /\ [Next]_vars => [Contract!Next]_(Contract!contractVars)
  <2> SUFFICES ASSUME RegistryInv, [Next]_vars
               PROVE  Contract!Next \/ UNCHANGED Contract!contractVars
    OBVIOUS
  <2>1. CASE UNCHANGED vars
    BY <2>1, AddressStutters DEF vars
  <2>2. CASE Next
    BY <2>2, AddressOperations, AddressComers, AddressDaemon, AddressPruners, AddressTick DEF Next
  <2> QED  BY <2>1, <2>2
<1> QED  BY <1>1, <1>2, RegistryInvariant, PTL DEF Spec, ImplementsAddressContract, Contract!Spec

(* AddressesSound, of the variables of this module.                        *)
KeptLabels == {l \in Labels : reg[l].kind \in {"mailbox", "channel"}}

SoundNow ==
  /\ \A l \in Labels : reg[l].owner \in Owners \cup {Nobody}
  /\ mail \in [Labels -> SUBSET Owners]
  /\ \A l \in KeptLabels : reg[l].owner # Nobody
  /\ \A l \in Labels : reg[l].owner \in Threads => l \in KeptLabels
  /\ \A l, m \in Labels : reg[l].owner = reg[m].owner /\ reg[l].owner # Nobody => l = m
  /\ \A l \in Labels : \A o \in mail[l] \cap Threads : reg[l].owner = o

(* What the contract is worth: whoever keeps it has one address for every  *)
(* agent, mail to an agent that lasts only under that agent's address, and *)
(* gives no kept address to another before it was freed.                   *)
THEOREM ContractKeepsAddresses ==
  Contract!Spec => []Contract!AddressesSound /\ Contract!AddressesKept
<1>0. Threads \subseteq Owners /\ Nobody \notin Owners
  BY DEF Owners
<1>1. Contract!Init => SoundNow
  BY DEF Contract!Init, SoundNow, KeptLabels
<1>2. SoundNow /\ [Contract!Next]_(Contract!contractVars)
         => SoundNow'
  <2> SUFFICES ASSUME SoundNow, [Contract!Next]_(Contract!contractVars)
               PROVE  SoundNow'
    OBVIOUS
  <2>1. CASE UNCHANGED Contract!contractVars
    BY <2>1 DEF Contract!contractVars, SoundNow, KeptLabels
  <2>2. ASSUME NEW l \in Labels, NEW o \in Owners, Contract!Take(l, o)
        PROVE  SoundNow'
    <3>1. /\ l \in KeptLabels => reg[l].owner = o
          /\ o \in Threads => \A m \in Labels \ {l} : reg[m].owner # o
          /\ \A m \in Labels : reg'[m].owner = IF m = l THEN o
                                  ELSE IF reg[m].owner = o THEN Nobody ELSE reg[m].owner
          /\ \A m \in Labels : m \in KeptLabels'
                <=> \/ m \in KeptLabels /\ reg'[m].owner = reg[m].owner
                    \/ o \in Threads /\ m = l
          /\ UNCHANGED mail
      BY <2>2 DEF Contract!Take, KeptLabels
    <3>2. \A m, n \in Labels : reg'[m].owner = reg'[n].owner /\ reg'[m].owner # Nobody => m = n
      BY <1>0, <3>1 DEF SoundNow
    <3>3. \A m \in Labels : reg'[m].owner \in Threads => m \in KeptLabels'
      BY <1>0, <3>1 DEF SoundNow
    <3>4. \A m \in KeptLabels' : reg'[m].owner # Nobody
      BY <1>0, <3>1 DEF SoundNow, KeptLabels
    <3>5. \A m \in Labels : \A u \in mail'[m] \cap Threads : reg'[m].owner = u
      BY <1>0, <3>1 DEF SoundNow
    <3> QED  BY <1>0, <3>1, <3>2, <3>3, <3>4, <3>5 DEF SoundNow
  <2>3. ASSUME NEW l \in Labels, Contract!Keep(l) PROVE SoundNow'
    BY <2>3 DEF Contract!Keep, SoundNow, KeptLabels
  <2>4. ASSUME NEW l \in Labels, Contract!Send(l) PROVE SoundNow'
    BY <2>4 DEF Contract!Send, SoundNow, KeptLabels
  <2>5. ASSUME NEW l \in Labels, Contract!Receive(l) PROVE SoundNow'
    BY <2>5 DEF Contract!Receive, SoundNow, KeptLabels
  <2>6. ASSUME NEW l \in Labels, Contract!Archive(l) PROVE SoundNow'
    BY <2>6 DEF Contract!Archive, SoundNow, KeptLabels
  <2>7. ASSUME NEW S \in SUBSET Labels, NEW archived \in SUBSET S, Contract!Free(S, archived)
        PROVE  SoundNow'
    <3>1. /\ \A m \in S : reg[m].owner \in Threads => m \in archived
          /\ \A m \in Labels : reg'[m].owner = IF m \in S THEN Nobody ELSE reg[m].owner
          /\ \A m \in Labels : m \in KeptLabels' <=> m \in KeptLabels /\ m \notin S
          /\ mail' = [m \in Labels |-> IF m \in archived THEN {} ELSE mail[m]]
      BY <2>7 DEF Contract!Free, KeptLabels
    <3>2. mail' \in [Labels -> SUBSET Owners]
      BY <3>1 DEF SoundNow
    <3>3. \A m \in Labels : \A u \in mail'[m] \cap Threads : reg'[m].owner = u
      BY <1>0, <3>1 DEF SoundNow
    <3> QED  BY <1>0, <3>1, <3>2, <3>3 DEF SoundNow, KeptLabels
  <2> QED  BY <2>1, <2>2, <2>3, <2>4, <2>5, <2>6, <2>7 DEF Contract!Next
<1>3. SoundNow /\ [Contract!Next]_(Contract!contractVars)
         => [\A l \in KeptLabels : reg'[l].owner \in {reg[l].owner, Nobody}]_(Contract!contractVars)
  <2> SUFFICES ASSUME SoundNow, Contract!Next, NEW k \in KeptLabels
               PROVE  reg'[k].owner \in {reg[k].owner, Nobody}
    OBVIOUS
  <2>0. k \in Labels
    BY DEF KeptLabels
  <2>1. ASSUME NEW l \in Labels, NEW o \in Owners, Contract!Take(l, o)
        PROVE  reg'[k].owner \in {reg[k].owner, Nobody}
    BY <2>0, <2>1 DEF Contract!Take, KeptLabels
  <2>2. ASSUME NEW l \in Labels,
               Contract!Keep(l) \/ Contract!Send(l) \/ Contract!Receive(l) \/ Contract!Archive(l)
        PROVE  reg'[k].owner \in {reg[k].owner, Nobody}
    BY <2>0, <2>2 DEF Contract!Keep, Contract!Send, Contract!Receive, Contract!Archive
  <2>3. ASSUME NEW S \in SUBSET Labels, NEW archived \in SUBSET S, Contract!Free(S, archived)
        PROVE  reg'[k].owner \in {reg[k].owner, Nobody}
    BY <2>0, <2>3 DEF Contract!Free
  <2> QED  BY <2>1, <2>2, <2>3 DEF Contract!Next
<1>4. SoundNow <=> Contract!AddressesSound
  BY DEF SoundNow, KeptLabels, Contract!AddressesSound
<1>5. Contract!Spec => [][\A l \in KeptLabels : reg'[l].owner \in {reg[l].owner, Nobody}]_(Contract!contractVars)
  BY <1>1, <1>2, <1>3, PTL DEF Contract!Spec
<1>6. (\A l \in KeptLabels : reg'[l].owner \in {reg[l].owner, Nobody})
         => Contract!KeptStep
  BY DEF KeptLabels, Contract!KeptStep
<1> QED  BY <1>1, <1>2, <1>4, <1>5, <1>6, PTL DEF Contract!Spec, Contract!AddressesKept
=============================================================================
