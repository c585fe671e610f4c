--------------------------- MODULE AdaptersProofs ---------------------------
(***************************************************************************)
(* The adapters and the client.  No request file is run twice, lost or     *)
(* left without the answer a run has reported, for any number of adapter   *)
(* processes and request files, any names and limits, and whatever runs    *)
(* fail or die.  Every line read from stdin is answered once and in order, *)
(* and what adapters accept agrees with what the gateway is told.  The     *)
(* client negotiates the interface liked best, reports exchanges truly and *)
(* delivers the events of a stream of any length as they were sent.        *)
(***************************************************************************)
EXTENDS FileDrop, AdapterPorts, A2aClient, FiniteSetTheorems, SequenceTheorems, WellFoundedInduction, TLAPS

----------------------------------------------------------------------------
(* The inductive invariant.                                                *)

Held == Drops \cup {NoDrop}
Slots == FileNames \X Tries
Results == FileNames \X BOOLEAN \X Tries

DropperSet ==
  [step : Working \cup Ended, watch : BOOLEAN, max : Nat, batch : SUBSET ReadyNames, r : Held,
   name : Nat, ok : BOOLEAN, out : Nat, arch : Nat, done : Nat, succeeded : Nat, failed : Nat,
   wrote : SUBSET Drops]

TypeInv ==
  /\ inbox \in [FileNames -> Held]
  /\ content \in [Drops -> Contents \cup {"none"}]
  /\ hidden \in SUBSET Drops /\ temps \in SUBSET Drops /\ crowded \in SUBSET FileNames
  /\ archive \in [Dirs -> [Slots -> Held]]
  /\ outbox \in [Results -> Held]
  /\ dropper \in [Droppers -> DropperSet]
  /\ executed \in [Drops -> Nat]
  /\ starts \in 0 .. Runs

\* A request that was taken from the inbox never comes back to it.
Gone(r) == content[r] # "none" /\ \A f \in FileNames : inbox[f] # r

\* A request that was not taken has left no trace.
Untouched(r) ==
  executed[r] = 0 /\ r \notin hidden /\ Answers(r) = {} /\ \A p \in Droppers : r \notin dropper[p].wrote

\* The inbox holds each request once.
InboxInv ==
  \A f \in FileNames : inbox[f] # NoDrop =>
    content[inbox[f]] # "none" /\ \A g \in FileNames : inbox[g] = inbox[f] => g = f

RequestInv(r) ==
  /\ ~Gone(r) => Untouched(r)
  /\ executed[r] <= 1
  /\ content[r] # "none" =>
       (\E f \in FileNames : inbox[f] = r) \/ r \in hidden \/ Archived(r) \/ crowded # {}

\* What a process has in hand.
HandInv(p) ==
  LET d == dropper[p]
  IN /\ d.r # NoDrop => Gone(d.r)
     /\ d.step \in {"scan", "next", "done", "archived", "written"} => d.r \notin hidden
     /\ Handling(p) =>
          /\ d.r \in Drops /\ d.name \in ReadyNames /\ Answers(d.r) = {}
          /\ \A q \in Droppers : d.r \notin dropper[q].wrote
          /\ d.step \in {"claimed", "handled", "named", "placed"} => d.r \in hidden
          /\ IF d.step = "claimed" THEN executed[d.r] = 0 ELSE d.ok <=> executed[d.r] = 1
          /\ d.step \in {"archived", "written"} /\ crowded = {} => Archived(d.r)
     /\ d.step \in {"named", "placed", "archived", "written"} =>
          d.out \in Tries /\ (crowded = {} => outbox[<<d.name, d.ok, d.out>>] = NoDrop)
     /\ d.step = "placed" =>
          d.arch \in Tries /\ (crowded = {} => archive[ArchiveDir(p)][<<d.name, d.arch>>] = NoDrop)

\* No two processes have one request in hand, or one name unseen.
ApartInv ==
  \A p, q \in Droppers : p # q /\ Handling(p) /\ Handling(q) =>
    dropper[p].r # dropper[q].r /\ (crowded = {} => dropper[p].name # dropper[q].name)

\* What a process has counted.
CountInv(p) ==
  LET d == dropper[p]
  IN /\ \A r \in d.wrote :
          /\ Gone(r)
          /\ crowded = {} => /\ Archived(r)
                             /\ \E x \in Results : Answers(r) = {x} /\ (x[2] <=> executed[r] = 1)
     /\ IsFiniteSet(d.wrote) /\ d.done = Cardinality(d.wrote) /\ d.done = d.succeeded + d.failed
     /\ d.max > 0 => d.done + Cardinality(d.batch) + (IF Handling(p) THEN 1 ELSE 0) <= d.max

DropInv ==
  /\ TypeInv /\ InboxInv /\ ApartInv
  /\ \A r \in Drops : RequestInv(r)
  /\ \A p \in Droppers : HandInv(p) /\ CountInv(p)

----------------------------------------------------------------------------
(* Types.                                                                  *)

Busy == {"claimed", "handled", "named", "placed", "archived", "written"}

LEMMA StepNames ==
  /\ Working = {"scan", "next"} \cup Busy /\ Ended = {"off", "done", "failed", "dead"}
  /\ \A p : Handling(p) <=> dropper[p].step \in Busy
BY DEF Working, Ended, Busy, Handling

\* One process moves.
LEMMA MoveTyped ==
  ASSUME TypeInv, NEW p \in Droppers, NEW d \in DropperSet, dropper' = [dropper EXCEPT ![p] = d]
  PROVE /\ dropper' \in [Droppers -> DropperSet] /\ dropper'[p] = d
        /\ \A q \in Droppers : q # p => dropper'[q] = dropper[q]
BY DEF TypeInv

LEMMA StepTyped ==
  ASSUME TypeInv, NEW p \in Droppers, NEW step \in Working \cup Ended, Goto(p, step)
  PROVE /\ dropper' \in [Droppers -> DropperSet] /\ dropper'[p] = [dropper[p] EXCEPT !.step = step]
        /\ \A q \in Droppers : q # p => dropper'[q] = dropper[q]
<1>1. [dropper[p] EXCEPT !.step = step] \in DropperSet
  BY SMTT(30) DEF TypeInv, DropperSet
<1>2. dropper' = [dropper EXCEPT ![p] = [dropper[p] EXCEPT !.step = step]]
  BY DEF Goto, TypeInv
<1> QED BY <1>1, <1>2, MoveTyped

\* What each step makes of its process.
StepOf(p, d) ==
  LET c == dropper[p]
  IN \/ \E step \in {"failed", "dead"} : d = [c EXCEPT !.step = step] /\ c.step \in Working
     \/ \E watch \in BOOLEAN, max \in MaxFiles :
          c.step \in Ended /\ d = [Idle EXCEPT !.step = "scan", !.watch = watch, !.max = max]
     \/ \E batch \in SUBSET ReadyNames :
          /\ c.step = "scan" /\ d = [c EXCEPT !.step = "next", !.batch = batch]
          /\ c.max > 0 => c.done + Cardinality(batch) <= c.max
     \/ c.step = "next" /\ \E step \in {"scan", "done"} : d = [c EXCEPT !.step = step]
     \/ \E i \in Tries :
          /\ c.step = "handled" /\ d = [c EXCEPT !.step = "named", !.out = i]
          /\ outbox[<<c.name, c.ok, i>>] = NoDrop
     \/ \E i \in Tries :
          /\ c.step = "named" /\ d = [c EXCEPT !.step = "placed", !.arch = i]
          /\ archive[ArchiveDir(p)][<<c.name, i>>] = NoDrop
     \/ c.step = "archived" /\ d = [c EXCEPT !.step = "written"]

\* The steps that change nothing but the process and its temporary file.
Quiet(p) ==
  /\ UNCHANGED <<inbox, content, hidden, archive, outbox, executed, crowded>>
  /\ temps' \in SUBSET Drops /\ starts' \in 0 .. Runs
  /\ \E d \in DropperSet : StepOf(p, d) /\ dropper' = [dropper EXCEPT ![p] = d]

\* IsBatch: a batch is within --max-files.
LEMMA BatchWithin ==
  ASSUME DropInv, NEW p \in Droppers, NEW batch \in SUBSET {f \in FileNames : IsReady(f)}, IsBatch(p, batch)
  PROVE /\ batch \in SUBSET ReadyNames
        /\ dropper[p].max > 0 => dropper[p].done + Cardinality(batch) <= dropper[p].max
<1> DEFINE ready == {f \in FileNames : IsReady(f)}
           d == dropper[p]
<1>1. d \in DropperSet /\ CountInv(p)
  BY DEF DropInv, TypeInv
<1>2. d.max \in Nat /\ d.done \in Nat
  BY <1>1 DEF DropperSet
<1>3. ready \in SUBSET ReadyNames /\ batch \in SUBSET ReadyNames
  BY DEF IsReady
<1>4. IsFiniteSet(ReadyNames)
  BY DropConstants
<1>5. Cardinality(ready) \in Nat /\ Cardinality(batch) \in Nat
  BY <1>3, <1>4, FS_Subset, FS_CardinalityType
<1>6. ASSUME d.max > 0 PROVE d.done + Cardinality(batch) <= d.max
  <2>1. Cardinality(d.batch) \in Nat
    <3>1. d.batch \in SUBSET ReadyNames
      BY <1>1 DEF DropperSet
    <3> QED BY <1>4, <3>1, FS_Subset, FS_CardinalityType
  <2>2. d.done <= d.max
    BY <1>1, <1>2, <1>6, <2>1 DEF CountInv
  <2>3. CASE d.max - d.done < Cardinality(ready)
    <3>1. Cardinality(batch) = d.max - d.done
      BY <1>6, <2>3 DEF IsBatch
    <3> QED BY <1>2, <3>1
  <2>4. CASE ~(d.max - d.done < Cardinality(ready))
    <3>1. batch = ready
      BY <2>4 DEF IsBatch
    <3> HIDE DEF ready
    <3> QED BY <1>2, <1>5, <2>2, <2>4, <3>1
  <2> QED BY <2>3, <2>4
<1> QED BY <1>3, <1>6

LEMMA QuietSteps ==
  ASSUME DropInv, NEW p \in Droppers,
         \/ Scan(p) \/ ChooseOutput(p) \/ ChooseArchive(p) \/ WriteTemp(p) \/ EndBatch(p) \/ Break(p)
         \/ StartDropper(p) \/ ((Claim(p) \/ HandleFile(p)) /\ Goto(p, "failed")
                                /\ UNCHANGED <<inbox, hidden, executed, crowded>>)
  PROVE Quiet(p)
<1> DEFINE c == dropper[p]
<1>1. TypeInv /\ c \in DropperSet /\ starts \in 0 .. Runs /\ Runs \in Nat
  BY DropConstants DEF DropInv, TypeInv
<1>2. ASSUME NEW d \in DropperSet, dropper' = [dropper EXCEPT ![p] = d], StepOf(p, d),
             UNCHANGED <<inbox, content, hidden, archive, outbox, executed, crowded>>,
             temps' \in SUBSET Drops, starts' \in 0 .. Runs
      PROVE Quiet(p)
  BY <1>2 DEF Quiet
<1>3. ASSUME NEW step \in {"failed", "dead", "scan", "done", "written"}, Goto(p, step),
             \/ step \in {"failed", "dead"} /\ c.step \in Working
             \/ step \in {"scan", "done"} /\ c.step = "next"
             \/ step = "written" /\ c.step = "archived",
             UNCHANGED <<inbox, content, hidden, archive, outbox, executed, crowded, starts>>,
             temps' \in SUBSET Drops
      PROVE Quiet(p)
  <2>1. [c EXCEPT !.step = step] \in DropperSet
    BY <1>1 DEF DropperSet, Working, Ended
  <2>2. dropper' = [dropper EXCEPT ![p] = [c EXCEPT !.step = step]]
    BY <1>1, <1>3 DEF Goto, TypeInv
  <2>3. StepOf(p, [c EXCEPT !.step = step])
    BY <1>3 DEF StepOf
  <2> QED BY <1>1, <1>2, <1>3, <2>1, <2>2, <2>3
<1>4. temps \in SUBSET Drops
  BY <1>1 DEF TypeInv
<1>5. CASE Scan(p)
  <2>1. PICK batch \in SUBSET {f \in FileNames : IsReady(f)} :
          IsBatch(p, batch) /\ dropper' = [dropper EXCEPT ![p].step = "next", ![p].batch = batch]
    BY <1>5 DEF Scan
  <2>2. batch \in SUBSET ReadyNames /\ (c.max > 0 => c.done + Cardinality(batch) <= c.max)
    BY <2>1, BatchWithin
  <2> DEFINE d == [c EXCEPT !.step = "next", !.batch = batch]
  <2>3. d \in DropperSet
    BY <1>1, <2>2 DEF DropperSet, Working
  <2>4. dropper' = [dropper EXCEPT ![p] = d]
    BY <1>1, <2>1 DEF TypeInv
  <2>5. StepOf(p, d)
    BY <1>5, <2>2 DEF StepOf, Scan
  <2> HIDE DEF d
  <2> QED BY <1>1, <1>2, <1>4, <1>5, <2>3, <2>4, <2>5 DEF Scan
<1>6. CASE ChooseOutput(p)
  <2>1. CASE Goto(p, "failed")
    BY <1>3, <1>4, <1>6, <2>1 DEF ChooseOutput, Working
  <2>2. CASE ~Goto(p, "failed")
    <3>1. PICK i \in Tries : /\ outbox[<<c.name, c.ok, i>>] = NoDrop
                             /\ dropper' = [dropper EXCEPT ![p].step = "named", ![p].out = i]
      BY <1>6, <2>2 DEF ChooseOutput, FreeSuffix
    <3> DEFINE d == [c EXCEPT !.step = "named", !.out = i]
    <3>2. i \in Nat
      BY DropConstants DEF Tries
    <3>3. d \in DropperSet
      BY <1>1, <3>2 DEF DropperSet, Working
    <3>4. dropper' = [dropper EXCEPT ![p] = d]
      BY <1>1, <3>1 DEF TypeInv
    <3>5. StepOf(p, d)
      BY <1>6, <3>1 DEF StepOf, ChooseOutput
    <3> HIDE DEF d
    <3> QED BY <1>1, <1>2, <1>4, <1>6, <3>3, <3>4, <3>5 DEF ChooseOutput
  <2> QED BY <2>1, <2>2
<1>7. CASE ChooseArchive(p)
  <2>1. CASE Goto(p, "failed")
    BY <1>3, <1>4, <1>7, <2>1 DEF ChooseArchive, Working
  <2>2. CASE ~Goto(p, "failed")
    <3>1. PICK i \in Tries : /\ archive[ArchiveDir(p)][<<c.name, i>>] = NoDrop
                             /\ dropper' = [dropper EXCEPT ![p].step = "placed", ![p].arch = i]
      BY <1>7, <2>2 DEF ChooseArchive, FreeSuffix
    <3> DEFINE d == [c EXCEPT !.step = "placed", !.arch = i]
    <3>2. i \in Nat
      BY DropConstants DEF Tries
    <3>3. d \in DropperSet
      BY <1>1, <3>2 DEF DropperSet, Working
    <3>4. dropper' = [dropper EXCEPT ![p] = d]
      BY <1>1, <3>1 DEF TypeInv
    <3>5. StepOf(p, d)
      BY <1>7, <3>1 DEF StepOf, ChooseArchive
    <3> HIDE DEF d
    <3> QED BY <1>1, <1>2, <1>4, <1>7, <3>3, <3>4, <3>5 DEF ChooseArchive
  <2> QED BY <2>1, <2>2
<1>8. CASE WriteTemp(p)
  <2>1. HandInv(p)
    BY DEF DropInv
  <2>2. c.r \in Drops
    BY <1>8, <2>1, StepNames DEF WriteTemp, HandInv, Busy
  <2> QED BY <1>3, <1>4, <1>8, <2>2 DEF WriteTemp
<1>9. CASE EndBatch(p)
  BY <1>3, <1>4, <1>9 DEF EndBatch
<1>10. CASE Break(p)
  <2>1. temps' \in SUBSET Drops
    BY <1>4, <1>10 DEF Break
  <2> QED BY <1>3, <1>10, <2>1 DEF Break
<1>11. CASE StartDropper(p)
  <2>1. PICK watch \in BOOLEAN, max \in MaxFiles :
          dropper' = [dropper EXCEPT ![p] = [Idle EXCEPT !.step = "scan", !.watch = watch, !.max = max]]
    BY <1>11 DEF StartDropper
  <2> DEFINE d == [Idle EXCEPT !.step = "scan", !.watch = watch, !.max = max]
  <2>2. d \in DropperSet
    BY DropConstants DEF Idle, DropperSet, Working, Held
  <2>3. StepOf(p, d)
    BY <1>11 DEF StepOf, StartDropper
  <2>4. starts' \in 0 .. Runs
    <3>1. starts < Runs /\ starts' = starts + 1
      BY <1>11 DEF StartDropper
    <3> QED BY <1>1, <3>1
  <2> HIDE DEF d
  <2> QED BY <1>2, <1>4, <1>11, <2>1, <2>2, <2>3, <2>4 DEF StartDropper, d
<1>12. CASE (Claim(p) \/ HandleFile(p)) /\ Goto(p, "failed") /\ UNCHANGED <<inbox, hidden, executed, crowded>>
  BY <1>3, <1>4, <1>12 DEF Claim, HandleFile, Working
<1> QED BY <1>5, <1>6, <1>7, <1>8, <1>9, <1>10, <1>11, <1>12

----------------------------------------------------------------------------
(* The quiet steps.                                                        *)

\* A step that leaves the files alone leaves what they say of a request.
LEMMA FilesKept ==
  ASSUME UNCHANGED <<inbox, content, archive, outbox>>, NEW r
  PROVE (Gone(r)' <=> Gone(r)) /\ (Archived(r)' <=> Archived(r)) /\ Answers(r)' = Answers(r)
BY DEF Gone, Archived, Answers

\* A quiet step keeps what a process has in hand, or drops it.
LEMMA QuietMove ==
  ASSUME DropInv, NEW p \in Droppers, NEW d \in DropperSet, StepOf(p, d)
  PROVE /\ \/ /\ d.r = dropper[p].r /\ d.name = dropper[p].name /\ d.ok = dropper[p].ok
              /\ d.wrote = dropper[p].wrote /\ d.done = dropper[p].done /\ d.max = dropper[p].max
              /\ d.succeeded = dropper[p].succeeded /\ d.failed = dropper[p].failed
           \/ /\ d.step = "scan" /\ d.r = NoDrop /\ d.wrote = {} /\ d.done = 0 /\ d.batch = {}
              /\ d.succeeded = 0 /\ d.failed = 0
        /\ d.step # "claimed"
        /\ d.step \in Busy => dropper[p].step \in Busy \ {"claimed"} /\ d.batch = dropper[p].batch
        /\ d.step # "next" /\ d.batch # {} => d.batch = dropper[p].batch
<1>1. dropper[p] \in DropperSet
  BY DEF DropInv, TypeInv
<1>2. \/ /\ d.r = dropper[p].r /\ d.name = dropper[p].name /\ d.ok = dropper[p].ok
         /\ d.wrote = dropper[p].wrote /\ d.done = dropper[p].done /\ d.max = dropper[p].max
         /\ d.succeeded = dropper[p].succeeded /\ d.failed = dropper[p].failed
      \/ /\ d.step = "scan" /\ d.r = NoDrop /\ d.wrote = {} /\ d.done = 0 /\ d.batch = {}
         /\ d.succeeded = 0 /\ d.failed = 0
  BY <1>1, ZenonT(30) DEF StepOf, DropperSet, Idle
<1>3. d.step # "claimed"
  BY <1>1 DEF StepOf, DropperSet, Idle
<1>4. d.step \in Busy => dropper[p].step \in Busy \ {"claimed"} /\ d.batch = dropper[p].batch
  BY <1>1, ZenonT(30) DEF StepOf, DropperSet, Idle, Busy
<1>5. d.step # "next" /\ d.batch # {} => d.batch = dropper[p].batch
  BY <1>1 DEF StepOf, DropperSet, Idle
<1> QED BY <1>2, <1>3, <1>4, <1>5

LEMMA QuietHand ==
  ASSUME DropInv, NEW p \in Droppers, NEW d \in DropperSet, StepOf(p, d),
         UNCHANGED <<inbox, content, hidden, archive, outbox, executed, crowded>>,
         dropper'[p] = d, \A q \in Droppers : q # p => dropper'[q] = dropper[q]
  PROVE HandInv(p)'
<1> DEFINE c == dropper[p]
<1>1. c \in DropperSet /\ HandInv(p) /\ hidden \in SUBSET Drops /\ NoDrop \notin Drops
  BY DropConstants DEF DropInv, TypeInv
<1>2. (d.r = c.r /\ d.name = c.name /\ d.ok = c.ok) \/ (d.step = "scan" /\ d.r = NoDrop)
  BY QuietMove
<1>3. \A q \in Droppers : dropper'[q].wrote \in SUBSET dropper[q].wrote
  BY QuietMove
<1>4. d.r # NoDrop => Gone(d.r)'
  BY <1>1, <1>2, FilesKept DEF HandInv
<1>5. d.step \in {"scan", "next", "done", "archived", "written"} => d.r \notin hidden
  <2>1. CASE d.r = NoDrop
    BY <1>1, <2>1
  <2>2. CASE d.r = c.r /\ d.r # NoDrop
    <3>1. d.step \in {"scan", "next", "done", "archived", "written"} => c.step \in {"scan", "next", "archived"}
      BY <1>1, <2>2, ZenonT(30) DEF StepOf, DropperSet, Idle
    <3> QED BY <1>1, <2>2, <3>1 DEF HandInv
  <2> QED BY <1>2, <2>1, <2>2
<1>6. ASSUME d.step \in Busy
      PROVE /\ d.r \in Drops /\ d.name \in ReadyNames /\ Answers(d.r)' = {}
            /\ \A q \in Droppers : d.r \notin dropper'[q].wrote
            /\ d.step \in {"claimed", "handled", "named", "placed"} => d.r \in hidden
            /\ d.step # "claimed" /\ (d.ok <=> executed[d.r] = 1)
            /\ d.step \in {"archived", "written"} /\ crowded = {} => Archived(d.r)'
  <2>1. d.r = c.r /\ d.name = c.name /\ d.ok = c.ok /\ c.step \in Busy \ {"claimed"} /\ d.step # "claimed"
    BY <1>2, <1>6, QuietMove DEF Busy
  <2>2. d.step \in {"claimed", "handled", "named", "placed"} => c.step \in {"claimed", "handled", "named", "placed"}
    BY <1>1, <2>1 DEF StepOf, DropperSet, Idle, Working, Ended, Busy
  <2>3. d.step \in {"archived", "written"} => c.step \in {"archived", "written"}
    BY <1>1, <2>1 DEF StepOf, DropperSet, Idle, Working, Ended, Busy
  <2>4. Handling(p)
    BY <2>1, StepNames
  <2> QED BY <1>1, <1>3, <2>1, <2>2, <2>3, <2>4, FilesKept, ZenonT(30) DEF HandInv, Busy
<1>7. d.step \in {"named", "placed", "archived", "written"} =>
        d.out \in Tries /\ (crowded = {} => outbox[<<d.name, d.ok, d.out>>] = NoDrop)
  <2>1. ASSUME d.step \in {"named", "placed", "archived", "written"}
        PROVE \/ d.out \in Tries /\ outbox[<<d.name, d.ok, d.out>>] = NoDrop
              \/ /\ c.step \in {"named", "placed", "archived", "written"}
                 /\ d.name = c.name /\ d.ok = c.ok /\ d.out = c.out
    <3>1. CASE c.step = "handled"
      <4>1. ~(\E step \in {"failed", "dead"} : d = [c EXCEPT !.step = step])
        BY <1>1, <2>1 DEF DropperSet
      <4>2. PICK i \in Tries : d = [c EXCEPT !.step = "named", !.out = i] /\ outbox[<<c.name, c.ok, i>>] = NoDrop
        BY <3>1, <4>1 DEF StepOf, Ended
      <4>3. d.out = i /\ d.name = c.name /\ d.ok = c.ok
        BY <1>1, <4>2 DEF DropperSet
      <4> QED BY <4>2, <4>3
    <3>2. CASE c.step # "handled"
      <4>1. d.name = c.name /\ d.ok = c.ok
        BY <1>2, <2>1
      <4>2. c.step \in {"named", "placed", "archived", "written"}
        <5>1. d.step # "archived" /\ (d.step = "named" => c.step = "handled")
          BY <1>1, ZenonT(30) DEF StepOf, DropperSet, Idle
        <5>2. d.step = "placed" => c.step = "named"
          BY <1>1 DEF StepOf, DropperSet, Idle
        <5>3. d.step = "written" => c.step = "archived"
          BY <1>1 DEF StepOf, DropperSet, Idle
        <5> QED BY <2>1, <3>2, <5>1, <5>2, <5>3
      <4>3. d.out = c.out
        BY <1>1, <2>1, <4>2 DEF StepOf, DropperSet, Ended
      <4> QED BY <4>1, <4>2, <4>3
    <3> QED BY <3>1, <3>2
  <2> QED BY <1>1, <2>1 DEF HandInv
<1>8. d.step = "placed" => /\ d.arch \in Tries
                           /\ archive[IF d.ok THEN "processed" ELSE "error"][<<d.name, d.arch>>] = NoDrop
  BY <1>1, ZenonT(30) DEF StepOf, DropperSet, Idle, ArchiveDir
<1>9. Handling(p)' <=> d.step \in Busy
  BY DEF Handling, Working, Busy
<1>10. ArchiveDir(p)' = IF d.ok THEN "processed" ELSE "error"
  BY DEF ArchiveDir
<1> QED BY <1>4, <1>5, <1>6, <1>7, <1>8, <1>9, <1>10 DEF HandInv

LEMMA QuietCount ==
  ASSUME DropInv, NEW p \in Droppers, NEW d \in DropperSet, StepOf(p, d),
         UNCHANGED <<inbox, content, hidden, archive, outbox, executed, crowded>>,
         dropper'[p] = d
  PROVE CountInv(p)'
<1> DEFINE c == dropper[p]
<1>1. c \in DropperSet /\ CountInv(p) /\ IsFiniteSet(ReadyNames)
  BY DropConstants DEF DropInv, TypeInv
<1>2. c.max \in Nat /\ c.done \in Nat /\ d.max \in Nat /\ c.batch \in SUBSET ReadyNames /\ d.batch \in SUBSET ReadyNames
  BY <1>1 DEF DropperSet
<1>3. Cardinality(c.batch) \in Nat /\ Cardinality(d.batch) \in Nat
  BY <1>1, <1>2, FS_Subset, FS_CardinalityType
<1>4. Handling(p)' <=> d.step \in Busy
  BY DEF Handling, Working, Busy
<1>5. CASE d.step = "scan" /\ d.r = NoDrop /\ d.wrote = {} /\ d.done = 0 /\ d.batch = {} /\ d.succeeded = 0 /\ d.failed = 0
  <2>1. IsFiniteSet(d.wrote) /\ Cardinality(d.wrote) = 0 /\ Cardinality(d.batch) = 0
    BY <1>5, FS_EmptySet
  <2>2. ~Handling(p)'
    BY <1>4, <1>5 DEF Busy
  <2> QED BY <1>2, <1>5, <2>1, <2>2 DEF CountInv
<1>6. CASE /\ d.wrote = c.wrote /\ d.done = c.done /\ d.max = c.max
           /\ d.succeeded = c.succeeded /\ d.failed = c.failed
  <2>1. ASSUME NEW r \in d.wrote
        PROVE Gone(r)' /\ (crowded = {} => /\ Archived(r)'
                                           /\ \E x \in Results : Answers(r)' = {x} /\ (x[2] <=> executed[r] = 1))
    BY <1>1, <1>6, <2>1, FilesKept DEF CountInv
  <2>2. IsFiniteSet(d.wrote) /\ d.done = Cardinality(d.wrote) /\ d.done = d.succeeded + d.failed
    BY <1>1, <1>6 DEF CountInv
  <2>3. ASSUME d.max > 0 PROVE d.done + Cardinality(d.batch) + (IF Handling(p)' THEN 1 ELSE 0) <= d.max
    <3>1. c.done + Cardinality(c.batch) + (IF Handling(p) THEN 1 ELSE 0) <= c.max
      BY <1>1, <1>6, <2>3 DEF CountInv
    <3>2. CASE d.step = "next"
      <4>1. c.max > 0 => c.done + Cardinality(d.batch) <= c.max
        BY <1>1, <3>2, ZenonT(30) DEF StepOf, DropperSet, Idle
      <4>2. ~Handling(p)'
        BY <1>4, <3>2 DEF Busy
      <4> QED BY <1>2, <1>3, <1>6, <2>3, <4>1, <4>2
    <3>3. CASE d.step # "next" /\ d.batch # {}
      <4>1. d.batch = c.batch
        BY <3>3, QuietMove
      <4>2. Handling(p)' => Handling(p)
        BY <1>4, QuietMove, StepNames
      <4> QED BY <1>2, <1>3, <1>6, <3>1, <4>1, <4>2
    <3>4. CASE d.step # "next" /\ d.batch = {}
      <4>1. Cardinality(d.batch) = 0
        BY <3>4, FS_EmptySet
      <4>2. Handling(p)' => Handling(p)
        BY <1>4, QuietMove, StepNames
      <4> QED BY <1>2, <1>3, <1>6, <3>1, <4>1, <4>2
    <3> QED BY <3>2, <3>3, <3>4
  <2> QED BY <2>1, <2>2, <2>3 DEF CountInv
<1> QED BY <1>5, <1>6, QuietMove

\* The other processes, when a step leaves the files alone.
LEMMA QuietOthers ==
  ASSUME DropInv, NEW p \in Droppers, NEW q \in Droppers, q # p,
         UNCHANGED <<inbox, content, hidden, archive, outbox, executed, crowded>>,
         dropper'[q] = dropper[q], \A o \in Droppers : dropper'[o].wrote \in SUBSET dropper[o].wrote
  PROVE HandInv(q)' /\ CountInv(q)'
<1>1. HandInv(q) /\ CountInv(q)
  BY DEF DropInv
<1>2. (Handling(q)' <=> Handling(q)) /\ ArchiveDir(q)' = ArchiveDir(q)
  BY DEF Handling, ArchiveDir
<1>3. HandInv(q)'
  BY <1>1, <1>2, FilesKept DEF HandInv
<1>4. CountInv(q)'
  BY <1>1, <1>2, FilesKept DEF CountInv
<1> QED BY <1>3, <1>4

LEMMA QuietKeeps ==
  ASSUME DropInv, NEW p \in Droppers, Quiet(p)
  PROVE DropInv'
<1>1. TypeInv /\ InboxInv /\ ApartInv /\ \A r \in Drops : RequestInv(r)
  BY DEF DropInv
<1>2. PICK d \in DropperSet : StepOf(p, d) /\ dropper' = [dropper EXCEPT ![p] = d]
  BY DEF Quiet
<1>3. /\ UNCHANGED <<inbox, content, hidden, archive, outbox, executed, crowded>>
      /\ temps' \in SUBSET Drops /\ starts' \in 0 .. Runs
  BY DEF Quiet
<1>4. /\ dropper' \in [Droppers -> DropperSet] /\ dropper'[p] = d
      /\ \A q \in Droppers : q # p => dropper'[q] = dropper[q]
  BY <1>1, <1>2, MoveTyped
<1>5. TypeInv'
  BY <1>1, <1>3, <1>4 DEF TypeInv
<1>6. InboxInv'
  BY <1>1, <1>3 DEF InboxInv
<1>7. \A q \in Droppers : dropper'[q].wrote \in SUBSET dropper[q].wrote
  BY <1>2, <1>4, QuietMove
<1>8. ApartInv'
  <2>1. ASSUME NEW q \in Droppers, Handling(q)'
        PROVE Handling(q) /\ dropper'[q].r = dropper[q].r /\ dropper'[q].name = dropper[q].name
    <3>1. CASE q = p
      <4>1. d.step \in Busy
        BY <1>4, <2>1, <3>1 DEF Handling, Working, Busy
      <4> QED BY <1>2, <1>4, <3>1, <4>1, QuietMove, StepNames DEF Busy
    <3>2. CASE q # p
      BY <1>4, <2>1, <3>2 DEF Handling
    <3> QED BY <3>1, <3>2
  <2> QED BY <1>1, <1>3, <2>1 DEF ApartInv
<1>9. \A r \in Drops : RequestInv(r)'
  BY <1>1, <1>3, <1>7, FilesKept DEF RequestInv, Untouched
<1>10. ASSUME NEW q \in Droppers PROVE HandInv(q)' /\ CountInv(q)'
  <2>1. CASE q = p
    BY <1>2, <1>3, <1>4, <2>1, QuietHand, QuietCount
  <2>2. CASE q # p
    BY <1>3, <1>4, <1>7, <2>2, QuietOthers
  <2> QED BY <2>1, <2>2
<1> QED BY <1>5, <1>6, <1>8, <1>9, <1>10 DEF DropInv

----------------------------------------------------------------------------
(* The producer.                                                           *)

\* A producer's step changes the inbox and takes nothing out of it.
LEMMA ProducerKeeps ==
  ASSUME DropInv, inbox' \in [FileNames -> Held], content' \in [Drops -> Contents \cup {"none"}], InboxInv',
         UNCHANGED <<hidden, archive, outbox, temps, dropper, executed, crowded, starts>>,
         \A r \in Drops : Gone(r)' <=> Gone(r)
  PROVE DropInv'
<1>1. /\ \A r : (Archived(r)' <=> Archived(r)) /\ Answers(r)' = Answers(r)
      /\ \A r : ~Gone(r)' /\ Untouched(r) => Untouched(r)'
  BY DEF Archived, Answers, Untouched
<1>2. TypeInv'
  BY DEF DropInv, TypeInv
<1>3. ApartInv'
  BY DEF DropInv, ApartInv, Handling
<1>4. ASSUME NEW r \in Drops PROVE RequestInv(r)'
  <2>1. RequestInv(r)
    BY DEF DropInv
  <2>2. ASSUME content'[r] # "none", ~\E f \in FileNames : inbox'[f] = r
        PROVE r \in hidden \/ Archived(r) \/ crowded # {}
    <3>1. Gone(r)
      BY <2>2 DEF Gone
    <3> QED BY <2>1, <3>1 DEF RequestInv, Gone
  <2> QED BY <1>1, <2>1, <2>2 DEF RequestInv
<1>5. ASSUME NEW p \in Droppers PROVE HandInv(p)' /\ CountInv(p)'
  <2>1. HandInv(p) /\ CountInv(p) /\ dropper[p] \in DropperSet
    BY DEF DropInv, TypeInv
  <2>2. dropper[p].r \in Held /\ dropper[p].wrote \in SUBSET Drops
    BY <2>1 DEF DropperSet
  <2>3. (Handling(p)' <=> Handling(p)) /\ ArchiveDir(p)' = ArchiveDir(p)
    BY DEF Handling, ArchiveDir
  <2>4. HandInv(p)'
    BY <1>1, <2>1, <2>2, <2>3 DEF HandInv, Held
  <2>5. CountInv(p)'
    BY <1>1, <2>1, <2>2, <2>3 DEF CountInv
  <2> QED BY <2>4, <2>5
<1> QED BY <1>2, <1>3, <1>4, <1>5 DEF DropInv

LEMMA WriteKeeps ==
  ASSUME DropInv, NEW r \in Drops, NEW f \in DraftNames, NEW c \in Contents, WriteDraft(r, f, c)
  PROVE DropInv'
<1>1. TypeInv /\ InboxInv /\ NoDrop \notin Drops /\ f \in FileNames /\ c # "none"
  BY DropConstants DEF DropInv, FileNames, Contents
<1>2. /\ content[r] = "none" /\ inbox[f] = NoDrop
      /\ inbox' = [inbox EXCEPT ![f] = r] /\ content' = [content EXCEPT ![r] = c]
      /\ UNCHANGED <<hidden, archive, outbox, temps, dropper, executed, crowded, starts>>
  BY DEF WriteDraft
<1>3. inbox' \in [FileNames -> Held] /\ content' \in [Drops -> Contents \cup {"none"}]
  BY <1>1, <1>2 DEF TypeInv, Held
<1>4. /\ inbox'[f] = r /\ \A g \in FileNames : g # f => inbox'[g] = inbox[g]
      /\ content'[r] = c /\ \A s \in Drops : s # r => content'[s] = content[s]
  BY <1>1, <1>2 DEF TypeInv
<1>5. \A g \in FileNames : inbox[g] # r /\ inbox[g] \in Held
  BY <1>1, <1>2 DEF TypeInv, InboxInv
<1>6. InboxInv'
  BY <1>1, <1>4, <1>5 DEF InboxInv, Held
<1>7. \A s \in Drops : Gone(s)' <=> Gone(s)
  BY <1>1, <1>2, <1>4, <1>5 DEF Gone
<1> QED BY <1>2, <1>3, <1>6, <1>7, ProducerKeeps

LEMMA HandOverKeeps ==
  ASSUME DropInv, NEW f \in DraftNames, NEW n \in ReadyNames, HandOver(f, n)
  PROVE DropInv'
<1>1. TypeInv /\ InboxInv /\ NoDrop \notin Drops /\ f \in FileNames /\ n \in FileNames /\ f # n
  BY DropConstants DEF DropInv, FileNames
<1>2. /\ inbox[f] # NoDrop /\ inbox[n] = NoDrop
      /\ inbox' = [inbox EXCEPT ![n] = inbox[f], ![f] = NoDrop]
      /\ UNCHANGED <<content, hidden, archive, outbox, temps, dropper, executed, crowded, starts>>
  BY DEF HandOver
<1>3. inbox' \in [FileNames -> Held] /\ content' \in [Drops -> Contents \cup {"none"}]
  BY <1>1, <1>2 DEF TypeInv, Held
<1>4. inbox'[n] = inbox[f] /\ inbox'[f] = NoDrop /\ \A g \in FileNames : g # f /\ g # n => inbox'[g] = inbox[g]
  BY <1>1, <1>2 DEF TypeInv
<1>5. InboxInv'
  <2> SUFFICES ASSUME NEW g \in FileNames, inbox'[g] # NoDrop
               PROVE content[inbox'[g]] # "none" /\ \A h \in FileNames : inbox'[h] = inbox'[g] => h = g
    BY <1>2 DEF InboxInv
  <2>1. CASE g = n
    <3>1. content[inbox[f]] # "none" /\ \A h \in FileNames : inbox[h] = inbox[f] => h = f
      BY <1>1, <1>2 DEF InboxInv
    <3> QED BY <1>1, <1>2, <1>4, <2>1, <3>1
  <2>2. CASE g # n
    <3>1. g # f /\ inbox'[g] = inbox[g]
      BY <1>4, <2>2
    <3>2. content[inbox[g]] # "none" /\ \A h \in FileNames : inbox[h] = inbox[g] => h = g
      BY <1>1, <3>1 DEF InboxInv
    <3> QED BY <1>1, <1>2, <1>4, <3>1, <3>2
  <2> QED BY <2>1, <2>2
<1>6. \A s \in Drops : Gone(s)' <=> Gone(s)
  BY <1>1, <1>2, <1>4 DEF Gone
<1> QED BY <1>2, <1>3, <1>5, <1>6, ProducerKeeps

\* What another process has in hand survives a step that leaves its request
\* and, unless a name is crowded, its places alone.
LEMMA OtherHand ==
  ASSUME DropInv, NEW q \in Droppers, NEW e, e = dropper[q], dropper'[q] = e, crowded' = {} => crowded = {},
         e.r # NoDrop => Gone(e.r)',
         e.r \notin hidden => e.r \notin hidden',
         Handling(q) => /\ Answers(e.r)' = {} /\ executed'[e.r] = executed[e.r]
                        /\ \A o \in Droppers : e.r \notin dropper'[o].wrote
                        /\ e.r \in hidden => e.r \in hidden'
                        /\ crowded' = {} /\ Archived(e.r) => Archived(e.r)',
         Handling(q) /\ crowded' = {} /\ e.out \in Tries =>
           outbox'[<<e.name, e.ok, e.out>>] = outbox[<<e.name, e.ok, e.out>>],
         Handling(q) /\ crowded' = {} /\ e.arch \in Tries =>
           archive'[ArchiveDir(q)][<<e.name, e.arch>>] = archive[ArchiveDir(q)][<<e.name, e.arch>>]
  PROVE HandInv(q)'
<1>1. HandInv(q)
  BY DEF DropInv
<1>2. (Handling(q)' <=> Handling(q)) /\ ArchiveDir(q)' = ArchiveDir(q) /\ (Handling(q) <=> e.step \in Busy)
  BY StepNames DEF Handling, ArchiveDir
<1>3. Handling(q) =>
        /\ e.r \in Drops /\ e.name \in ReadyNames /\ Answers(e.r)' = {}
        /\ \A o \in Droppers : e.r \notin dropper'[o].wrote
        /\ e.step \in {"claimed", "handled", "named", "placed"} => e.r \in hidden'
        /\ e.step \in {"archived", "written"} /\ crowded' = {} => Archived(e.r)'
  BY <1>1 DEF HandInv
<1>4. Handling(q) => IF e.step = "claimed" THEN executed'[e.r] = 0 ELSE e.ok <=> executed'[e.r] = 1
  BY <1>1 DEF HandInv
<1>5. e.step \in {"scan", "next", "done", "archived", "written"} => e.r \notin hidden'
  BY <1>1 DEF HandInv
<1>6. e.step \in {"named", "placed", "archived", "written"} =>
        e.out \in Tries /\ (crowded' = {} => outbox'[<<e.name, e.ok, e.out>>] = NoDrop)
  BY <1>1, <1>2 DEF HandInv, Busy
<1>7. e.step = "placed" =>
        e.arch \in Tries /\ (crowded' = {} => archive'[ArchiveDir(q)][<<e.name, e.arch>>] = NoDrop)
  BY <1>1, <1>2 DEF HandInv, Busy
<1> QED BY <1>2, <1>3, <1>4, <1>5, <1>6, <1>7 DEF HandInv

----------------------------------------------------------------------------
(* claim_ready_file.                                                       *)

\* A process's step changes that process alone.
LEMMA ClaimKeeps ==
  ASSUME DropInv, NEW p \in Droppers, NEW f \in FileNames, NEW r \in Drops, dropper[p].step = "next",
         IsFirst(f, dropper[p].batch), inbox[f] = r, inbox' = Taken(f), hidden' = hidden \cup {r},
         dropper' = [dropper EXCEPT ![p].step = "claimed", ![p].r = r, ![p].name = f,
                                    ![p].batch = @ \ {f}],
         crowded' = crowded \cup {n \in {f} : \E q \in Droppers \ {p} : Handling(q) /\ dropper[q].name = n},
         UNCHANGED <<content, archive, outbox, temps, executed, starts>>
  PROVE DropInv'
<1> DEFINE c == dropper[p]
           d == [c EXCEPT !.step = "claimed", !.r = r, !.name = f, !.batch = c.batch \ {f}]
<1>1. /\ TypeInv /\ InboxInv /\ ApartInv /\ HandInv(p) /\ CountInv(p)
      /\ c \in DropperSet /\ NoDrop \notin Drops
      /\ IsFiniteSet(ReadyNames) /\ ReadyNames \in SUBSET Nat
  BY DropConstants DEF DropInv, TypeInv, Held
<1>2. f \in c.batch /\ c.batch \in SUBSET ReadyNames /\ f \in ReadyNames /\ f \in Nat
  BY <1>1 DEF DropperSet, IsFirst
<1>3. d \in DropperSet
  BY <1>1, <1>2 DEF DropperSet, Working, Held
<1>4. dropper' = [dropper EXCEPT ![p] = d]
  BY <1>1 DEF TypeInv
<1>5. /\ d.step = "claimed" /\ d.r = r /\ d.name = f /\ d.batch = c.batch \ {f} /\ d.wrote = c.wrote
      /\ d.done = c.done /\ d.max = c.max /\ d.succeeded = c.succeeded /\ d.failed = c.failed
  BY <1>1 DEF DropperSet
<1> HIDE DEF d
<1>6. /\ dropper' \in [Droppers -> DropperSet] /\ dropper'[p] = d
      /\ \A q \in Droppers : q # p => dropper'[q] = dropper[q]
  BY <1>1, <1>3, <1>4, MoveTyped
<1>7. inbox' \in [FileNames -> Held] /\ inbox'[f] = NoDrop /\ \A g \in FileNames : g # f => inbox'[g] = inbox[g]
  BY <1>1 DEF TypeInv, Taken, Held
<1>8. /\ crowded' \in SUBSET FileNames
      /\ crowded' = {} => crowded = {} /\ \A q \in Droppers : q # p /\ Handling(q) => dropper[q].name # f
  BY <1>1 DEF TypeInv
<1>9. TypeInv'
  BY <1>1, <1>6, <1>7, <1>8 DEF TypeInv
<1>10. InboxInv'
  BY <1>1, <1>7 DEF InboxInv
<1>11. ~Gone(r) /\ Gone(r)'
  BY <1>1, <1>7 DEF InboxInv, Gone
<1>12. \A s \in Drops : (s # r => (Gone(s)' <=> Gone(s))) /\ (Gone(s) => Gone(s)')
  BY <1>1, <1>7, <1>11 DEF Gone
<1>13. \A s : (Archived(s)' <=> Archived(s)) /\ Answers(s)' = Answers(s)
  BY DEF Archived, Answers
<1>14. Untouched(r)
  BY <1>1, <1>11 DEF DropInv, RequestInv
<1>15. \A q \in Droppers : dropper'[q].wrote = dropper[q].wrote
  BY <1>5, <1>6
<1>16. /\ \A q \in Droppers : q # p => (Handling(q)' <=> Handling(q)) /\ ArchiveDir(q)' = ArchiveDir(q)
       /\ Handling(p)' /\ ~Handling(p)
  BY <1>5, <1>6 DEF Handling, ArchiveDir, Working
<1>17. \A q \in Droppers : dropper[q].r \in Held /\ dropper[q].r # r
  <2> SUFFICES ASSUME NEW q \in Droppers PROVE dropper[q].r \in Held /\ dropper[q].r # r
    OBVIOUS
  <2>1. HandInv(q) /\ dropper[q] \in DropperSet
    BY DEF DropInv, TypeInv
  <2> QED BY <1>1, <1>11, <2>1 DEF HandInv, DropperSet
<1>18. ApartInv'
  <2> SUFFICES ASSUME NEW a \in Droppers, NEW b \in Droppers, a # b, Handling(a)', Handling(b)'
               PROVE dropper'[a].r # dropper'[b].r /\ (crowded' = {} => dropper'[a].name # dropper'[b].name)
    BY DEF ApartInv
  <2>1. CASE a = p
    BY <1>5, <1>6, <1>8, <1>16, <1>17, <2>1
  <2>2. CASE b = p
    BY <1>5, <1>6, <1>8, <1>16, <1>17, <2>2
  <2>3. CASE a # p /\ b # p
    BY <1>1, <1>6, <1>8, <1>16, <2>3 DEF ApartInv
  <2> QED BY <2>1, <2>2, <2>3
<1>19. ASSUME NEW s \in Drops PROVE RequestInv(s)'
  <2>1. RequestInv(s)
    BY DEF DropInv
  <2>2. CASE s = r
    <3>1. Gone(s)' /\ executed'[s] <= 1 /\ s \in hidden'
      BY <1>11, <2>1, <2>2 DEF RequestInv
    <3> QED BY <3>1 DEF RequestInv
  <2>3. CASE s # r
    <3>1. ~Gone(s)' => Untouched(s)'
      BY <1>12, <1>13, <1>15, <2>1, <2>3 DEF RequestInv, Untouched
    <3>2. ASSUME NEW g \in FileNames, inbox[g] = s PROVE inbox'[g] = s
      BY <1>7, <2>3, <3>2
    <3>3. content'[s] # "none" =>
            (\E g \in FileNames : inbox'[g] = s) \/ s \in hidden' \/ Archived(s)' \/ crowded' # {}
      BY <1>8, <1>13, <2>1, <3>2 DEF RequestInv
    <3> QED BY <2>1, <3>1, <3>3 DEF RequestInv
  <2> QED BY <2>2, <2>3
<1>20. ASSUME NEW q \in Droppers, q # p PROVE HandInv(q)' /\ CountInv(q)'
  <2>1. HandInv(q) /\ CountInv(q) /\ dropper'[q] = dropper[q] /\ dropper[q] \in DropperSet
    BY <1>6, <1>20 DEF DropInv, TypeInv
  <2>2. dropper[q].wrote \in SUBSET Drops
    BY <2>1 DEF DropperSet
  <2>3. (Handling(q)' <=> Handling(q)) /\ ArchiveDir(q)' = ArchiveDir(q)
    BY <1>16, <1>20
  <2>4. dropper[q].r \in Held /\ dropper[q].r # r
    BY <1>17
  <2>5. HandInv(q)'
    <3>1. PICK e : e = dropper[q]
      OBVIOUS
    <3>2. e.r # NoDrop => Gone(e.r)'
      BY <1>12, <2>1, <2>4, <3>1 DEF HandInv, Held
    <3>3. Handling(q) => Answers(e.r)' = {} /\ \A o \in Droppers : e.r \notin dropper'[o].wrote
      BY <1>13, <1>15, <2>1, <3>1 DEF HandInv
    <3> QED BY <1>8, <1>13, <2>1, <2>4, <3>1, <3>2, <3>3, OtherHand
  <2>6. CountInv(q)'
    BY <1>8, <1>12, <1>13, <2>1, <2>2, <2>3 DEF CountInv
  <2> QED BY <2>5, <2>6
<1>21. HandInv(p)'
  <2>1. /\ Answers(r)' = {} /\ executed'[r] = 0 /\ r \in hidden'
        /\ \A q \in Droppers : r \notin dropper'[q].wrote
    BY <1>13, <1>14, <1>15 DEF Untouched
  <2> QED BY <1>1, <1>2, <1>5, <1>6, <1>11, <2>1 DEF HandInv
<1>22. CountInv(p)'
  <2>1. \A s \in d.wrote : s \in Drops
    BY <1>1, <1>5 DEF DropperSet
  <2>2. IsFiniteSet(c.batch) /\ Cardinality(c.batch) \in Nat
    BY <1>1, <1>2, FS_Subset, FS_CardinalityType
  <2>3. Cardinality(d.batch) = Cardinality(c.batch) - 1
    <3>1. Cardinality(c.batch \ {f}) = Cardinality(c.batch) - 1
      BY <1>2, <2>2, FS_RemoveElement
    <3> QED BY <1>5, <3>1
  <2>4. c.done \in Nat /\ c.max \in Nat
    BY <1>1 DEF DropperSet
  <2>5. d.max > 0 => d.done + Cardinality(d.batch) + (IF Handling(p)' THEN 1 ELSE 0) <= d.max
    BY <1>1, <1>5, <1>16, <2>2, <2>3, <2>4 DEF CountInv
  <2>6. ASSUME NEW s \in d.wrote
        PROVE Gone(s)' /\ (crowded' = {} => /\ Archived(s)'
                                            /\ \E x \in Results : Answers(s)' = {x} /\ (x[2] <=> executed'[s] = 1))
    BY <1>1, <1>5, <1>8, <1>12, <1>13, <2>1, <2>6 DEF CountInv
  <2>7. IsFiniteSet(d.wrote) /\ d.done = Cardinality(d.wrote) /\ d.done = d.succeeded + d.failed
    BY <1>1, <1>5 DEF CountInv
  <2> QED BY <1>6, <2>5, <2>6, <2>7 DEF CountInv
<1> QED BY <1>9, <1>10, <1>18, <1>19, <1>20, <1>21, <1>22 DEF DropInv

----------------------------------------------------------------------------
(* What a run has counted stays true.                                      *)

Counted(s) ==
  /\ Gone(s)
  /\ crowded = {} => Archived(s) /\ \E x \in Results : Answers(s) = {x} /\ (x[2] <=> executed[s] = 1)

LEMMA CountedKept ==
  ASSUME NEW s, Counted(s), Gone(s)', executed'[s] = executed[s], crowded' = {} => crowded = {},
         crowded = {} => Answers(s)' = Answers(s) /\ (Archived(s) => Archived(s)')
  PROVE Counted(s)'
BY DEF Counted

LEMMA OtherCount ==
  ASSUME DropInv, NEW q \in Droppers, dropper'[q] = dropper[q],
         \A s \in dropper[q].wrote : Counted(s) => Counted(s)'
  PROVE CountInv(q)'
<1>1. CountInv(q)
  BY DEF DropInv
<1>2. Handling(q)' <=> Handling(q)
  BY DEF Handling
<1>3. \A s \in dropper[q].wrote : Counted(s)
  BY <1>1 DEF CountInv, Counted
<1>4. \A s \in dropper'[q].wrote : Counted(s)'
  BY <1>3
<1> QED BY <1>1, <1>2, <1>4 DEF CountInv, Counted

----------------------------------------------------------------------------
(* handle_ready_file.                                                      *)

LEMMA HandleKeeps ==
  ASSUME DropInv, NEW p \in Droppers, HandleFile(p), content[dropper[p].r] # "binary"
  PROVE DropInv'
<1>1. PICK r : r = dropper[p].r
  OBVIOUS
<1> DEFINE c == dropper[p]
           runs == Runnable(content[r]) /\ Convertible(content[r])
<1>2. /\ TypeInv /\ InboxInv /\ ApartInv /\ HandInv(p) /\ CountInv(p) /\ c \in DropperSet /\ NoDrop \notin Drops
  BY DropConstants DEF DropInv, TypeInv
<1>3. /\ c.step = "claimed" /\ dropper' = [dropper EXCEPT ![p].step = "handled", ![p].ok = runs]
      /\ executed' = IF runs THEN [executed EXCEPT ![r] = @ + 1] ELSE executed
      /\ UNCHANGED <<inbox, content, hidden, archive, outbox, temps, crowded, starts>>
  BY <1>1 DEF HandleFile
<1>4. PICK ok \in BOOLEAN : ok = runs
  BY DEF Runnable, Convertible
<1> HIDE DEF runs
<1> DEFINE d == [c EXCEPT !.step = "handled", !.ok = ok]
<1>5. d \in DropperSet
  BY <1>2 DEF DropperSet, Working
<1>6. dropper' = [dropper EXCEPT ![p] = d]
  BY <1>2, <1>3, <1>4 DEF TypeInv
<1>7. /\ d.step = "handled" /\ d.ok = ok /\ d.r = r /\ d.name = c.name /\ d.batch = c.batch /\ d.wrote = c.wrote
      /\ d.done = c.done /\ d.max = c.max /\ d.succeeded = c.succeeded /\ d.failed = c.failed
  BY <1>1, <1>2 DEF DropperSet
<1> HIDE DEF d
<1>8. /\ dropper' \in [Droppers -> DropperSet] /\ dropper'[p] = d
      /\ \A q \in Droppers : q # p => dropper'[q] = dropper[q]
  BY <1>2, <1>5, <1>6, MoveTyped
<1>9. Handling(p) /\ Handling(p)'
  BY <1>3, <1>7, <1>8 DEF Handling, Working
<1>10. /\ r \in Drops /\ r # NoDrop /\ executed[r] = 0 /\ r \in hidden /\ Gone(r) /\ Answers(r) = {}
       /\ c.name \in ReadyNames /\ \A q \in Droppers : r \notin dropper[q].wrote
  BY <1>1, <1>2, <1>3, <1>9 DEF HandInv
<1>11. executed' \in [Drops -> Nat] /\ (ok <=> executed'[r] = 1) /\ executed'[r] <= 1
  BY <1>2, <1>3, <1>4, <1>10 DEF TypeInv
<1>12. \A s \in Drops : s # r => executed'[s] = executed[s]
  BY <1>2, <1>3, <1>10 DEF TypeInv
<1>13. \A s : (Gone(s)' <=> Gone(s)) /\ (Archived(s)' <=> Archived(s)) /\ Answers(s)' = Answers(s)
  BY <1>3, FilesKept
<1>14. \A q \in Droppers : dropper'[q].wrote = dropper[q].wrote
  BY <1>7, <1>8
<1>15. TypeInv'
  BY <1>2, <1>3, <1>8, <1>11 DEF TypeInv
<1>16. InboxInv'
  BY <1>2, <1>3 DEF InboxInv
<1>17. ApartInv'
  <2>1. \A q \in Droppers : /\ Handling(q)' <=> Handling(q)
                            /\ dropper'[q].r = dropper[q].r /\ dropper'[q].name = dropper[q].name
    BY <1>1, <1>7, <1>8, <1>9 DEF Handling
  <2>2. crowded' = crowded
    BY <1>3
  <2> QED BY <1>2, <2>1, <2>2 DEF ApartInv
<1>18. ASSUME NEW s \in Drops PROVE RequestInv(s)'
  <2>1. RequestInv(s)
    BY DEF DropInv
  <2>2. ~Gone(s)' => Untouched(s)'
    BY <1>3, <1>10, <1>12, <1>13, <1>14, <2>1 DEF RequestInv, Untouched
  <2>3. executed'[s] <= 1
    BY <1>11, <1>12, <2>1 DEF RequestInv
  <2> QED BY <1>3, <1>13, <2>1, <2>2, <2>3 DEF RequestInv
<1>19. ASSUME NEW q \in Droppers, \A s \in dropper[q].wrote : Counted(s)
       PROVE \A s \in dropper[q].wrote : Counted(s)'
  <2>1. dropper[q].wrote \in SUBSET Drops
    BY <1>2 DEF TypeInv, DropperSet
  <2> SUFFICES ASSUME NEW s \in dropper[q].wrote PROVE Counted(s)'
    OBVIOUS
  <2>2. s # r /\ s \in Drops
    BY <1>10, <2>1
  <2>3. executed'[s] = executed[s]
    BY <1>12, <2>2
  <2> QED BY <1>3, <1>13, <1>19, <2>3 DEF Counted
<1>20. \A q \in Droppers : \A s \in dropper[q].wrote : Counted(s)
  BY DEF DropInv, CountInv, Counted
<1>21. ASSUME NEW q \in Droppers, q # p PROVE HandInv(q)' /\ CountInv(q)'
  <2>1. HandInv(q) /\ dropper'[q] = dropper[q]
    BY <1>8, <1>21 DEF DropInv
  <2>2. PICK e : e = dropper[q]
    OBVIOUS
  <2>3. Handling(q) => e.r # r /\ e.r \in Drops
    BY <1>1, <1>2, <1>9, <1>21, <2>1, <2>2 DEF ApartInv, HandInv
  <2>4. Handling(q) => /\ Answers(e.r)' = {} /\ executed'[e.r] = executed[e.r]
                       /\ \A o \in Droppers : e.r \notin dropper'[o].wrote
    BY <1>12, <1>13, <1>14, <2>1, <2>2, <2>3 DEF HandInv
  <2>5. e.r # NoDrop => Gone(e.r)'
    BY <1>13, <2>1, <2>2 DEF HandInv
  <2>6. HandInv(q)'
    BY <1>3, <1>13, <2>1, <2>2, <2>4, <2>5, OtherHand
  <2>7. CountInv(q)'
    BY <1>19, <1>20, <2>1, OtherCount
  <2> QED BY <2>6, <2>7
<1>22. HandInv(p)'
  <2>1. Gone(r)' /\ Answers(r)' = {} /\ r \in hidden' /\ \A q \in Droppers : r \notin dropper'[q].wrote
    BY <1>3, <1>10, <1>13, <1>14
  <2> QED BY <1>7, <1>8, <1>10, <1>11, <2>1 DEF HandInv
<1>23. CountInv(p)'
  <2>1. \A s \in d.wrote : Counted(s)'
    BY <1>7, <1>19, <1>20
  <2>2. IsFiniteSet(d.wrote) /\ d.done = Cardinality(d.wrote) /\ d.done = d.succeeded + d.failed
    BY <1>2, <1>7 DEF CountInv
  <2>3. d.max > 0 => d.done + Cardinality(d.batch) + 1 <= d.max
    BY <1>2, <1>7, <1>9 DEF CountInv
  <2> QED BY <1>8, <1>9, <2>1, <2>2, <2>3 DEF CountInv, Counted
<1> QED BY <1>15, <1>16, <1>17, <1>18, <1>21, <1>22, <1>23 DEF DropInv

----------------------------------------------------------------------------
(* complete_claim.                                                         *)

LEMMA ArchiveKeeps ==
  ASSUME DropInv, NEW p \in Droppers, ArchiveFile(p)
  PROVE DropInv'
<1>1. PICK r, dir, slot : r = dropper[p].r /\ dir = ArchiveDir(p) /\ slot = <<dropper[p].name, dropper[p].arch>>
  OBVIOUS
<1> DEFINE c == dropper[p]
           d == [c EXCEPT !.step = "archived"]
<1>2. /\ TypeInv /\ InboxInv /\ ApartInv /\ HandInv(p) /\ CountInv(p) /\ c \in DropperSet /\ NoDrop \notin Drops
  BY DropConstants DEF DropInv, TypeInv
<1>3. /\ c.step = "placed" /\ Goto(p, "archived")
      /\ archive' = [archive EXCEPT ![dir][slot] = r] /\ hidden' = hidden \ {r}
      /\ UNCHANGED <<inbox, content, outbox, temps, executed, crowded, starts>>
  BY <1>1 DEF ArchiveFile
<1>4. /\ dropper' \in [Droppers -> DropperSet] /\ dropper'[p] = d
      /\ \A q \in Droppers : q # p => dropper'[q] = dropper[q]
  BY <1>2, <1>3, StepTyped DEF Working
<1>5. /\ d.step = "archived" /\ d.ok = c.ok /\ d.r = r /\ d.name = c.name /\ d.batch = c.batch /\ d.wrote = c.wrote
      /\ d.done = c.done /\ d.max = c.max /\ d.succeeded = c.succeeded /\ d.failed = c.failed /\ d.out = c.out
  BY <1>1, <1>2 DEF DropperSet
<1> HIDE DEF d
<1>6. Handling(p) /\ Handling(p)'
  BY <1>3, <1>4, <1>5 DEF Handling, Working
<1>7. /\ r \in Drops /\ r # NoDrop /\ r \in hidden /\ Gone(r) /\ Answers(r) = {}
      /\ c.name \in ReadyNames /\ \A q \in Droppers : r \notin dropper[q].wrote
  BY <1>1, <1>2, <1>3, <1>6 DEF HandInv
<1>8. /\ c.out \in Tries /\ c.arch \in Tries /\ (c.ok <=> executed[r] = 1)
      /\ crowded = {} => outbox[<<c.name, c.ok, c.out>>] = NoDrop
      /\ crowded = {} => archive[dir][slot] = NoDrop
  BY <1>1, <1>2, <1>3, <1>6 DEF HandInv
<1>9. dir \in Dirs /\ slot \in Slots
  BY <1>1, <1>7, <1>8 DEF ArchiveDir, Dirs, Slots, FileNames
<1>10. /\ archive' \in [Dirs -> [Slots -> Held]] /\ archive'[dir][slot] = r
       /\ \A e \in Dirs, x \in Slots : e # dir \/ x # slot => archive'[e][x] = archive[e][x]
  <2>1. archive \in [Dirs -> [Slots -> Held]] /\ r \in Held
    BY <1>2, <1>7 DEF TypeInv, Held
  <2> QED BY <1>3, <1>9, <2>1
<1>11. Archived(r)'
  BY <1>9, <1>10 DEF Archived, Slots
<1>12. \A s \in Drops : crowded = {} /\ Archived(s) => Archived(s)'
  <2> SUFFICES ASSUME NEW s \in Drops, crowded = {}, Archived(s) PROVE Archived(s)'
    OBVIOUS
  <2>1. PICK e \in Dirs, x \in Slots : archive[e][x] = s
    BY DEF Archived, Slots
  <2>2. archive'[e][x] = s
    BY <1>2, <1>8, <1>10, <2>1
  <2> QED BY <2>2 DEF Archived, Slots
<1>13. \A s : (Gone(s)' <=> Gone(s)) /\ Answers(s)' = Answers(s)
  BY <1>3 DEF Gone, Answers
<1>14. \A q \in Droppers : dropper'[q].wrote = dropper[q].wrote
  BY <1>4, <1>5
<1>15. TypeInv'
  <2>1. hidden' \in SUBSET Drops
    BY <1>2, <1>3 DEF TypeInv
  <2> QED BY <1>2, <1>3, <1>4, <1>10, <2>1 DEF TypeInv
<1>16. InboxInv'
  BY <1>2, <1>3 DEF InboxInv
<1>17. ApartInv'
  <2>1. \A q \in Droppers : /\ Handling(q)' <=> Handling(q)
                            /\ dropper'[q].r = dropper[q].r /\ dropper'[q].name = dropper[q].name
    BY <1>1, <1>4, <1>5, <1>6 DEF Handling
  <2> QED BY <1>2, <1>3, <2>1 DEF ApartInv
<1>18. ASSUME NEW s \in Drops PROVE RequestInv(s)'
  <2>1. RequestInv(s)
    BY DEF DropInv
  <2>2. ~Gone(s)' => Untouched(s)'
    BY <1>3, <1>13, <1>14, <2>1 DEF RequestInv, Untouched
  <2>3. content'[s] # "none" =>
          (\E f \in FileNames : inbox'[f] = s) \/ s \in hidden' \/ Archived(s)' \/ crowded' # {}
    BY <1>3, <1>11, <1>12, <2>1 DEF RequestInv
  <2> QED BY <1>3, <2>1, <2>2, <2>3 DEF RequestInv
<1>19. \A q \in Droppers : \A s \in dropper[q].wrote : Counted(s) /\ Counted(s)'
  <2> SUFFICES ASSUME NEW q \in Droppers, NEW s \in dropper[q].wrote PROVE Counted(s) /\ Counted(s)'
    OBVIOUS
  <2>1. s \in Drops
    BY <1>2 DEF TypeInv, DropperSet
  <2>2. Counted(s)
    BY DEF DropInv, CountInv, Counted
  <2> QED BY <1>3, <1>12, <1>13, <2>1, <2>2 DEF Counted
<1>20. ASSUME NEW q \in Droppers, q # p PROVE HandInv(q)' /\ CountInv(q)'
  <2>1. HandInv(q) /\ dropper'[q] = dropper[q]
    BY <1>4, <1>20 DEF DropInv
  <2>2. PICK e : e = dropper[q]
    OBVIOUS
  <2>3. Handling(q) => /\ e.r # r /\ e.r \in Drops /\ e.name \in FileNames
                       /\ crowded = {} => e.name # c.name
    BY <1>1, <1>2, <1>6, <1>20, <2>1, <2>2 DEF ApartInv, HandInv, FileNames
  <2>4. Handling(q) => /\ Answers(e.r)' = {} /\ executed'[e.r] = executed[e.r]
                       /\ \A o \in Droppers : e.r \notin dropper'[o].wrote
                       /\ e.r \in hidden => e.r \in hidden'
                       /\ crowded' = {} /\ Archived(e.r) => Archived(e.r)'
    BY <1>3, <1>12, <1>13, <1>14, <2>1, <2>2, <2>3 DEF HandInv
  <2>5. e.r # NoDrop => Gone(e.r)'
    BY <1>13, <2>1, <2>2 DEF HandInv
  <2>6. ASSUME Handling(q), crowded' = {}, e.arch \in Tries
        PROVE archive'[ArchiveDir(q)][<<e.name, e.arch>>] = archive[ArchiveDir(q)][<<e.name, e.arch>>]
    <3>1. <<e.name, e.arch>> \in Slots /\ <<e.name, e.arch>> # slot /\ ArchiveDir(q) \in Dirs
      BY <1>1, <1>3, <2>3, <2>6 DEF Slots, ArchiveDir, Dirs
    <3> QED BY <1>10, <3>1
  <2>7. HandInv(q)'
    BY <1>3, <2>1, <2>2, <2>4, <2>5, <2>6, OtherHand
  <2>8. CountInv(q)'
    BY <1>19, <2>1, OtherCount
  <2> QED BY <2>7, <2>8
<1>21. HandInv(p)'
  <2>1. Gone(r)' /\ Answers(r)' = {} /\ r \notin hidden' /\ \A q \in Droppers : r \notin dropper'[q].wrote
    BY <1>3, <1>7, <1>13, <1>14
  <2> QED BY <1>3, <1>4, <1>5, <1>7, <1>8, <1>11, <2>1 DEF HandInv
<1>22. CountInv(p)'
  <2>1. \A s \in d.wrote : Counted(s)'
    BY <1>5, <1>19
  <2>2. IsFiniteSet(d.wrote) /\ d.done = Cardinality(d.wrote) /\ d.done = d.succeeded + d.failed
    BY <1>2, <1>5 DEF CountInv
  <2>3. d.max > 0 => d.done + Cardinality(d.batch) + 1 <= d.max
    BY <1>2, <1>5, <1>6 DEF CountInv
  <2> QED BY <1>4, <1>6, <2>1, <2>2, <2>3 DEF CountInv, Counted
<1> QED BY <1>15, <1>16, <1>17, <1>18, <1>20, <1>21, <1>22 DEF DropInv

----------------------------------------------------------------------------
(* write_output_atomic.                                                    *)

LEMMA PublishKeeps ==
  ASSUME DropInv, NEW p \in Droppers, Publish(p)
  PROVE DropInv'
<1>1. PICK r, name : r = dropper[p].r /\ name = ResultName(p)
  OBVIOUS
<1> DEFINE c == dropper[p]
           d == [Tally(c) EXCEPT !.step = "next"]
<1>2. /\ TypeInv /\ InboxInv /\ ApartInv /\ HandInv(p) /\ CountInv(p) /\ c \in DropperSet
      /\ NoDrop \notin Drops /\ IsFiniteSet(ReadyNames)
  BY DropConstants DEF DropInv, TypeInv
<1>3. /\ c.step = "written" /\ outbox' = [outbox EXCEPT ![name] = r] /\ temps' = temps \ {r}
      /\ UNCHANGED <<inbox, content, hidden, archive, executed, crowded, starts>>
  BY <1>1 DEF Publish
<1>4. dropper' = [dropper EXCEPT ![p] = d]
  BY <1>2 DEF Publish, TypeInv
<1>5. Handling(p)
  BY <1>3 DEF Handling, Working
<1>6. /\ r \in Drops /\ r # NoDrop /\ r \notin hidden /\ Gone(r) /\ Answers(r) = {}
      /\ c.name \in ReadyNames /\ \A q \in Droppers : r \notin dropper[q].wrote
  BY <1>1, <1>2, <1>3, <1>5 DEF HandInv
<1>7. /\ c.out \in Tries /\ (c.ok <=> executed[r] = 1)
      /\ crowded = {} => outbox[name] = NoDrop /\ Archived(r)
  BY <1>1, <1>2, <1>3, <1>5 DEF HandInv, ResultName
<1>8. name \in Results /\ name[2] = c.ok /\ name[1] = c.name
  BY <1>1, <1>2, <1>6, <1>7 DEF ResultName, Results, FileNames, DropperSet
<1>9. /\ d.step = "next" /\ d.r = r /\ d.batch = c.batch /\ d.wrote = c.wrote \cup {r}
      /\ d.done = c.done + 1 /\ d.max = c.max
      /\ d.succeeded = c.succeeded + (IF c.ok THEN 1 ELSE 0)
      /\ d.failed = c.failed + (IF c.ok THEN 0 ELSE 1)
  BY <1>1, <1>2 DEF DropperSet, Tally
<1>10. d \in DropperSet
  <2> DEFINE one == IF c.ok THEN 1 ELSE 0
             other == IF c.ok THEN 0 ELSE 1
             wrote == c.wrote \cup {r}
             succeeded == c.succeeded + one
             failed == c.failed + other
             done == c.done + 1
  <2>1. c.done \in Nat /\ c.succeeded \in Nat /\ c.failed \in Nat /\ c.wrote \in SUBSET Drops
    BY <1>2 DEF DropperSet
  <2>2. done \in Nat /\ succeeded \in Nat /\ failed \in Nat /\ wrote \in SUBSET Drops
    BY <1>6, <2>1
  <2>3. d = [c EXCEPT !.done = done, !.wrote = wrote, !.succeeded = succeeded, !.failed = failed, !.step = "next"]
    BY <1>1, <1>2 DEF Tally, DropperSet
  <2> HIDE DEF one, other, wrote, succeeded, failed, done, d
  <2>4. [c EXCEPT !.done = done, !.wrote = wrote, !.succeeded = succeeded, !.failed = failed, !.step = "next"]
          \in DropperSet
    BY <1>2, <2>2 DEF DropperSet, Working
  <2> QED BY <2>3, <2>4
<1> HIDE DEF d
<1>11. /\ dropper' \in [Droppers -> DropperSet] /\ dropper'[p] = d
       /\ \A q \in Droppers : q # p => dropper'[q] = dropper[q]
  BY <1>2, <1>4, <1>10, MoveTyped
<1>12. ~Handling(p)'
  BY <1>9, <1>11 DEF Handling, Working
<1>13. /\ outbox' \in [Results -> Held] /\ outbox'[name] = r
       /\ \A x \in Results : x # name => outbox'[x] = outbox[x]
  BY <1>2, <1>3, <1>6, <1>8 DEF TypeInv, Held
<1>14. Answers(r)' = {name}
  BY <1>6, <1>8, <1>13 DEF Answers, Results
<1>15. ASSUME NEW s \in Drops, s # r
       PROVE Answers(s)' \in SUBSET Answers(s) /\ (crowded = {} => Answers(s)' = Answers(s))
  <2>1. \A x \in Results : outbox'[x] = s => outbox[x] = s
    BY <1>13, <1>15
  <2>2. crowded = {} => \A x \in Results : outbox[x] = s => outbox'[x] = s
    BY <1>2, <1>7, <1>13
  <2>3. Answers(s) = {x \in Results : outbox[x] = s} /\ Answers(s)' = {x \in Results : outbox'[x] = s}
    BY DEF Answers, Results
  <2> QED BY <2>1, <2>2, <2>3
<1>16. \A s : (Gone(s)' <=> Gone(s)) /\ (Archived(s)' <=> Archived(s))
  BY <1>3 DEF Gone, Archived
<1>17. \A q \in Droppers : \A s \in dropper'[q].wrote : s = r \/ s \in dropper[q].wrote
  BY <1>9, <1>11
<1>18. TypeInv'
  <2>1. temps' \in SUBSET Drops
    BY <1>2, <1>3 DEF TypeInv
  <2> QED BY <1>2, <1>3, <1>11, <1>13, <2>1 DEF TypeInv
<1>19. InboxInv'
  BY <1>2, <1>3 DEF InboxInv
<1>20. ApartInv'
  <2>1. \A q \in Droppers : Handling(q)' => q # p /\ Handling(q) /\ dropper'[q] = dropper[q]
    BY <1>11, <1>12 DEF Handling
  <2>2. crowded' = crowded
    BY <1>3
  <2> QED BY <1>2, <2>1, <2>2 DEF ApartInv
<1>21. ASSUME NEW s \in Drops PROVE RequestInv(s)'
  <2>1. RequestInv(s)
    BY DEF DropInv
  <2>2. ASSUME ~Gone(s)' PROVE Untouched(s)'
    <3>1. s # r /\ Untouched(s)
      BY <1>6, <1>16, <2>1, <2>2 DEF RequestInv
    <3>2. Answers(s)' = {}
      BY <1>15, <3>1 DEF Untouched
    <3> QED BY <1>3, <1>17, <3>1, <3>2 DEF Untouched
  <2> QED BY <1>3, <1>16, <2>1, <2>2 DEF RequestInv
<1>22. \A q \in Droppers : \A s \in dropper[q].wrote : s \in Drops /\ s # r /\ Counted(s) /\ Counted(s)'
  <2> SUFFICES ASSUME NEW q \in Droppers, NEW s \in dropper[q].wrote
               PROVE s \in Drops /\ s # r /\ Counted(s) /\ Counted(s)'
    OBVIOUS
  <2>1. s \in Drops /\ s # r
    BY <1>2, <1>6 DEF TypeInv, DropperSet
  <2>2. Counted(s)
    BY DEF DropInv, CountInv, Counted
  <2>3. Counted(s)'
    BY <1>3, <1>15, <1>16, <2>1, <2>2, CountedKept DEF Counted
  <2> QED BY <2>1, <2>2, <2>3
<1>23. ASSUME NEW q \in Droppers, q # p PROVE HandInv(q)' /\ CountInv(q)'
  <2>1. HandInv(q) /\ dropper'[q] = dropper[q] /\ dropper[q] \in DropperSet
    BY <1>2, <1>11, <1>23 DEF DropInv, TypeInv
  <2>2. PICK e : e = dropper[q]
    OBVIOUS
  <2>3. Handling(q) => /\ e.r # r /\ e.r \in Drops /\ e.name \in FileNames
                       /\ crowded = {} => e.name # c.name
    BY <1>1, <1>2, <1>5, <1>23, <2>1, <2>2 DEF ApartInv, HandInv, FileNames
  <2>4. Handling(q) => /\ Answers(e.r)' = {} /\ executed'[e.r] = executed[e.r]
                       /\ \A o \in Droppers : e.r \notin dropper'[o].wrote
                       /\ e.r \in hidden => e.r \in hidden'
                       /\ crowded' = {} /\ Archived(e.r) => Archived(e.r)'
    <3> SUFFICES ASSUME Handling(q)
                 PROVE /\ Answers(e.r)' = {} /\ executed'[e.r] = executed[e.r]
                       /\ \A o \in Droppers : e.r \notin dropper'[o].wrote
                       /\ e.r \in hidden => e.r \in hidden'
                       /\ crowded' = {} /\ Archived(e.r) => Archived(e.r)'
      OBVIOUS
    <3>1. Answers(e.r) = {} /\ \A o \in Droppers : e.r \notin dropper[o].wrote
      BY <2>1, <2>2 DEF HandInv
    <3>2. Answers(e.r)' = {}
      BY <1>15, <2>3, <3>1
    <3> QED BY <1>3, <1>16, <1>17, <2>3, <3>1, <3>2
  <2>5. e.r # NoDrop => Gone(e.r)'
    BY <1>16, <2>1, <2>2 DEF HandInv
  <2>6. ASSUME Handling(q), crowded' = {}, e.out \in Tries
        PROVE outbox'[<<e.name, e.ok, e.out>>] = outbox[<<e.name, e.ok, e.out>>]
    <3>1. e.ok \in BOOLEAN
      BY <2>1, <2>2 DEF DropperSet
    <3>2. <<e.name, e.ok, e.out>> \in Results /\ <<e.name, e.ok, e.out>> # name
      BY <1>3, <1>8, <2>3, <2>6, <3>1 DEF Results
    <3> QED BY <1>13, <3>2
  <2>7. HandInv(q)'
    BY <1>3, <2>1, <2>2, <2>4, <2>5, <2>6, OtherHand
  <2>8. CountInv(q)'
    BY <1>22, <2>1, OtherCount
  <2> QED BY <2>7, <2>8
<1>24. HandInv(p)'
  BY <1>3, <1>6, <1>9, <1>11, <1>12, <1>16 DEF HandInv
<1>25. CountInv(p)'
  <2>1. Counted(r)'
    BY <1>3, <1>6, <1>7, <1>8, <1>14, <1>16 DEF Counted
  <2>2. \A s \in d.wrote : Counted(s)'
    BY <1>9, <1>22, <2>1
  <2>3. c.done \in Nat /\ c.succeeded \in Nat /\ c.failed \in Nat /\ c.max \in Nat /\ c.batch \in SUBSET ReadyNames
    BY <1>2 DEF DropperSet
  <2>4. Cardinality(c.batch) \in Nat
    BY <1>2, <2>3, FS_Subset, FS_CardinalityType
  <2>5. IsFiniteSet(c.wrote) /\ c.done = Cardinality(c.wrote) /\ c.done = c.succeeded + c.failed
    BY <1>2 DEF CountInv
  <2>6. IsFiniteSet(d.wrote) /\ d.done = Cardinality(d.wrote)
    <3>1. r \notin c.wrote
      BY <1>6
    <3>2. IsFiniteSet(c.wrote \cup {r}) /\ Cardinality(c.wrote \cup {r}) = Cardinality(c.wrote) + 1
      BY <2>5, <3>1, FS_AddElement
    <3> QED BY <1>9, <2>5, <3>2
  <2>7. d.done = d.succeeded + d.failed
    BY <1>9, <2>3, <2>5
  <2>8. d.max > 0 => d.done + Cardinality(d.batch) <= d.max
    BY <1>2, <1>5, <1>9, <2>3, <2>4 DEF CountInv
  <2>9. d.done + Cardinality(d.batch) + 0 = d.done + Cardinality(d.batch)
    BY <1>9, <2>3, <2>4
  <2> QED BY <1>11, <1>12, <2>2, <2>6, <2>7, <2>8, <2>9 DEF CountInv, Counted
<1> QED BY <1>18, <1>19, <1>20, <1>21, <1>23, <1>24, <1>25 DEF DropInv

----------------------------------------------------------------------------
(* The system.                                                             *)

LEMMA InitDrop == DropInit => DropInv
<1> SUFFICES ASSUME DropInit PROVE DropInv
  OBVIOUS
<1>1. NoDrop \notin Drops /\ Runs \in Nat
  BY DropConstants
<1>2. Idle \in DropperSet
  BY DEF Idle, DropperSet, Ended, Held
<1>3. TypeInv
  <2>1. archive \in [Dirs -> [Slots -> Held]]
    BY DEF DropInit, Slots, Held
  <2>2. outbox \in [Results -> Held]
    BY DEF DropInit, Results, Held
  <2>3. dropper \in [Droppers -> DropperSet]
    BY <1>2 DEF DropInit
  <2>4. inbox \in [FileNames -> Held] /\ content \in [Drops -> Contents \cup {"none"}]
    BY DEF DropInit, Held
  <2>5. executed \in [Drops -> Nat] /\ starts \in 0 .. Runs
    BY <1>1 DEF DropInit
  <2> QED BY <2>1, <2>2, <2>3, <2>4, <2>5 DEF TypeInv, DropInit
<1>4. InboxInv
  BY DEF DropInit, InboxInv
<1>5. ASSUME NEW p \in Droppers
      PROVE dropper[p] = Idle /\ ~Handling(p) /\ dropper[p].wrote = {} /\ dropper[p].step = "off"
            /\ dropper[p].r = NoDrop
  BY DEF DropInit, Idle, Handling, Working
<1>6. ApartInv
  BY <1>5 DEF ApartInv
<1>7. ASSUME NEW r \in Drops PROVE RequestInv(r)
  <2>1. content[r] = "none" /\ executed[r] = 0 /\ hidden = {}
    BY DEF DropInit
  <2>2. Answers(r) = {}
    BY <1>1 DEF DropInit, Answers
  <2> QED BY <1>5, <2>1, <2>2 DEF RequestInv, Untouched, Gone
<1>8. ASSUME NEW p \in Droppers PROVE HandInv(p) /\ CountInv(p)
  <2>1. HandInv(p)
    BY <1>5 DEF HandInv
  <2>2. CountInv(p)
    <3>1. /\ dropper[p].done = 0 /\ dropper[p].succeeded = 0 /\ dropper[p].failed = 0 /\ dropper[p].max = 0
      BY <1>5 DEF Idle
    <3> QED BY <1>5, <3>1, FS_EmptySet DEF CountInv
  <2> QED BY <2>1, <2>2
<1> QED BY <1>3, <1>4, <1>6, <1>7, <1>8 DEF DropInv

LEMMA DropStutter == DropInv /\ UNCHANGED dropVars => DropInv'
<1> SUFFICES ASSUME DropInv, UNCHANGED dropVars PROVE DropInv'
  OBVIOUS
<1>1. TypeInv' /\ InboxInv'
  BY DEF DropInv, TypeInv, InboxInv, dropVars
<1>2. \A r \in Drops : Gone(r)' <=> Gone(r)
  BY DEF Gone, dropVars
<1>3. inbox' \in [FileNames -> Held] /\ content' \in [Drops -> Contents \cup {"none"}]
  BY <1>1 DEF TypeInv
<1> QED BY <1>1, <1>2, <1>3, ProducerKeeps DEF dropVars

LEMMA StepKeeps ==
  ASSUME DropInv, NEW p \in Droppers, DropStep(p) \/ StartDropper(p) \/ Break(p)
  PROVE DropInv'
<1>1. CASE \/ Scan(p) \/ ChooseOutput(p) \/ ChooseArchive(p) \/ WriteTemp(p) \/ EndBatch(p) \/ Break(p)
           \/ StartDropper(p)
  BY <1>1, QuietSteps, QuietKeeps
<1>2. CASE Claim(p)
  <2>1. PICK f \in FileNames :
          /\ IsFirst(f, dropper[p].batch)
          /\ IF inbox[f] = NoDrop
             THEN Goto(p, "failed") /\ UNCHANGED <<inbox, hidden, crowded>>
             ELSE /\ inbox' = Taken(f)
                  /\ hidden' = hidden \cup {inbox[f]}
                  /\ dropper' = [dropper EXCEPT ![p].step = "claimed", ![p].r = inbox[f], ![p].name = f,
                                                ![p].batch = @ \ {f}]
                  /\ crowded' = crowded \cup {n \in {f} : \E q \in Droppers \ {p} :
                                                            Handling(q) /\ dropper[q].name = n}
    BY <1>2 DEF Claim
  <2>2. dropper[p].step = "next" /\ UNCHANGED <<content, archive, outbox, temps, executed, starts>>
    BY <1>2 DEF Claim
  <2>3. CASE inbox[f] = NoDrop
    <3>1. Goto(p, "failed") /\ UNCHANGED <<inbox, hidden, executed, crowded>>
      BY <2>1, <2>2, <2>3
    <3> QED BY <1>2, <3>1, QuietSteps, QuietKeeps
  <2>4. CASE inbox[f] # NoDrop
    <3>1. PICK r \in Drops : inbox[f] = r
      BY <2>4 DEF DropInv, TypeInv, Held
    <3> QED BY <2>1, <2>2, <2>4, <3>1, ClaimKeeps
  <2> QED BY <2>3, <2>4
<1>3. CASE HandleFile(p)
  <2>1. CASE content[dropper[p].r] = "binary"
    <3>1. Goto(p, "failed") /\ UNCHANGED <<inbox, hidden, executed, crowded>>
      BY <1>3, <2>1 DEF HandleFile, Runnable
    <3> QED BY <1>3, <3>1, QuietSteps, QuietKeeps
  <2>2. CASE content[dropper[p].r] # "binary"
    BY <1>3, <2>2, HandleKeeps
  <2> QED BY <2>1, <2>2
<1>4. CASE ArchiveFile(p)
  BY <1>4, ArchiveKeeps
<1>5. CASE Publish(p)
  BY <1>5, PublishKeeps
<1> QED BY <1>1, <1>2, <1>3, <1>4, <1>5 DEF DropStep

\* Every reachable state satisfies the inductive invariant, whatever processes
\* poll the inbox, fail, die and are started again.
THEOREM DropAlways == DropSpec => []DropInv
<1>1. DropInv /\ [DropNext]_dropVars => DropInv'
  <2> SUFFICES ASSUME DropInv, [DropNext]_dropVars PROVE DropInv'
    OBVIOUS
  <2>1. ASSUME NEW r \in Drops, NEW f \in DraftNames, NEW c \in Contents, WriteDraft(r, f, c) PROVE DropInv'
    BY <2>1, WriteKeeps
  <2>2. ASSUME NEW f \in DraftNames, NEW n \in ReadyNames, HandOver(f, n) PROVE DropInv'
    BY <2>2, HandOverKeeps
  <2>3. ASSUME NEW p \in Droppers, DropStep(p) \/ StartDropper(p) \/ Break(p) PROVE DropInv'
    BY <2>3, StepKeeps
  <2>4. CASE UNCHANGED dropVars
    BY <2>4, DropStutter
  <2> QED BY <2>1, <2>2, <2>3, <2>4 DEF DropNext
<1> QED BY <1>1, InitDrop, PTL DEF DropSpec

LEMMA DropImplies == DropInv => RequestsAreKept
<1> SUFFICES ASSUME DropInv PROVE RequestsAreKept
  OBVIOUS
<1>1. TypeInv
  BY DEF DropInv
<1>2. DropTypeOK
  <2>1. \A p \in Droppers : dropper[p].step \in Working \cup Ended
    BY <1>1 DEF TypeInv, DropperSet
  <2> QED BY <1>1, <2>1 DEF TypeInv, DropTypeOK, Held
<1>3. RunsOnce /\ InputsAreKept
  BY DEF DropInv, RequestInv, RunsOnce, InputsAreKept
<1>4. DraftsAreLeftAlone
  BY DropConstants DEF DropInv, HandInv, DraftsAreLeftAlone
<1>5. CountedIsAnswered
  <2> SUFFICES ASSUME crowded = {}, NEW p \in Droppers, NEW r \in dropper[p].wrote
               PROVE /\ Cardinality(Answers(r)) = 1 /\ Archived(r)
                     /\ \A x \in Answers(r) : x[2] <=> executed[r] = 1
    BY DEF CountedIsAnswered
  <2>1. Archived(r)
    BY DEF DropInv, CountInv
  <2>2. PICK x \in Results : Answers(r) = {x} /\ (x[2] <=> executed[r] = 1)
    BY DEF DropInv, CountInv
  <2>3. Cardinality(Answers(r)) = 1
    BY <2>2, FS_Singleton
  <2> QED BY <2>1, <2>2, <2>3
<1>6. FinishedRunsHoldNothing
  BY DEF DropInv, HandInv, FinishedRunsHoldNothing
<1>7. ReportAddsUp
  <2> SUFFICES ASSUME NEW p \in Droppers
               PROVE /\ dropper[p].done = dropper[p].succeeded + dropper[p].failed
                     /\ dropper[p].done = Cardinality(dropper[p].wrote)
                     /\ dropper[p].max > 0 => dropper[p].done <= dropper[p].max
    BY DEF ReportAddsUp
  <2>1. CountInv(p) /\ dropper[p] \in DropperSet
    BY <1>1 DEF DropInv, TypeInv
  <2>2. dropper[p].done \in Nat /\ dropper[p].max \in Nat /\ dropper[p].batch \in SUBSET ReadyNames
    BY <2>1 DEF DropperSet
  <2>3. Cardinality(dropper[p].batch) \in Nat
    BY <2>2, DropConstants, FS_Subset, FS_CardinalityType
  <2> QED BY <2>1, <2>2, <2>3 DEF CountInv
<1> QED BY <1>2, <1>3, <1>4, <1>5, <1>6, <1>7 DEF RequestsAreKept

\* RequestsAreKept for any processes, request files, names and limits: a
\* request's command is run at most once; unless two processes work on one
\* name at once, no input is lost and every file a run counted has its one
\* answer; no draft is claimed; a run that ended well holds no claim; and the
\* report adds up within --max-files (run_file_drop, claim_ready_file,
\* unique_path, complete_claim, write_output_atomic).
THEOREM RequestsKept == DropSpec => []RequestsAreKept
BY DropAlways, DropImplies, PTL

----------------------------------------------------------------------------
(* The stdio loop.                                                         *)

OutputFrames == [line : Nat, id : BOOLEAN, sequence : Nat, ok : BOOLEAN]

\* What a frame of the given kind is answered with: some output, then at most
\* one error.
Oks == {<<TRUE>>, <<FALSE>>, <<TRUE, TRUE>>, <<TRUE, FALSE>>}

Answerable == {"invalid", "works", "fails", "late", "stream", "broken"}

\* The concatenations that make it up.
LEMMA Joined ==
  ASSUME NEW a, NEW b
  PROVE  <<a>> \o <<b>> = <<a, b>> /\ <<a>> \o <<>> = <<a>> /\ <<>> \o <<b>> = <<b>> /\ <<a, b>> \o <<>> = <<a, b>>
<1>1. <<a>> \in Seq({a, b}) /\ <<b>> \in Seq({a, b}) /\ <<a, b>> \in Seq({a, b})
  OBVIOUS
<1>2. <<a>> \o <<b>> = Append(<<a>>, b)
  BY <1>1, AppendIsConcat
<1>3. PICK both : both = Append(<<a>>, b)
  OBVIOUS
<1>4. both \in Seq({a, b}) /\ Len(both) = 2 /\ both[1] = a /\ both[2] = b
  BY <1>1, <1>3, AppendProperties
<1>5. both = <<a, b>>
  BY <1>1, <1>4, SeqEqual
<1>6. <<a>> \o <<>> = <<a>> /\ <<a, b>> \o <<>> = <<a, b>>
  BY <1>1, ConcatEmptySeq
<1>7. <<>> \o <<b>> = <<b>>
  BY <1>1, ConcatEmptySeq
<1> QED
  BY <1>2, <1>3, <1>5, <1>6, <1>7

LEMMA One ==
  ASSUME NEW a
  PROVE  Len(<<a>>) = 1 /\ DOMAIN <<a>> = 1 .. 1 /\ \A k \in 1 .. 1 : <<a>>[k] = a
OBVIOUS

LEMMA Two ==
  ASSUME NEW a, NEW b
  PROVE  Len(<<a, b>>) = 2 /\ DOMAIN <<a, b>> = 1 .. 2 /\ \A k \in 1 .. 2 : <<a, b>>[k] = IF k = 1 THEN a ELSE b
OBVIOUS

LEMMA AnswerOksShape ==
  ASSUME NEW kind \in Answerable
  PROVE  AnswerOks(kind) \in Oks
<1>1. PICK failed : failed = (kind \in {"fails", "invalid", "late", "broken"})
  OBVIOUS
<1>2. PICK out : out = Wrapped(kind)
  OBVIOUS
<1>3. AnswerOks(kind) = out \o (IF failed THEN <<FALSE>> ELSE <<>>)
  BY <1>1, <1>2 DEF AnswerOks
<1>4. \/ failed /\ out \in {<<>>, <<TRUE>>}
      \/ ~failed /\ out \in {<<TRUE>>, <<TRUE, TRUE>>}
  BY <1>1, <1>2 DEF Answerable, Wrapped
<1> QED
  BY <1>3, <1>4, Joined DEF Oks

\* A well formed answer to one line.
Answering(line, frames) ==
  /\ frames \in Seq(OutputFrames) /\ Len(frames) \in Nat \ {0}
  /\ \A k \in 1 .. Len(frames) : frames[k].line = line /\ frames[k].sequence = k - 1
  /\ \A k \in 1 .. Len(frames) - 1 : frames[k].ok

LEMMA AnswerShape ==
  ASSUME NEW line \in Nat, NEW kind \in Answerable
  PROVE  Answering(line, Answer(line, kind))
<1>1. PICK oks \in Oks : oks = AnswerOks(kind)
  BY AnswerOksShape
<1>2. /\ Len(oks) \in 1 .. 2 /\ DOMAIN oks = 1 .. Len(oks)
      /\ \A k \in 1 .. Len(oks) : oks[k] \in BOOLEAN
      /\ \A k \in 1 .. Len(oks) - 1 : oks[k] = TRUE
  <2>1. \E a \in BOOLEAN : oks = <<a>> \/ oks = <<TRUE, a>>
    BY DEF Oks
  <2>2. PICK a \in BOOLEAN : oks = <<a>> \/ oks = <<TRUE, a>>
    BY <2>1
  <2>3. CASE oks = <<a>>
    BY <2>3, One
  <2>4. CASE oks = <<TRUE, a>>
    <3>1. PICK t : t = TRUE
      OBVIOUS
    <3>2. Len(oks) = 2 /\ DOMAIN oks = 1 .. 2 /\ \A k \in 1 .. 2 : oks[k] = IF k = 1 THEN t ELSE a
      BY <2>4, <3>1, Two
    <3>3. \A k \in 1 .. 2 : oks[k] \in {t, a}
      BY <3>2
    <3>4. oks[1] = t
      BY <3>2
    <3>5. \A k \in 1 .. Len(oks) - 1 : k = 1
      BY <3>2
    <3>6. Len(oks) \in 1 .. 2 /\ DOMAIN oks = 1 .. Len(oks)
      BY <3>2
    <3> QED
      BY <3>1, <3>2, <3>3, <3>4, <3>5, <3>6, Zenon
  <2> QED
    BY <2>2, <2>3, <2>4
<1>3. PICK n \in 1 .. 2 : n = Len(oks)
  BY <1>2
<1>4. \A k \in 1 .. n : OutputFrame(line, kind, k) \in OutputFrames /\ OutputFrame(line, kind, k).line = line
                        /\ OutputFrame(line, kind, k).sequence = k - 1 /\ OutputFrame(line, kind, k).ok = oks[k]
  BY <1>1, <1>2, <1>3 DEF OutputFrame, OutputFrames
<1>5. PICK frames : frames = Answer(line, kind)
  OBVIOUS
<1>6. frames = [k \in 1 .. n |-> OutputFrame(line, kind, k)]
  BY <1>1, <1>2, <1>3, <1>5 DEF Answer
<1>7. frames \in Seq(OutputFrames) /\ Len(frames) = n
  BY <1>4, <1>6, SeqDef, LenProperties
<1> QED
  BY <1>2, <1>3, <1>4, <1>5, <1>6, <1>7 DEF Answering

\* The frames written so far belong to the lines up to `upTo`, in order.
InOrder(out, upTo) ==
  /\ \A i, j \in 1 .. Len(out) : i < j => out[i].line <= out[j].line
  /\ \A k \in 1 .. Len(out) : out[k].line <= upTo
Numbered(out) ==
  \A k \in 1 .. Len(out) :
    IF k = 1 \/ out[k - 1].line # out[k].line THEN out[k].sequence = 0
    ELSE out[k].sequence = out[k - 1].sequence + 1 /\ out[k - 1].ok
AnswersLine(out, i) == \E k \in 1 .. Len(out) : out[k].line = i

\* An answer to the next line keeps the output in order.
LEMMA AnswerAdded ==
  ASSUME NEW out \in Seq(OutputFrames), NEW upTo \in Nat, NEW frames,
         InOrder(out, upTo), Numbered(out), Answering(upTo + 1, frames)
  PROVE  /\ out \o frames \in Seq(OutputFrames)
         /\ InOrder(out \o frames, upTo + 1) /\ Numbered(out \o frames)
         /\ \A i \in Nat : AnswersLine(out \o frames, i) <=> AnswersLine(out, i) \/ i = upTo + 1
<1>1. PICK new : new = out \o frames
  OBVIOUS
<1>2. PICK n \in Nat : n = Len(out)
  BY LenProperties
<1>3. PICK m \in Nat \ {0} : m = Len(frames)
  BY DEF Answering
<1>4. /\ new \in Seq(OutputFrames) /\ Len(new) = n + m
      /\ \A k \in 1 .. n + m : new[k] = IF k <= n THEN out[k] ELSE frames[k - n]
  BY <1>1, <1>2, <1>3, ConcatProperties DEF Answering
<1>5. \A k \in 1 .. n : new[k] = out[k] /\ out[k].line \in Nat /\ out[k].line <= upTo
  <2>1. \A k \in 1 .. n : out[k] \in OutputFrames
    BY <1>2, ElementOfSeq
  <2> QED
    BY <1>2, <1>4, <2>1 DEF InOrder, OutputFrames
<1>6. \A k \in n + 1 .. n + m : /\ new[k].line = upTo + 1 /\ new[k].sequence = k - n - 1
                                /\ k < n + m => new[k].ok
  <2> TAKE k \in n + 1 .. n + m
  <2>1. k - n \in 1 .. m /\ new[k] = frames[k - n]
    BY <1>4
  <2> QED
    BY <2>1, <1>3 DEF Answering
<1>7. InOrder(new, upTo + 1)
  <2>1. \A k \in 1 .. Len(new) : new[k].line <= upTo + 1
    BY <1>4, <1>5, <1>6
  <2>2. ASSUME NEW i \in 1 .. Len(new), NEW j \in 1 .. Len(new), i < j
        PROVE  new[i].line <= new[j].line
    <3>1. CASE j <= n
      BY <1>2, <1>4, <1>5, <2>2, <3>1 DEF InOrder
    <3>2. CASE j > n
      <4>1. j \in n + 1 .. n + m
        BY <1>4, <3>2
      <4>2. new[j].line = upTo + 1
        BY <1>6, <4>1
      <4> QED
        BY <2>1, <4>2
    <3> QED
      BY <3>1, <3>2
  <2> QED
    BY <2>1, <2>2 DEF InOrder
<1>8. Numbered(new)
  <2> SUFFICES ASSUME NEW k \in 1 .. Len(new)
               PROVE  IF k = 1 \/ new[k - 1].line # new[k].line THEN new[k].sequence = 0
                      ELSE new[k].sequence = new[k - 1].sequence + 1 /\ new[k - 1].ok
    BY DEF Numbered
  <2>1. CASE k <= n
    <3>1. k \in 1 .. Len(out) /\ new[k] = out[k] /\ (k # 1 => new[k - 1] = out[k - 1])
      BY <1>2, <1>4, <1>5, <2>1
    <3> QED
      BY <3>1 DEF Numbered
  <2>2. CASE k = n + 1
    <3>1. new[k].sequence = 0 /\ new[k].line = upTo + 1
      <4>1. k \in n + 1 .. n + m /\ k - n - 1 = 0
        BY <1>2, <1>3, <2>2
      <4> QED
        BY <1>6, <4>1
    <3>2. k # 1 => new[k - 1].line \in Nat /\ new[k - 1].line <= upTo
      BY <1>5, <2>2
    <3> QED
      BY <3>1, <3>2
  <2>3. CASE k > n + 1
    <3>1. k \in n + 1 .. n + m /\ k - 1 \in n + 1 .. n + m
      BY <1>4, <2>3
    <3>2. new[k].sequence = k - n - 1 /\ new[k - 1].sequence = k - 1 - n - 1 /\ new[k - 1].ok
          /\ new[k].line = upTo + 1 /\ new[k - 1].line = upTo + 1
      BY <1>6, <3>1
    <3> QED
      BY <2>3, <3>2
  <2> QED
    BY <1>4, <2>1, <2>2, <2>3
<1>9. ASSUME NEW i \in Nat
      PROVE  AnswersLine(new, i) <=> AnswersLine(out, i) \/ i = upTo + 1
  <2>1. \A k \in 1 .. n : new[k].line = out[k].line
    BY <1>5
  <2>2. n + 1 \in 1 .. n + m /\ new[n + 1].line = upTo + 1
    BY <1>6
  <2>3. \A k \in 1 .. n + m : k \in 1 .. n \/ new[k].line = upTo + 1
    BY <1>6
  <2>4. \A k \in 1 .. n : k \in 1 .. n + m
    OBVIOUS
  <2>5. AnswersLine(new, i) <=> \E k \in 1 .. n + m : new[k].line = i
    BY <1>4 DEF AnswersLine
  <2>6. AnswersLine(out, i) <=> \E k \in 1 .. n : out[k].line = i
    BY <1>2 DEF AnswersLine
  <2> QED
    BY <2>1, <2>2, <2>3, <2>4, <2>5, <2>6, Zenon
<1> QED
  BY <1>1, <1>4, <1>7, <1>8, <1>9

StdioTypes ==
  /\ stdin \in Seq(LineKinds) /\ stdioMode \in {"single", "long"} /\ framing \in {"json", "ndjson"}
  /\ at \in 0 .. Len(stdin) /\ stdout \in Seq(OutputFrames)
  /\ stdioResult \in {"running", "ok", "error", "refused"}

\* A long run has answered what it has read past; a single shot has not begun.
StdioLong ==
  stdioMode = "long" =>
    /\ InOrder(stdout, at)
    /\ \A i \in 1 .. at : AnswersLine(stdout, i) <=> stdin[i] # "blank" /\ ~(stdioResult = "error" /\ i = at)
    /\ stdioResult = "error" => at # 0 /\ EndsRun(stdin[at])
SingleEnds == \E i \in DOMAIN stdin : stdin[i] = "unconvertible" \/ (stdin[i] = "undecodable" /\ framing = "ndjson")
StdioSingle ==
  stdioMode = "single" => /\ stdioResult = "running" => stdout = <<>>
                          /\ stdioResult = "error" => SingleEnds
                          /\ \A k \in 1 .. Len(stdout) : stdout[k].line = 1

StdioInv == StdioTypes /\ StdioLong /\ StdioSingle /\ Numbered(stdout)

LEMMA StdioInitOk == StdioInit => StdioInv
<1> SUFFICES ASSUME StdioInit PROVE StdioInv
  OBVIOUS
<1>1. stdin \in Seq(LineKinds)
  <2>1. PICK n \in StdinLengths : stdin \in [1 .. n -> LineKinds]
    BY DEF StdioInit
  <2> QED
    BY <2>1, StdioConstants, SeqDef
<1>2. at = 0 /\ Len(stdin) \in Nat
  BY <1>1, LenProperties DEF StdioInit
<1>3. stdout = <<>> /\ stdout \in Seq(OutputFrames) /\ Len(stdout) = 0
  BY DEF StdioInit
<1>4. stdioResult \in {"running", "refused"} /\ stdioMode \in {"single", "long"} /\ framing \in {"json", "ndjson"}
  BY DEF StdioInit
<1> QED
  BY <1>1, <1>2, <1>3, <1>4 DEF StdioInv, StdioTypes, StdioLong, StdioSingle, Numbered, InOrder, AnswersLine

LEMMA ReadLineOk ==
  ASSUME StdioInv, ReadLine
  PROVE  StdioInv'
<1>1. /\ stdioResult = "running" /\ stdioMode = "long" /\ at \in Nat /\ Len(stdin) \in Nat /\ at < Len(stdin) /\ at' = at + 1
      /\ stdin' = stdin /\ stdioMode' = stdioMode /\ framing' = framing
  BY LenProperties DEF StdioInv, StdioTypes, ReadLine
<1>2. PICK kind \in LineKinds : kind = stdin[at + 1]
  BY <1>1, ElementOfSeq DEF StdioInv, StdioTypes
<1>3. stdout \in Seq(OutputFrames) /\ InOrder(stdout, at) /\ Numbered(stdout)
  BY <1>1 DEF StdioInv, StdioTypes, StdioLong
<1>4. \A k \in 1 .. Len(stdout) : stdout[k].line \in Nat /\ stdout[k].line <= at
  <2>1. \A k \in 1 .. Len(stdout) : stdout[k] \in OutputFrames
    BY <1>3, ElementOfSeq
  <2> QED
    BY <1>3, <2>1 DEF InOrder, OutputFrames
<1>5. ~AnswersLine(stdout, at + 1) /\ InOrder(stdout, at + 1)
  BY <1>1, <1>3, <1>4 DEF AnswersLine, InOrder
<1>6. \A i \in 1 .. at : AnswersLine(stdout, i) <=> stdin[i] # "blank"
  BY <1>1 DEF StdioInv, StdioLong
<1>7. \A i \in 1 .. at + 1 : i \in 1 .. at \/ i = at + 1
  BY <1>1
<1>8. CASE kind = "blank" /\ UNCHANGED <<stdout, stdioResult>>
  <2>1. StdioLong'
    BY <1>1, <1>2, <1>5, <1>6, <1>7, <1>8 DEF StdioLong
  <2> QED
    BY <1>1, <1>3, <1>8, <2>1 DEF StdioInv, StdioTypes, StdioSingle
<1>9. CASE EndsRun(kind) /\ stdioResult' = "error" /\ UNCHANGED stdout
  <2>1. StdioLong'
    BY <1>1, <1>2, <1>5, <1>6, <1>7, <1>9 DEF StdioLong, EndsRun
  <2> QED
    BY <1>1, <1>3, <1>9, <2>1 DEF StdioInv, StdioTypes, StdioSingle
<1>10. CASE kind # "blank" /\ ~EndsRun(kind) /\ stdout' = stdout \o Answer(at + 1, kind) /\ UNCHANGED stdioResult
  <2>1. kind \in Answerable
    BY <1>10 DEF LineKinds, Answerable, EndsRun
  <2>2. Answering(at + 1, Answer(at + 1, kind))
    BY <1>1, <2>1, AnswerShape
  <2>3. /\ stdout' \in Seq(OutputFrames) /\ InOrder(stdout', at + 1) /\ Numbered(stdout')
        /\ \A i \in Nat : AnswersLine(stdout', i) <=> AnswersLine(stdout, i) \/ i = at + 1
    BY <1>1, <1>3, <1>10, <2>2, AnswerAdded
  <2>4. StdioLong'
    BY <1>1, <1>2, <1>6, <1>7, <1>10, <2>3 DEF StdioLong
  <2> QED
    BY <1>1, <1>10, <2>3, <2>4 DEF StdioInv, StdioTypes, StdioSingle
<1> QED
  BY <1>2, <1>8, <1>9, <1>10 DEF ReadLine

LEMMA SingleShotOk ==
  ASSUME StdioInv, SingleShot
  PROVE  StdioInv'
<1>1. /\ stdioResult = "running" /\ stdioMode = "single" /\ Len(stdin) \in Nat /\ stdout = <<>>
      /\ stdin' = stdin /\ stdioMode' = stdioMode /\ framing' = framing /\ stdin \in Seq(LineKinds)
  BY LenProperties DEF StdioInv, StdioTypes, StdioSingle, SingleShot
<1>2. at' \in 0 .. Len(stdin)
  <2>1. stdin # <<>> => Len(stdin) # 0
    BY <1>1, EmptySeq
  <2> QED
    BY <1>1, <2>1 DEF SingleShot
<1>3. SingleKind \in LineKinds \ {"blank"} /\ (EndsRun(SingleKind) => SingleEnds)
  <2>1. \A i \in DOMAIN stdin : stdin[i] \in LineKinds
    BY <1>1, ElementOfSeq
  <2>2. stdin # <<>> => 1 \in DOMAIN stdin
    BY <1>1, EmptySeq, LenProperties
  <2>3. PICK full : full = {i \in DOMAIN stdin : stdin[i] # "blank"}
    OBVIOUS
  <2>4. ASSUME \E i \in full : full = {i} /\ stdin[i] # "undecodable"
        PROVE  \E i \in DOMAIN stdin : /\ stdin[i] \notin {"blank", "undecodable"}
                                       /\ stdin[CHOOSE i1 \in full : TRUE] = stdin[i]
    <3>1. PICK i \in full : full = {i} /\ stdin[i] # "undecodable"
      BY <2>4
    <3>2. (CHOOSE i1 \in full : TRUE) = i
      BY <3>1
    <3> QED
      BY <2>3, <3>1, <3>2
  <2>5. "invalid" \in LineKinds \ {"blank"} /\ ~EndsRun("invalid")
    BY DEF LineKinds, EndsRun
  <2>6. SingleKind = LET first == IF stdin = <<>> THEN "blank" ELSE stdin[1]
                     IN IF framing = "json"
                        THEN IF \E i \in full : full = {i} /\ stdin[i] # "undecodable"
                             THEN stdin[CHOOSE i1 \in full : TRUE] ELSE "invalid"
                        ELSE IF first = "blank" THEN "invalid" ELSE first
    BY <2>3 DEF SingleKind
  <2>7. \/ SingleKind = "invalid"
        \/ \E i \in DOMAIN stdin : /\ SingleKind = stdin[i] /\ stdin[i] # "blank"
                                   /\ framing = "json" => stdin[i] # "undecodable"
    <3>1. CASE framing = "json"
      BY <2>4, <2>6, <3>1
    <3>2. CASE framing # "json"
      BY <2>2, <2>6, <3>2
    <3> QED
      BY <3>1, <3>2
  <2>8. SingleKind \in LineKinds \ {"blank"}
    BY <2>1, <2>5, <2>7
  <2>9. EndsRun(SingleKind) => SingleEnds
    <3>1. framing \in {"json", "ndjson"}
      BY DEF StdioInv, StdioTypes
    <3> QED
      BY <2>5, <2>7, <3>1 DEF EndsRun, SingleEnds
  <2> QED
    BY <2>8, <2>9
<1>4. CASE EndsRun(SingleKind)
  <2>1. SingleEnds'
    BY <1>1, <1>3, <1>4 DEF SingleEnds
  <2>2. stdioResult' = "error" /\ stdout' = stdout
    BY <1>4 DEF SingleShot
  <2> QED
    BY <1>1, <1>2, <2>1, <2>2 DEF StdioInv, StdioTypes, StdioLong, StdioSingle
<1>5. CASE ~EndsRun(SingleKind)
  <2>1. SingleKind \in Answerable
    BY <1>3, <1>5 DEF LineKinds, Answerable, EndsRun
  <2>2. Answering(1, stdout') /\ stdioResult' = "ok"
    BY <1>5, <2>1, AnswerShape DEF SingleShot
  <2>3. Numbered(stdout')
    <3>1. PICK out : out = stdout'
      OBVIOUS
    <3> QED
      BY <2>2, <3>1 DEF Answering, Numbered
  <2>4. stdout' \in Seq(OutputFrames) /\ \A k \in 1 .. Len(stdout') : stdout'[k].line = 1
    BY <2>2 DEF Answering
  <2> QED
    BY <1>1, <1>2, <2>2, <2>3, <2>4 DEF StdioInv, StdioTypes, StdioLong, StdioSingle
<1> QED
  BY <1>4, <1>5

LEMMA StdioStepOk ==
  ASSUME StdioInv, StdioNext \/ UNCHANGED stdioVars
  PROVE  StdioInv'
<1>1. CASE ReadLine
  BY <1>1, ReadLineOk
<1>2. CASE EndOfInput
  BY <1>2 DEF EndOfInput, StdioInv, StdioTypes, StdioLong, StdioSingle
<1>3. CASE SingleShot
  BY <1>3, SingleShotOk
<1>4. CASE UNCHANGED stdioVars
  BY <1>4 DEF stdioVars, StdioInv, StdioTypes, StdioLong, StdioSingle, SingleEnds
<1> QED
  BY <1>1, <1>2, <1>3, <1>4 DEF StdioNext

LEMMA StdioGoal ==
  ASSUME StdioInv
  PROVE  StdioTypeOK /\ EveryLineAnswered /\ OnlyTwoLinesEndIt
<1>1. stdout \in Seq(OutputFrames) /\ DOMAIN stdout = 1 .. Len(stdout)
  BY LenProperties DEF StdioInv, StdioTypes
<1>2. \A k \in 1 .. Len(stdout) : stdout[k] \in OutputFrames
  BY <1>1, ElementOfSeq
<1>3. StdioTypeOK
  BY <1>1, <1>2 DEF StdioInv, StdioTypes, StdioTypeOK, OutputFrames
<1>4. \A i, j \in DOMAIN stdout : i < j => stdout[i].line <= stdout[j].line
  BY <1>1, <1>2 DEF StdioInv, StdioTypes, StdioLong, StdioSingle, InOrder, OutputFrames
<1>5. EveryLineAnswered
  BY <1>1, <1>4 DEF StdioInv, StdioLong, EveryLineAnswered, Numbered, AnswersLine
<1> QED
  BY <1>3, <1>5 DEF StdioInv, StdioLong, StdioSingle, SingleEnds, EndsRun, OnlyTwoLinesEndIt

----------------------------------------------------------------------------
(* The frames.                                                             *)

LEMMA FrameFields ==
  ASSUME NEW f \in FrameRecords
  PROVE  /\ f.id \in Texts /\ f.source \in Texts /\ f.resume \in Texts /\ f.command \in Foreground \cup JobCommands
         /\ f.agent \in Texts \cup {NoText} /\ f.group \in Texts /\ f.context \in Texts \cup {NoText}
         /\ f.task \in Texts \cup {NoText} /\ f.short \in Texts \cup {NoText}
         /\ f.parts \in Nat /\ f.count \in Nat /\ f.history \in Nat /\ f.attempts \in Nat
BY DEF FrameRecords

\* The message id made of a frame id is a message id.
LEMMA MessageIdOk ==
  ASSUME NEW f \in FrameRecords, NEW kind \in BuiltinKinds, FrameId(f.id)
  PROVE  OpaqueId(MessageIdOf(kind, f))
<1>1. f.id \in Texts
  BY FrameFields
<1>2. f.id.len \in 1 .. 128 /\ f.id.shape \notin {"spaced", "blank", "control"}
  BY DEF FrameId, Solid, FRAME_ID_MAX_BYTES
<1>3. PICK n \in {10, 14, 9} : MessageIdOf(kind, f) = Prefixed(n, f.id)
  BY DEF MessageIdOf, BuiltinKinds
<1>4. Prefixed(n, f.id).len = n + f.id.len /\ Prefixed(n, f.id).shape = "free"
  BY <1>2 DEF Prefixed
<1> QED
  BY <1>2, <1>3, <1>4 DEF OpaqueId, Solid, OPAQUE_IDENTIFIER_MAX_BYTES

LEMMA HeaderOfValid ==
  ASSUME NEW f, NEW kind \in BuiltinKinds, FrameValid(kind, f)
  PROVE  HeaderValid(kind, f)
BY DEF FrameValid, BuiltinKinds, StdioValid, FileDropValid, HttpValid

\* A frame under another marker.
LEMMA ForFields ==
  ASSUME NEW f \in FrameRecords, NEW kind
  PROVE  /\ For(kind, f).schema = kind /\ For(kind, f).id = f.id /\ For(kind, f).source = f.source
         /\ For(kind, f).resume = f.resume /\ For(kind, f).command = f.command
         /\ For(kind, f).agent = f.agent /\ For(kind, f).context = f.context /\ For(kind, f).task = f.task
         /\ For(kind, f).parts = f.parts /\ For(kind, f).short = f.short
         /\ For(kind, f).count = f.count /\ For(kind, f).history = f.history
BY DEF For, FrameRecords

\* What the marker decides, and what it does not.
Rest(f) == FrameId(f.id) /\ ExternalId(f.source) /\ f.resume.shape # "blank" /\ f.resume.len > 0

LEMMA ForHeader ==
  ASSUME NEW f \in FrameRecords, NEW kind, NEW k
  PROVE  /\ HeaderValid(k, For(kind, f)) <=> kind \in {k, NoText} /\ Rest(f)
         /\ HeaderValid(k, f) <=> f.schema \in {k, NoText} /\ Rest(f)
BY ForFields DEF HeaderValid, Rest

LEMMA ForRest ==
  ASSUME NEW f \in FrameRecords, NEW kind, NEW command
  PROVE  FieldsValid(For(kind, f), command) <=> FieldsValid(f, command)
BY ForFields DEF FieldsValid, MessageValid, TaskFieldsValid, Maybe

LEMMA ForStdio ==
  ASSUME NEW f \in FrameRecords
  PROVE  StdioValid(to_stdio_frame(f)) <=> f.command \in Foreground /\ Rest(f) /\ FieldsValid(f, f.command)
<1>1. HeaderValid("stdio", For("stdio", f)) <=> Rest(f)
  BY ForHeader
<1>2. FieldsValid(For("stdio", f), f.command) <=> FieldsValid(f, f.command)
  BY ForRest
<1>3. For("stdio", f).command = f.command
  BY ForFields
<1> QED
  BY <1>1, <1>2, <1>3 DEF StdioValid, to_stdio_frame

\* A valid frame names a valid agent and context, wherever it names one.
LEMMA TargetOk ==
  ASSUME NEW f \in FrameRecords, NEW kind \in BuiltinKinds, FrameValid(kind, f)
  PROVE  Maybe(TargetAgent(f), NamedId) /\ Maybe(TargetContext(f), OpaqueId)
<1>1. f.command \in Foreground \cup JobCommands
  BY FrameFields
<1>2. CASE f.command \in Foreground
  <2>1. FieldsValid(f, f.command)
    BY <1>2, ForStdio DEF FrameValid, BuiltinKinds, StdioValid, FileDropValid, HttpValid
  <2>2. Maybe(f.agent, NamedId)
    BY <2>1 DEF FieldsValid, MessageValid, TaskFieldsValid, Maybe
  <2>3. f.command \in {"send", "stream", "task_list"} => Maybe(f.context, OpaqueId)
    BY <2>1 DEF FieldsValid, MessageValid, TaskFieldsValid, Maybe
  <2> QED
    BY <1>2, <2>2, <2>3 DEF TargetAgent, TargetContext, Maybe, Absent, Foreground
<1>3. CASE f.command \in JobCommands
  <2>1. f.command \notin Foreground
    BY <1>3 DEF Foreground, JobCommands
  <2>2. JobFieldsValid(f)
    BY <2>1 DEF FrameValid, BuiltinKinds, StdioValid, FileDropValid, HttpValid
  <2>3. f.command \in {"job_start_send", "job_start_stream"} => Maybe(f.agent, NamedId) /\ Maybe(f.context, OpaqueId)
    BY <2>2 DEF JobFieldsValid, FieldsValid, MessageValid, Maybe
  <2>4. f.command = "job_start_wait" => Maybe(f.agent, NamedId)
    BY <2>2 DEF JobFieldsValid, FieldsValid, TaskFieldsValid
  <2>5. f.command = "job_start_reduce" => Maybe(f.context, OpaqueId)
    BY <2>2 DEF JobFieldsValid, Maybe
  <2>6. f.command = "job_list" => Maybe(f.agent, NamedId) /\ Maybe(f.context, OpaqueId)
    BY <2>2 DEF JobFieldsValid
  <2> QED
    BY <1>3, <2>3, <2>4, <2>5, <2>6 DEF TargetAgent, TargetContext, Maybe, Absent, JobCommands
<1> QED
  BY <1>1, <1>2, <1>3

LEMMA ValidMaps ==
  ASSUME NEW f \in FrameRecords, NEW kind \in BuiltinKinds, FrameValid(kind, f)
  PROVE  Maps(kind, f) <=> AdapterId(f.resume)
<1>1. HeaderValid(kind, f)
  BY HeaderOfValid
<1>2. OpaqueId(MessageIdOf(kind, f))
  BY <1>1, MessageIdOk DEF HeaderValid
<1>3. IdentityMaps(f)
  BY <1>1 DEF IdentityMaps, HeaderValid
<1> QED
  BY <1>2, <1>3, TargetOk DEF Maps, SessionMaps

LEMMA SameVerdict ==
  ASSUME NEW f \in FrameRecords, f.command \in Foreground, NEW k \in BuiltinKinds
  PROVE  /\ FrameValid(k, f) <=> f.schema \in {k, NoText} /\ Rest(f) /\ FieldsValid(f, f.command)
         /\ FrameValid(k, For(k, f)) <=> Rest(f) /\ FieldsValid(f, f.command)
<1>1. ASSUME NEW g \in FrameRecords, g.command = f.command
      PROVE  FrameValid(k, g) <=> g.schema \in {k, NoText} /\ Rest(g) /\ FieldsValid(g, g.command)
  <2>1. StdioValid(g) <=> g.schema \in {"stdio", NoText} /\ Rest(g) /\ FieldsValid(g, g.command)
    BY <1>1, ForHeader DEF StdioValid
  <2>2. FileDropValid(g) <=> g.schema \in {"file-drop", NoText} /\ Rest(g) /\ FieldsValid(g, g.command)
    BY <1>1, ForHeader, ForStdio DEF FileDropValid
  <2>3. HttpValid(g) <=> g.schema \in {"http", NoText} /\ Rest(g) /\ FieldsValid(g, g.command)
    BY <1>1, ForHeader, ForStdio DEF HttpValid
  <2> QED
    BY <2>1, <2>2, <2>3 DEF FrameValid, BuiltinKinds
<1>2. For(k, f) \in FrameRecords
  BY DEF For, FrameRecords, Markers
<1>3. For(k, f).command = f.command /\ For(k, f).schema = k
  BY ForFields
<1>4. Rest(For(k, f)) <=> Rest(f)
  BY ForFields DEF Rest
<1>5. FieldsValid(For(k, f), f.command) <=> FieldsValid(f, f.command)
  BY ForRest
<1>6. FrameValid(k, For(k, f)) <=> Rest(f) /\ FieldsValid(f, f.command)
  BY <1>1, <1>2, <1>3, <1>4, <1>5
<1> QED
  BY <1>1, <1>6

LEMMA JobRunnable ==
  ASSUME NEW f \in FrameRecords, FileDropValid(f), NEW job, NEW command,
         \/ job = "job_start_send" /\ command = "send"
         \/ job = "job_start_stream" /\ command = "stream"
         \/ job = "job_start_wait" /\ command = "task_wait",
         f.command = job
  PROVE  StdioValid([to_stdio_frame(f) EXCEPT !.command = command])
<1>1. PICK g : g = [to_stdio_frame(f) EXCEPT !.command = command]
  OBVIOUS
<1>2. /\ g.schema = "stdio" /\ g.id = f.id /\ g.source = f.source /\ g.resume = f.resume /\ g.command = command
      /\ g.agent = f.agent /\ g.context = f.context /\ g.task = f.task /\ g.parts = f.parts /\ g.short = f.short
      /\ g.count = f.count /\ g.history = f.history
  BY <1>1 DEF FrameRecords, to_stdio_frame, For
<1>3. f.command \notin Foreground /\ command \in Foreground
  BY DEF Foreground
<1>4. HeaderValid("file-drop", f) /\ JobFieldsValid(f)
  BY <1>3 DEF FileDropValid
<1>5. HeaderValid("stdio", g)
  BY <1>2, <1>4 DEF HeaderValid
<1>6. FieldsValid(f, command)
  BY <1>4 DEF JobFieldsValid
<1>7. FieldsValid(g, command)
  BY <1>2, <1>6 DEF FieldsValid, MessageValid, TaskFieldsValid, Maybe
<1> QED
  BY <1>1, <1>2, <1>3, <1>5, <1>7 DEF StdioValid

LEMMA ProbeGoal ==
  ASSUME probe \in Frames \cup {NoText}
  PROVE  ValidFramesMap /\ OneVerdict /\ JobsCarryRunnableCommands
<1>1. probe # NoText => probe \in FrameRecords
  BY FramesAssumption
<1>2. ValidFramesMap
  BY <1>1, ValidMaps DEF ValidFramesMap
<1>3. OneVerdict
  <2> SUFFICES ASSUME probe # NoText, probe.command \in Foreground PROVE OneVerdict
    BY DEF OneVerdict
  <2>1. \A k \in BuiltinKinds :
          /\ FrameValid(k, probe) <=> probe.schema \in {k, NoText} /\ Rest(probe) /\ FieldsValid(probe, probe.command)
          /\ FrameValid(k, For(k, probe)) <=> Rest(probe) /\ FieldsValid(probe, probe.command)
    BY <1>1, SameVerdict
  <2> QED
    BY <2>1 DEF OneVerdict
<1>4. ASSUME probe # NoText, FileDropValid(probe),
             NEW c \in {<<"job_start_send", "send">>, <<"job_start_stream", "stream">>, <<"job_start_wait", "task_wait">>},
             probe.command = c[1]
      PROVE  StdioValid([to_stdio_frame(probe) EXCEPT !.command = c[2]])
  <2>1. \/ c[1] = "job_start_send" /\ c[2] = "send"
        \/ c[1] = "job_start_stream" /\ c[2] = "stream"
        \/ c[1] = "job_start_wait" /\ c[2] = "task_wait"
    OBVIOUS
  <2> QED
    BY <1>1, <1>4, <2>1, JobRunnable
<1> QED
  BY <1>2, <1>3, <1>4 DEF JobsCarryRunnableCommands

----------------------------------------------------------------------------
(* The registry of adapters.                                               *)

AdapterInv ==
  /\ AdapterTypeOK /\ definition \in [Adapters -> Definitions] /\ probe \in Frames \cup {NoText}
  /\ SinkIsScoped /\ OnlyRealAdaptersRun

LEMMA AdapterInitOk == AdapterInit => AdapterInv
BY DEF AdapterInit, AdapterInv, AdapterTypeOK, SinkIsScoped, OnlyRealAdaptersRun

\* A call that is refused changes nothing.
LEMMA RefuseOk ==
  ASSUME AdapterInv, Refuse
  PROVE  AdapterInv'
BY DEF Refuse, AdapterInv, AdapterTypeOK, SinkIsScoped, OnlyRealAdaptersRun, Running

\* What an adapter emits names it.
LEMMA EmitOk ==
  ASSUME NEW a \in Adapters, NEW event, Emit(a, event), AdapterInv
  PROVE  /\ sink \subseteq sink' /\ \A e \in sink' : e.from = e.event.adapter
         /\ refused' \in BOOLEAN /\ UNCHANGED <<factories, features, definition, received, probe>>
         /\ event.adapter = a => [from |-> a, event |-> event] \in sink'
<1>1. \A e \in sink : e.from = e.event.adapter
  BY DEF AdapterInv, SinkIsScoped
<1>2. CASE event.adapter = a
  <2>1. PICK e : e = [from |-> a, event |-> event]
    OBVIOUS
  <2>2. e.from = e.event.adapter
    BY <1>2, <2>1
  <2>3. sink' = sink \cup {e} /\ refused' = FALSE /\ UNCHANGED <<factories, features, definition, received, probe>>
    BY <1>2, <2>1 DEF Emit, OwnEvent
  <2> QED
    BY <1>1, <2>1, <2>2, <2>3
<1>3. CASE event.adapter # a
  BY <1>1, <1>3 DEF Emit, OwnEvent
<1> QED
  BY <1>2, <1>3

LEMMA AdapterStepOk ==
  ASSUME AdapterInv, AdapterNext \/ UNCHANGED adapterVars
  PROVE  AdapterInv'
<1>1. ASSUME NEW k \in BuiltinKinds, Register(k) PROVE AdapterInv'
  <2>1. CASE Refuse
    BY <2>1, RefuseOk
  <2>2. CASE ~Refuse
    BY <1>1, <2>2 DEF Register, AdapterInv, AdapterTypeOK, SinkIsScoped, OnlyRealAdaptersRun, Running, Kinds
  <2> QED
    BY <2>1, <2>2
<1>2. CASE RegisterStubs
  <2>1. CASE Refuse
    BY <2>1, RefuseOk
  <2>2. CASE ~Refuse
    BY <1>2, <2>2 DEF RegisterStubs, AdapterInv, AdapterTypeOK, SinkIsScoped, OnlyRealAdaptersRun, Running, Kinds
  <2> QED
    BY <2>1, <2>2
<1>3. ASSUME NEW a \in Adapters, Create(a) PROVE AdapterInv'
  <2>1. CASE Refuse
    BY <2>1, RefuseOk
  <2>2. CASE ~Refuse
    BY <1>3, <2>2 DEF Create, Creatable, AdapterInv, AdapterTypeOK, SinkIsScoped, OnlyRealAdaptersRun, Running
  <2> QED
    BY <2>1, <2>2
<1>4. ASSUME NEW a \in Adapters, Start(a) PROVE AdapterInv'
  <2>1. CASE Refuse
    BY <2>1, RefuseOk
  <2>2. CASE ~Placeholder(a) /\ Emit(a, Running(a)) /\ life' = [life EXCEPT ![a] = "started"]
    <3>1. /\ sink \subseteq sink' /\ \A e \in sink' : e.from = e.event.adapter
          /\ refused' \in BOOLEAN /\ UNCHANGED <<factories, features, definition, received, probe>>
          /\ [from |-> a, event |-> Running(a)] \in sink'
      BY <2>2, EmitOk DEF Running
    <3>2. life[a] # "none"
      BY <1>4 DEF Start, Live
    <3> QED
      BY <2>2, <3>1, <3>2 DEF AdapterInv, AdapterTypeOK, SinkIsScoped, OnlyRealAdaptersRun, Placeholder, Running
  <2> QED
    BY <1>4, <2>1, <2>2 DEF Start
<1>5. ASSUME NEW a \in Adapters, Stop(a) PROVE AdapterInv'
  BY <1>5 DEF Stop, Live, AdapterInv, AdapterTypeOK, SinkIsScoped, OnlyRealAdaptersRun, Running
<1>6. ASSUME NEW a \in Adapters, NEW event, Emit(a, event), UNCHANGED life PROVE AdapterInv'
  <2>1. /\ sink \subseteq sink' /\ \A e \in sink' : e.from = e.event.adapter
        /\ refused' \in BOOLEAN /\ UNCHANGED <<factories, features, definition, received, probe>>
    BY <1>6, EmitOk
  <2> QED
    BY <1>6, <2>1 DEF AdapterInv, AdapterTypeOK, SinkIsScoped, OnlyRealAdaptersRun, Running
<1>7. ASSUME NEW a \in Adapters, EmitFrame(a) PROVE AdapterInv'
  BY <1>6, <1>7, RefuseOk DEF EmitFrame
<1>8. ASSUME NEW a \in Adapters, NEW b \in Adapters, EmitForeign(a, b) PROVE AdapterInv'
  BY <1>6, <1>8 DEF EmitForeign
<1>9. ASSUME NEW a \in Adapters, NEW b \in Adapters, Deliver(a, b) PROVE AdapterInv'
  <2>1. CASE Refuse
    BY <2>1, RefuseOk
  <2>2. CASE ~Refuse
    <3>1. /\ ~Placeholder(a) /\ received' = [received EXCEPT ![a] = @ \cup {b}] /\ refused' = FALSE
          /\ UNCHANGED <<factories, features, definition, life, sink, probe>> /\ life[a] # "none"
      BY <1>9, <2>2 DEF Deliver, Live
    <3>2. AdapterTypeOK'
      BY <3>1 DEF AdapterInv, AdapterTypeOK
    <3>3. OnlyRealAdaptersRun'
      BY <3>1 DEF AdapterInv, AdapterTypeOK, OnlyRealAdaptersRun, Placeholder
    <3> QED
      BY <3>1, <3>2, <3>3 DEF AdapterInv, SinkIsScoped, Running
  <2> QED
    BY <2>1, <2>2
<1>10. ASSUME NEW f \in Frames, Offer(f) PROVE AdapterInv'
  BY <1>10 DEF Offer, AdapterInv, AdapterTypeOK, SinkIsScoped, OnlyRealAdaptersRun, Running
<1>11. CASE UNCHANGED adapterVars
  BY <1>11 DEF adapterVars, AdapterInv, AdapterTypeOK, SinkIsScoped, OnlyRealAdaptersRun, Running
<1> QED
  BY <1>1, <1>2, <1>3, <1>4, <1>5, <1>7, <1>8, <1>9, <1>10, <1>11 DEF AdapterNext, RegistryNext

\* Whatever is on stdin, whatever adapters are configured and whatever frames
\* are offered: every line read is answered in order, a frame that passed
\* validation maps to a message, the verdict on it is one for all adapters, and
\* no disabled or placeholder adapter runs (missive adapter stdio, the
\* validators of missive-adapters, AdapterRegistry and AdapterContext::emit).
THEOREM AdaptersSound == PortsSpec => []AdaptersAgree
<1>1. PortsInit => StdioInv /\ AdapterInv
  BY StdioInitOk, AdapterInitOk DEF PortsInit
<1>2. (StdioInv /\ AdapterInv) /\ [PortsNext]_portVars => (StdioInv /\ AdapterInv)'
  BY StdioStepOk, AdapterStepOk DEF PortsNext, portVars
<1>3. StdioInv /\ AdapterInv => AdaptersAgree
  BY StdioGoal, ProbeGoal DEF AdapterInv, AdaptersAgree
<1> QED
  BY <1>1, <1>2, <1>3, PTL DEF PortsSpec

----------------------------------------------------------------------------
(* Numbers in order.                                                       *)

LEMMA Smallest ==
  ASSUME NEW S, S \subseteq Nat, S # {}
  PROVE  \E x \in S : \A y \in S : x <= y
<1>1. PICK x \in S : \A y \in S : ~(<<y, x>> \in OpToRel(<, Nat))
  BY NatLessThanWellFounded, WFMin
<1>2. \A y \in S : ~(y < x)
  BY <1>1 DEF OpToRel
<1> QED
  BY <1>2

LEMMA MinOk ==
  ASSUME NEW S, S \subseteq Nat, S # {}
  PROVE  Min(S) \in S /\ \A y \in S : Min(S) <= y
BY Smallest DEF Min

\* Induction over a set of numbers.
LEMMA Induction ==
  ASSUME NEW S, 0 \in S, \A n \in S : n \in Nat => n + 1 \in S
  PROVE  Nat \subseteq S
<1> SUFFICES ASSUME Nat \ S # {} PROVE FALSE
  OBVIOUS
<1>1. PICK n \in Nat \ S : \A m \in Nat \ S : n <= m
  <2>1. Nat \ S \subseteq Nat
    OBVIOUS
  <2> QED
    BY <2>1, Smallest
<1>2. n # 0 /\ n - 1 \in Nat
  BY <1>1
<1>3. PICK m \in Nat : n = m + 1
  BY <1>2
<1>4. m \in S
  BY <1>1, <1>3
<1> QED
  BY <1>1, <1>3, <1>4

LEMMA Bounded ==
  ASSUME NEW n \in Nat, NEW S, S \subseteq 1 .. n
  PROVE  IsFiniteSet(S) /\ Cardinality(S) \in 0 .. n
<1>1. IsFiniteSet(1 .. n) /\ Cardinality(1 .. n) = n
  BY FS_Interval
<1>2. S \in SUBSET (1 .. n)
  OBVIOUS
<1>3. IsFiniteSet(S) /\ Cardinality(S) <= n
  BY <1>1, <1>2, FS_Subset
<1>4. Cardinality(S) \in Nat
  BY <1>3, FS_CardinalityType
<1> QED
  BY <1>3, <1>4

\* A number larger than all others comes last.
AddedLast(S, m, T) ==
  /\ Cardinality(T) = Cardinality(S) + 1
  /\ \A k \in 1 .. Cardinality(S) : Nth(T, k) = Nth(S, k)
  /\ Nth(T, Cardinality(S) + 1) = m

LEMMA NthAdded ==
  ASSUME NEW n \in Nat, NEW S, S \subseteq 1 .. n, NEW m \in Nat, m > n
  PROVE  AddedLast(S, m, S \cup {m})
<1>1. PICK T : T = S \cup {m}
  OBVIOUS
<1>2. IsFiniteSet(S) /\ Cardinality(S) \in Nat /\ m \notin S
  <2>1. IsFiniteSet(S) /\ Cardinality(S) \in 0 .. n
    BY Bounded
  <2>2. m \notin S
    OBVIOUS
  <2> QED
    BY <2>1, <2>2
<1>3. Cardinality(T) = Cardinality(S) + 1
  BY <1>1, <1>2, FS_AddElement
<1>4. \A i \in S : Place(T, i) = Place(S, i) /\ Place(S, i) \in Nat /\ Place(S, i) <= Cardinality(S)
  <2> TAKE i \in S
  <2>1. {j \in T : j <= i} = {j \in S : j <= i}
    BY <1>1
  <2>2. PICK R \in SUBSET S : R = {j \in S : j <= i}
    OBVIOUS
  <2>3. IsFiniteSet(R) /\ Cardinality(R) <= Cardinality(S)
    BY <1>2, FS_Subset
  <2>4. Cardinality(R) \in Nat
    BY <2>3, FS_CardinalityType
  <2> QED
    BY <2>1, <2>2, <2>3, <2>4 DEF Place
<1>5. Place(T, m) = Cardinality(S) + 1
  <2>1. \A j \in T : j <= m
    BY <1>1
  <2>2. {j \in T : j <= m} = T
    BY <2>1
  <2> QED
    BY <1>3, <2>2 DEF Place
<1>6. \A k \in 1 .. Cardinality(S) : {j \in T : Place(T, j) = k} = {j \in S : Place(S, j) = k}
  <2> TAKE k \in 1 .. Cardinality(S)
  <2>1. k # Cardinality(S) + 1
    BY <1>2
  <2> QED
    BY <1>1, <1>4, <1>5, <2>1
<1>7. {j \in T : Place(T, j) = Cardinality(S) + 1} = {m}
  <2>1. \A i \in S : Place(T, i) # Cardinality(S) + 1
    BY <1>2, <1>4
  <2> QED
    BY <1>1, <1>5, <2>1
<1>8. Nth(T, Cardinality(S) + 1) = m
  BY <1>7 DEF Nth
<1>9. \A k \in 1 .. Cardinality(S) : Nth(T, k) = Nth(S, k)
  BY <1>6 DEF Nth
<1> QED
  BY <1>1, <1>3, <1>8, <1>9 DEF AddedLast

AllNth(S) == \A k \in 1 .. Cardinality(S) : Nth(S, k) \in S

\* A set of numbers has as many places as elements.
LEMMA NthOk ==
  ASSUME NEW n \in Nat, NEW S, S \subseteq 1 .. n
  PROVE  AllNth(S)
<1>1. PICK P : P = {m \in Nat : \A T \in SUBSET (1 .. m) : AllNth(T)}
  OBVIOUS
<1>2. 0 \in P
  <2>1. ASSUME NEW T \in SUBSET (1 .. 0) PROVE AllNth(T)
    <3>1. T = {}
      BY <2>1
    <3> QED
      BY <3>1, FS_EmptySet DEF AllNth
  <2> QED
    BY <1>1, <2>1
<1>3. ASSUME NEW m \in P PROVE m + 1 \in P
  <2>1. m \in Nat /\ \A T \in SUBSET (1 .. m) : AllNth(T)
    BY <1>1, <1>3
  <2>2. ASSUME NEW T \in SUBSET (1 .. m + 1) PROVE AllNth(T)
    <3>1. CASE m + 1 \notin T
      <4>1. T \in SUBSET (1 .. m)
        BY <2>1, <3>1
      <4> QED
        BY <2>1, <4>1
    <3>2. CASE m + 1 \in T
      <4>1. PICK R \in SUBSET (1 .. m) : R = T \ {m + 1}
        <5>1. T \ {m + 1} \in SUBSET (1 .. m)
          BY <2>1, <2>2
        <5> QED
          BY <5>1
      <4>2. T = R \cup {m + 1}
        BY <3>2, <4>1
      <4>3. /\ Cardinality(T) = Cardinality(R) + 1 /\ Nth(T, Cardinality(R) + 1) = m + 1
            /\ \A k \in 1 .. Cardinality(R) : Nth(T, k) = Nth(R, k)
        <5>1. PICK q \in Nat : q = m + 1
          BY <2>1
        <5>2. R \subseteq 1 .. m /\ q > m /\ T = R \cup {q}
          BY <2>1, <4>1, <4>2, <5>1
        <5>3. AddedLast(R, q, R \cup {q})
          BY <2>1, <5>2, NthAdded
        <5> QED
          BY <5>1, <5>2, <5>3 DEF AddedLast
      <4>4. Cardinality(R) \in Nat
        <5>1. Cardinality(R) \in 0 .. m
          BY <2>1, <4>1, Bounded
        <5> QED
          BY <5>1
      <4>5. AllNth(R)
        BY <2>1
      <4> QED
        BY <3>2, <4>2, <4>3, <4>4, <4>5 DEF AllNth
    <3> QED
      BY <3>1, <3>2
  <2> QED
    BY <1>1, <2>1, <2>2
<1>4. Nat \subseteq P
  BY <1>2, <1>3, Induction
<1> QED
  BY <1>1, <1>4

\* A sequence given by its elements, and one element more.
LEMMA Appended ==
  ASSUME NEW d \in Nat, NEW s, NEW t, NEW x, DOMAIN s = 1 .. d, s = [k \in 1 .. d |-> s[k]],
         t = [k \in 1 .. d + 1 |-> IF k = d + 1 THEN x ELSE s[k]]
  PROVE  t = Append(s, x) /\ Len(s) = d /\ Len(t) = d + 1
<1>1. PICK R : R = {s[k] : k \in 1 .. d} \cup {x}
  OBVIOUS
<1>2. s \in [1 .. d -> R] /\ t \in [1 .. d + 1 -> R]
  BY <1>1
<1>3. s \in Seq(R) /\ Len(s) = d /\ t \in Seq(R) /\ Len(t) = d + 1
  BY <1>2, SeqDef, LenProperties
<1>4. PICK a : a = Append(s, x)
  OBVIOUS
<1>5. a \in Seq(R) /\ Len(a) = d + 1 /\ a[d + 1] = x /\ \A k \in 1 .. d : a[k] = s[k]
  BY <1>1, <1>3, <1>4, AppendProperties
<1>6. \A k \in 1 .. d + 1 : t[k] = a[k]
  <2> TAKE k \in 1 .. d + 1
  <2>1. k = d + 1 \/ k \in 1 .. d
    OBVIOUS
  <2> QED
    BY <1>5, <2>1
<1>7. t = a
  BY <1>3, <1>5, <1>6, SeqEqual
<1> QED
  BY <1>3, <1>4, <1>7

----------------------------------------------------------------------------
(* The events of a stream, line by line.                                   *)

IsLines(ls) == ls \in Seq(Lines)

LEMMA LineFields ==
  ASSUME NEW ls, IsLines(ls)
  PROVE  /\ Len(ls) \in Nat /\ DOMAIN ls = 1 .. Len(ls)
         /\ \A i \in 1 .. Len(ls) : ls[i] \in Lines
BY LenProperties, ElementOfSeq DEF IsLines

LEMMA BlockBound ==
  ASSUME NEW ls, NEW n \in Nat
  PROVE  Block(ls, n + 1) \subseteq 1 .. n /\ DataLines(ls, n + 1) \subseteq 1 .. n
BY DEF Block, DataLines

\* Reading on does not change what has been read.
LEMMA BlockStays ==
  ASSUME NEW ls, IsLines(ls), NEW line \in Lines, NEW c \in 1 .. Len(ls) + 1
  PROVE  /\ Block(Append(ls, line), c) = Block(ls, c)
         /\ DataLines(Append(ls, line), c) = DataLines(ls, c)
         /\ Data(Append(ls, line), c) = Data(ls, c) /\ Type(Append(ls, line), c) = Type(ls, c)
<1>1. PICK more : more = Append(ls, line)
  OBVIOUS
<1>2. Len(ls) \in Nat /\ \A i \in 1 .. Len(ls) : more[i] = ls[i]
  BY <1>1, LineFields, AppendProperties DEF IsLines
<1>3. c - 1 \in Nat /\ c - 1 <= Len(ls) /\ c = (c - 1) + 1
  BY <1>2
<1>4. \A i \in 1 .. c - 1 : more[i] = ls[i]
  BY <1>2, <1>3
<1>5. \A i \in 1 .. c - 1 : \A j \in i .. c - 1 : more[j] = ls[j]
  BY <1>3, <1>4
<1>6. Block(more, c) = Block(ls, c)
  BY <1>5 DEF Block
<1>7. Block(ls, c) \subseteq 1 .. c - 1
  BY DEF Block
<1>8. DataLines(more, c) = DataLines(ls, c)
  BY <1>4, <1>6, <1>7 DEF DataLines
<1>9. Type(more, c) = Type(ls, c)
  BY <1>4, <1>6, <1>7 DEF Type
<1>10. PICK D : D = DataLines(ls, c)
  OBVIOUS
<1>11. D \subseteq 1 .. c - 1 /\ AllNth(D)
  BY <1>3, <1>7, <1>10, NthOk DEF DataLines
<1>12. \A k \in 1 .. Cardinality(D) : more[Nth(D, k)] = ls[Nth(D, k)]
  BY <1>4, <1>11 DEF AllNth
<1>13. Data(more, c) = Data(ls, c)
  BY <1>8, <1>10, <1>12 DEF Data
<1> QED
  BY <1>1, <1>6, <1>8, <1>9, <1>13

\* The block that is still open after one more line.
LEMMA OpenBlock ==
  ASSUME NEW ls, IsLines(ls), NEW line \in Lines, NEW n \in Nat, n = Len(ls)
  PROVE  Block(Append(ls, line), n + 2) = IF line.field = "blank" THEN {} ELSE Block(ls, n + 1) \cup {n + 1}
<1>1. PICK more : more = Append(ls, line)
  OBVIOUS
<1>2. more[n + 1] = line /\ \A i \in 1 .. n : more[i] = ls[i]
  BY <1>1, AppendProperties DEF IsLines
<1>3. CASE line.field = "blank"
  <2>1. \A i \in 1 .. n + 1 : n + 1 \in i .. n + 1 /\ more[n + 1].field = "blank"
    BY <1>2, <1>3
  <2>2. n + 2 - 1 = n + 1
    OBVIOUS
  <2> QED
    BY <1>1, <1>3, <2>1, <2>2 DEF Block
<1>4. CASE line.field # "blank"
  <2>1. n + 2 - 1 = n + 1 /\ n + 1 - 1 = n
    OBVIOUS
  <2>2. ASSUME NEW i \in 1 .. n + 1
        PROVE  (\A j \in i .. n + 1 : more[j].field # "blank") <=> (i = n + 1 \/ \A j \in i .. n : ls[j].field # "blank")
    <3>1. CASE i = n + 1
      <4>1. \A j \in i .. n + 1 : j = n + 1
        BY <3>1
      <4> QED
        BY <1>2, <1>4, <3>1, <4>1
    <3>2. CASE i # n + 1
      <4>1. i \in 1 .. n
        BY <3>2
      <4>2. \A j \in i .. n : more[j] = ls[j]
        BY <1>2, <4>1
      <4>3. \A j \in i .. n + 1 : j \in i .. n \/ j = n + 1
        BY <4>1
      <4>4. \A j \in i .. n : j \in i .. n + 1
        BY <4>1
      <4> QED
        BY <1>2, <1>4, <3>2, <4>2, <4>3, <4>4
    <3> QED
      BY <3>1, <3>2
  <2>3. \A i : i \in 1 .. n + 1 <=> i \in 1 .. n \/ i = n + 1
    OBVIOUS
  <2>4. Block(more, n + 2) = {i \in 1 .. n + 1 : \A j \in i .. n + 1 : more[j].field # "blank"}
    BY <2>1 DEF Block
  <2>5. Block(ls, n + 1) = {i \in 1 .. n : \A j \in i .. n : ls[j].field # "blank"}
    BY <2>1 DEF Block
  <2>6. Block(more, n + 2) = Block(ls, n + 1) \cup {n + 1}
    BY <2>2, <2>3, <2>4, <2>5
  <2> QED
    BY <1>1, <1>4, <2>6
<1> QED
  BY <1>3, <1>4

\* A blank line leaves nothing open.
LEMMA OpenAfterBlank ==
  ASSUME NEW ls, IsLines(ls), NEW line \in Lines, line.field = "blank", NEW n \in Nat, n = Len(ls)
  PROVE  /\ DataLines(Append(ls, line), n + 2) = {} /\ Cardinality(DataLines(Append(ls, line), n + 2)) = 0
         /\ Data(Append(ls, line), n + 2) = <<>> /\ Type(Append(ls, line), n + 2) = Unset
<1>1. PICK more : more = Append(ls, line)
  OBVIOUS
<1>2. Block(more, n + 2) = {}
  BY <1>1, OpenBlock
<1>3. DataLines(more, n + 2) = {} /\ Type(more, n + 2) = Unset
  BY <1>2 DEF DataLines, Type
<1>4. Cardinality(DataLines(more, n + 2)) = 0
  BY <1>3, FS_EmptySet
<1>5. Data(more, n + 2) = <<>>
  <2>1. Data(more, n + 2) = [k \in 1 .. 0 |-> more[Nth({}, k)].value]
    BY <1>3, <1>4 DEF Data
  <2> QED
    BY <2>1
<1> QED
  BY <1>1, <1>3, <1>4, <1>5

\* A data line is added to the open event.
LEMMA OpenAfterData ==
  ASSUME NEW ls, IsLines(ls), NEW line \in Lines, line.field = "data", NEW n \in Nat, n = Len(ls)
  PROVE  /\ DataLines(Append(ls, line), n + 2) = DataLines(ls, n + 1) \cup {n + 1}
         /\ Cardinality(DataLines(Append(ls, line), n + 2)) = Cardinality(DataLines(ls, n + 1)) + 1
         /\ Data(Append(ls, line), n + 2) = Append(Data(ls, n + 1), line.value)
         /\ Type(Append(ls, line), n + 2) = Type(ls, n + 1)
<1>1. PICK more : more = Append(ls, line)
  OBVIOUS
<1>2. more[n + 1] = line /\ \A i \in 1 .. n : more[i] = ls[i]
  BY <1>1, AppendProperties DEF IsLines
<1>3. Block(more, n + 2) = Block(ls, n + 1) \cup {n + 1} /\ Block(ls, n + 1) \subseteq 1 .. n
  BY <1>1, OpenBlock, BlockBound
<1>4. Type(more, n + 2) = Type(ls, n + 1)
  BY <1>2, <1>3 DEF Type
<1>5. PICK D : D = DataLines(ls, n + 1)
  OBVIOUS
<1>6. D \subseteq 1 .. n
  BY <1>5, BlockBound
<1>7. PICK m \in Nat : m = n + 1
  OBVIOUS
<1>8. DataLines(more, n + 2) = D \cup {m}
  BY <1>2, <1>3, <1>5, <1>7 DEF DataLines
<1>9. /\ Cardinality(D \cup {m}) = Cardinality(D) + 1 /\ Nth(D \cup {m}, Cardinality(D) + 1) = m
      /\ \A k \in 1 .. Cardinality(D) : Nth(D \cup {m}, k) = Nth(D, k)
  <2>1. m > n
    BY <1>7
  <2>2. AddedLast(D, m, D \cup {m})
    BY <1>6, <2>1, NthAdded
  <2> QED
    BY <2>2 DEF AddedLast
<1>10. PICK d \in Nat : d = Cardinality(D)
  <2>1. Cardinality(D) \in 0 .. n
    BY <1>6, Bounded
  <2> QED
    BY <2>1
<1>11. \A k \in 1 .. d : Nth(D, k) \in 1 .. n
  BY <1>6, <1>10, NthOk DEF AllNth
<1>12. Data(ls, n + 1) = [k \in 1 .. d |-> ls[Nth(D, k)].value]
  BY <1>5, <1>10 DEF Data
<1>13. Data(more, n + 2) = [k \in 1 .. d + 1 |-> IF k = d + 1 THEN line.value ELSE ls[Nth(D, k)].value]
  <2>1. Data(more, n + 2) = [k \in 1 .. d + 1 |-> more[Nth(D \cup {m}, k)].value]
    BY <1>8, <1>9, <1>10 DEF Data
  <2>2. \A k \in 1 .. d + 1 : k # d + 1 => k \in 1 .. d
    OBVIOUS
  <2>3. \A k \in 1 .. d + 1 : more[Nth(D \cup {m}, k)].value = IF k = d + 1 THEN line.value ELSE ls[Nth(D, k)].value
    BY <1>2, <1>7, <1>9, <1>10, <1>11, <2>2
  <2> QED
    BY <2>1, <2>3
<1>14. Data(more, n + 2) = Append(Data(ls, n + 1), line.value)
  <2>1. PICK s : s = Data(ls, n + 1)
    OBVIOUS
  <2>2. DOMAIN s = 1 .. d /\ s = [k \in 1 .. d |-> s[k]] /\ \A k \in 1 .. d : s[k] = ls[Nth(D, k)].value
    BY <1>12, <2>1
  <2>3. \A k \in 1 .. d + 1 : k # d + 1 => k \in 1 .. d
    OBVIOUS
  <2>4. Data(more, n + 2) = [k \in 1 .. d + 1 |-> IF k = d + 1 THEN line.value ELSE s[k]]
    BY <1>13, <2>2, <2>3
  <2> QED
    BY <2>1, <2>2, <2>4, Appended
<1> QED
  BY <1>1, <1>4, <1>5, <1>7, <1>8, <1>9, <1>14

\* Other lines add no data; an event field gives the type.
LEMMA OpenAfterOther ==
  ASSUME NEW ls, IsLines(ls), NEW line \in Lines, line.field \notin {"data", "blank"}, NEW n \in Nat, n = Len(ls)
  PROVE  /\ DataLines(Append(ls, line), n + 2) = DataLines(ls, n + 1)
         /\ Data(Append(ls, line), n + 2) = Data(ls, n + 1)
         /\ Type(Append(ls, line), n + 2) = IF line.field = "event" THEN "kind" ELSE Type(ls, n + 1)
<1>1. PICK more : more = Append(ls, line)
  OBVIOUS
<1>2. more[n + 1] = line /\ \A i \in 1 .. n : more[i] = ls[i]
  BY <1>1, AppendProperties DEF IsLines
<1>3. Block(more, n + 2) = Block(ls, n + 1) \cup {n + 1} /\ Block(ls, n + 1) \subseteq 1 .. n
  BY <1>1, OpenBlock, BlockBound
<1>4. Type(more, n + 2) = IF line.field = "event" THEN "kind" ELSE Type(ls, n + 1)
  BY <1>2, <1>3 DEF Type
<1>5. DataLines(more, n + 2) = DataLines(ls, n + 1)
  BY <1>2, <1>3 DEF DataLines
<1>6. PICK D : D = DataLines(ls, n + 1)
  OBVIOUS
<1>7. D \subseteq 1 .. n
  BY <1>6, BlockBound
<1>8. AllNth(D)
  BY <1>7, NthOk
<1>9. \A k \in 1 .. Cardinality(D) : more[Nth(D, k)] = ls[Nth(D, k)]
  BY <1>2, <1>7, <1>8 DEF AllNth
<1>10. Data(more, n + 2) = Data(ls, n + 1)
  BY <1>5, <1>6, <1>9 DEF Data
<1> QED
  BY <1>1, <1>4, <1>5, <1>10

\* The events that end at the given lines.
RecordsAt(ls, F) == [k \in 1 .. Cardinality(F) |-> Record(ls, Nth(F, k), k)]

LEMMA RecordsAreAt ==
  ASSUME NEW ls, NEW ended
  PROVE  Records(ls, ended) = RecordsAt(ls, Full(ls, ended))
BY DEF Records, RecordsAt

LEMMA RecordsStay ==
  ASSUME NEW ls, IsLines(ls), NEW line \in Lines, NEW F, F \subseteq 1 .. Len(ls) + 1
  PROVE  RecordsAt(Append(ls, line), F) = RecordsAt(ls, F)
<1>1. PICK n \in Nat : n = Len(ls) + 1
  BY LineFields
<1>2. F \subseteq 1 .. n
  BY <1>1
<1>3. AllNth(F)
  BY <1>2, NthOk
<1>4. ASSUME NEW k \in 1 .. Cardinality(F)
      PROVE  Record(Append(ls, line), Nth(F, k), k) = Record(ls, Nth(F, k), k)
  <2>1. PICK c \in 1 .. Len(ls) + 1 : c = Nth(F, k)
    BY <1>3 DEF AllNth
  <2>2. Data(Append(ls, line), c) = Data(ls, c) /\ Type(Append(ls, line), c) = Type(ls, c)
    BY BlockStays
  <2> QED
    BY <2>1, <2>2 DEF Record
<1> QED
  BY <1>4 DEF RecordsAt

GrownBy(ls, F, m, G) ==
  RecordsAt(ls, G) = Append(RecordsAt(ls, F), Record(ls, m, Len(RecordsAt(ls, F)) + 1))

LEMMA RecordsGrow ==
  ASSUME NEW ls, NEW n \in Nat, NEW F, F \subseteq 1 .. n, NEW m \in Nat, m > n, NEW G, G = F \cup {m}
  PROVE  GrownBy(ls, F, m, G)
<1>1. AddedLast(F, m, F \cup {m})
  BY NthAdded
<1>2. PICK d \in Nat : d = Cardinality(F)
  <2>1. Cardinality(F) \in 0 .. n
    BY Bounded
  <2> QED
    BY <2>1
<1>3. PICK s : s = RecordsAt(ls, F)
  OBVIOUS
<1>4. DOMAIN s = 1 .. d /\ s = [k \in 1 .. d |-> s[k]] /\ \A k \in 1 .. d : s[k] = Record(ls, Nth(F, k), k)
  BY <1>2, <1>3 DEF RecordsAt
<1>5. PICK t : t = RecordsAt(ls, G)
  OBVIOUS
<1>6. PICK e : e = Record(ls, m, d + 1)
  OBVIOUS
<1>7. t = [k \in 1 .. d + 1 |-> Record(ls, Nth(F \cup {m}, k), k)]
  BY <1>1, <1>2, <1>5 DEF RecordsAt, AddedLast
<1>8. ASSUME NEW k \in 1 .. d + 1
      PROVE  Record(ls, Nth(F \cup {m}, k), k) = IF k = d + 1 THEN e ELSE s[k]
  <2>1. CASE k = d + 1
    BY <1>1, <1>2, <1>6, <2>1 DEF AddedLast
  <2>2. CASE k # d + 1
    <3>1. k \in 1 .. d
      BY <2>2
    <3>2. Nth(F \cup {m}, k) = Nth(F, k)
      BY <1>1, <1>2, <3>1 DEF AddedLast
    <3> QED
      BY <1>4, <2>2, <3>1, <3>2
  <2> QED
    BY <2>1, <2>2
<1>9. t = [k \in 1 .. d + 1 |-> IF k = d + 1 THEN e ELSE s[k]]
  BY <1>7, <1>8
<1>10. t = Append(s, e) /\ Len(s) = d
  BY <1>4, <1>9, Appended
<1> QED
  BY <1>2, <1>3, <1>5, <1>6, <1>10 DEF GrownBy

LEMMA FullBound ==
  ASSUME NEW ls, IsLines(ls)
  PROVE  Full(ls, FALSE) \subseteq 1 .. Len(ls)
BY LineFields DEF Full, Closings

\* The open event, if it has data, is the last one of a stream that ends.
LEMMA EndRecords ==
  ASSUME NEW ls, IsLines(ls), NEW n \in Nat, n = Len(ls)
  PROVE  /\ DataLines(ls, n + 1) = {} => Records(ls, TRUE) = Records(ls, FALSE)
         /\ DataLines(ls, n + 1) # {} =>
              Records(ls, TRUE) = Append(Records(ls, FALSE), Record(ls, n + 1, Len(Records(ls, FALSE)) + 1))
<1>1. PICK F : F = Full(ls, FALSE)
  OBVIOUS
<1>2. F \subseteq 1 .. n
  BY <1>1, FullBound
<1>3. PICK m \in Nat : m = n + 1 /\ m > n
  OBVIOUS
<1>4. Full(ls, TRUE) = F \cup (IF DataLines(ls, m) # {} THEN {m} ELSE {})
  BY <1>1, <1>3 DEF Full, Closings
<1>5. CASE DataLines(ls, m) = {}
  <2>1. Full(ls, TRUE) = F
    BY <1>4, <1>5
  <2>2. Records(ls, TRUE) = RecordsAt(ls, F) /\ Records(ls, FALSE) = RecordsAt(ls, F)
    BY <1>1, <2>1, RecordsAreAt
  <2> QED
    BY <1>3, <1>5, <2>2
<1>6. CASE DataLines(ls, m) # {}
  <2>1. PICK G : G = Full(ls, TRUE) /\ G = F \cup {m}
    BY <1>4, <1>6
  <2>2. GrownBy(ls, F, m, G)
    BY <1>2, <1>3, <2>1, RecordsGrow
  <2>3. Records(ls, TRUE) = RecordsAt(ls, G) /\ Records(ls, FALSE) = RecordsAt(ls, F)
    BY <1>1, <2>1, RecordsAreAt
  <2> QED
    BY <1>3, <1>6, <2>2, <2>3 DEF GrownBy
<1> QED
  BY <1>3, <1>5, <1>6

\* A line that is not blank ends no event.
LEMMA FieldRecords ==
  ASSUME NEW ls, IsLines(ls), NEW line \in Lines, line.field # "blank"
  PROVE  Records(Append(ls, line), FALSE) = Records(ls, FALSE)
<1>1. PICK more : more = Append(ls, line)
  OBVIOUS
<1>2. PICK n \in Nat : n = Len(ls)
  BY LineFields
<1>3. IsLines(more) /\ Len(more) = n + 1 /\ more[n + 1] = line /\ \A i \in 1 .. n : more[i] = ls[i]
  BY <1>1, <1>2, AppendProperties DEF IsLines
<1>4. DOMAIN ls = 1 .. n /\ DOMAIN more = 1 .. n + 1
  BY <1>2, <1>3, LineFields
<1>5. \A i : i \in 1 .. n + 1 <=> i \in 1 .. n \/ i = n + 1
  OBVIOUS
<1>6. Closings(more, FALSE) = Closings(ls, FALSE) /\ Closings(ls, FALSE) \subseteq 1 .. n
  BY <1>3, <1>4, <1>5 DEF Closings
<1>7. \A c \in 1 .. n : DataLines(more, c) = DataLines(ls, c)
  BY <1>1, <1>2, BlockStays
<1>8. Full(more, FALSE) = Full(ls, FALSE)
  BY <1>6, <1>7 DEF Full
<1>9. Full(ls, FALSE) \subseteq 1 .. Len(ls) + 1
  <2>1. Full(ls, FALSE) \subseteq 1 .. n
    BY <1>2, FullBound
  <2>2. \A i \in 1 .. n : i \in 1 .. n + 1
    OBVIOUS
  <2> QED
    BY <1>2, <2>1, <2>2
<1>10. RecordsAt(more, Full(ls, FALSE)) = RecordsAt(ls, Full(ls, FALSE))
  <2>1. PICK F : F = Full(ls, FALSE)
    OBVIOUS
  <2>2. F \subseteq 1 .. Len(ls) + 1
    BY <1>9, <2>1
  <2>3. RecordsAt(Append(ls, line), F) = RecordsAt(ls, F)
    BY <2>2, RecordsStay
  <2> QED
    BY <1>1, <2>1, <2>3
<1>11. Records(more, FALSE) = RecordsAt(more, Full(ls, FALSE)) /\ Records(ls, FALSE) = RecordsAt(ls, Full(ls, FALSE))
  BY <1>8, RecordsAreAt
<1> QED
  BY <1>1, <1>10, <1>11

\* A blank line ends the open event, as the end of the stream would.
LEMMA BlankRecords ==
  ASSUME NEW ls, IsLines(ls), NEW line \in Lines, line.field = "blank"
  PROVE  /\ Records(Append(ls, line), FALSE) = Records(ls, TRUE)
         /\ Records(Append(ls, line), TRUE) = Records(ls, TRUE)
<1>1. PICK more : more = Append(ls, line)
  OBVIOUS
<1>2. PICK n \in Nat : n = Len(ls)
  BY LineFields
<1>3. IsLines(more) /\ Len(more) = n + 1 /\ more[n + 1] = line /\ \A i \in 1 .. n : more[i] = ls[i]
  BY <1>1, <1>2, AppendProperties DEF IsLines
<1>4. DOMAIN ls = 1 .. n /\ DOMAIN more = 1 .. n + 1
  BY <1>2, <1>3, LineFields
<1>5. \A i : i \in 1 .. n + 1 <=> i \in 1 .. n \/ i = n + 1
  OBVIOUS
<1>6. Closings(more, FALSE) = Closings(ls, TRUE) /\ Closings(ls, TRUE) \subseteq 1 .. n + 1
  BY <1>2, <1>3, <1>4, <1>5 DEF Closings
<1>7. \A c \in 1 .. n + 1 : DataLines(more, c) = DataLines(ls, c)
  BY <1>1, <1>2, BlockStays
<1>8. Full(more, FALSE) = Full(ls, TRUE) /\ Full(ls, TRUE) \subseteq 1 .. Len(ls) + 1
  BY <1>2, <1>6, <1>7 DEF Full
<1>9. RecordsAt(more, Full(ls, TRUE)) = RecordsAt(ls, Full(ls, TRUE))
  BY <1>1, <1>8, RecordsStay
<1>10. Records(more, FALSE) = Records(ls, TRUE)
  BY <1>8, <1>9, RecordsAreAt
<1>11. PICK m \in Nat : m = n + 1 /\ m + 1 = n + 2
  OBVIOUS
<1>12. DataLines(more, m + 1) = {}
  BY <1>1, <1>2, <1>11, OpenAfterBlank
<1>13. Records(more, TRUE) = Records(more, FALSE)
  BY <1>3, <1>11, <1>12, EndRecords
<1> QED
  BY <1>1, <1>10, <1>13

----------------------------------------------------------------------------
(* Negotiation.                                                            *)

Listed(s) == s \in Seq(Range(s))

LEMMA ListedDomain ==
  ASSUME NEW s, Listed(s)
  PROVE  Len(s) \in Nat /\ DOMAIN s = 1 .. Len(s) /\ DOMAIN s \subseteq Nat /\ (s # <<>> <=> DOMAIN s # {})
<1>1. Len(s) \in Nat /\ DOMAIN s = 1 .. Len(s)
  BY LenProperties DEF Listed
<1>2. s # <<>> => 1 \in DOMAIN s
  BY <1>1, EmptySeq DEF Listed
<1> QED
  BY <1>1, <1>2

InterfacesOk(is) == Listed(is) /\ \A i \in DOMAIN is : validate_agent_interface(is[i])

LEMMA LocalBindings ==
  ASSUME NEW b
  PROVE  IsLocal(b) <=> b = "http+json" \/ b = "json-rpc"
<1>1. \A i : i \in 1 .. 2 <=> i = 1 \/ i = 2
  OBVIOUS
<1> QED
  BY <1>1 DEF IsLocal, Contains, LOCALLY_SUPPORTED_BINDINGS

\* Only a gRPC interface may do without a host.
LEMMA LocalIsHosted ==
  ASSUME NEW i, validate_agent_interface(i), IsLocal(canonical_protocol_binding(i.name))
  PROVE  i.url = "hosted"
BY LocalBindings DEF validate_agent_interface

\* The first interface of a binding.
FirstOf(is, b, i) ==
  /\ i \in DOMAIN is /\ canonical_protocol_binding(is[i].name) = b /\ first_card_interface(is, b) = is[i]
  /\ \A j \in DOMAIN is : canonical_protocol_binding(is[j].name) = b => i <= j

LEMMA FirstInterface ==
  ASSUME NEW is, InterfacesOk(is), NEW b, HasBinding(is, b)
  PROVE  \E i \in DOMAIN is : FirstOf(is, b, i)
<1>1. PICK S : S = {i \in DOMAIN is : canonical_protocol_binding(is[i].name) = b}
  OBVIOUS
<1>2. S # {} /\ S \subseteq Nat
  BY <1>1, ListedDomain DEF HasBinding, InterfacesOk
<1>3. Min(S) \in S /\ \A y \in S : Min(S) <= y
  BY <1>2, MinOk
<1>4. first_card_interface(is, b) = is[Min(S)]
  BY <1>1 DEF first_card_interface
<1>5. FirstOf(is, b, Min(S))
  BY <1>1, <1>3, <1>4 DEF FirstOf
<1> QED
  BY <1>1, <1>3, <1>5

\* An interface that was chosen can be called and has a binding asked for.
ChosenWell(n, is, bs, places) ==
  /\ n.error # "ok"
  /\ n.error = "" => /\ n.url = "hosted" /\ \E k \in places : n.binding = bs[k]
                     /\ n.source = "agent_card" <=> is # <<>>

LEMMA NothingChosen ==
  ASSUME NEW error \in {"transport", "validation"}, NEW is, NEW bs, NEW places
  PROVE  ChosenWell(NotChosen(error), is, bs, places)
BY DEF ChosenWell, NotChosen

LEMMA FallbackOk ==
  ASSUME NEW b, NEW url, NEW source, source # "agent_card", NEW bs, NEW places, NEW k \in places, b = bs[k]
  PROVE  ChosenWell(Fallback(b, url, source), <<>>, bs, places)
<1>1. CASE url = "hosted"
  BY <1>1 DEF Fallback, Chosen, ChosenWell
<1>2. CASE url # "hosted"
  BY <1>2, NothingChosen DEF Fallback
<1> QED
  BY <1>1, <1>2

LEMMA MissingOk ==
  ASSUME NEW o, NEW bs, NEW places, places \subseteq Nat
  PROVE  ChosenWell(negotiate_missing_interfaces_fallback(o, bs, places), <<>>, bs, places)
<1>1. PICK S : S = {k \in places : HasFallback(o, bs[k])}
  OBVIOUS
<1>2. CASE S = {}
  <2>1. negotiate_missing_interfaces_fallback(o, bs, places) = NotChosen("transport")
    BY <1>1, <1>2 DEF negotiate_missing_interfaces_fallback
  <2> QED
    BY <2>1, NothingChosen
<1>3. CASE S # {}
  <2>1. S \subseteq Nat
    BY <1>1
  <2>2. PICK k \in places : k = Min(S)
    BY <1>1, <1>3, <2>1, MinOk
  <2>3. negotiate_missing_interfaces_fallback(o, bs, places) = fallback_interface_for_binding(o, bs[k])
    BY <1>1, <1>3, <2>2 DEF negotiate_missing_interfaces_fallback
  <2>4. PICK url, source : /\ source # "agent_card"
                           /\ fallback_interface_for_binding(o, bs[k]) = Fallback(bs[k], url, source)
    BY DEF fallback_interface_for_binding
  <2> QED
    BY <2>2, <2>3, <2>4, FallbackOk
<1> QED
  BY <1>2, <1>3

LEMMA AmongOk ==
  ASSUME NEW is, InterfacesOk(is), NEW o, NEW bs, NEW places, places \subseteq Nat, \A k \in places : IsLocal(bs[k])
  PROVE  ChosenWell(Among(is, o, bs, places), is, bs, places)
<1>1. PICK S : S = {k \in places : HasBinding(is, bs[k])}
  OBVIOUS
<1>2. CASE S # {}
  <2>1. S \subseteq Nat
    BY <1>1
  <2>2. PICK k \in places : k = Min(S) /\ HasBinding(is, bs[k])
    BY <1>1, <1>2, <2>1, MinOk
  <2>3. PICK i \in DOMAIN is : FirstOf(is, bs[k], i)
    BY <2>2, FirstInterface
  <2>4. Among(is, o, bs, places) = interface_from_agent_card(is[i])
    BY <1>1, <1>2, <2>2, <2>3 DEF Among, FirstOf
  <2>5. is[i].url = "hosted" /\ canonical_protocol_binding(is[i].name) = bs[k]
    BY <2>2, <2>3, LocalIsHosted DEF InterfacesOk, FirstOf
  <2>6. is # <<>>
    BY <2>3
  <2>7. PICK n : n = Among(is, o, bs, places)
    OBVIOUS
  <2>8. PICK x, url, tenant : x = bs[k] /\ url = "hosted" /\ n = Chosen(x, url, tenant, "agent_card")
    BY <2>4, <2>5, <2>7 DEF interface_from_agent_card
  <2>9. n.error = "" /\ n.url = "hosted" /\ n.binding = bs[k] /\ n.source = "agent_card"
    BY <2>8 DEF Chosen
  <2>10. ChosenWell(n, is, bs, places)
    BY <2>6, <2>9 DEF ChosenWell
  <2> QED
    BY <2>7, <2>10
<1>3. CASE S = {} /\ is = <<>>
  <2>1. Among(is, o, bs, places) = negotiate_missing_interfaces_fallback(o, bs, places)
    BY <1>1, <1>3 DEF Among
  <2> QED
    BY <1>3, <2>1, MissingOk
<1>4. CASE S = {} /\ is # <<>>
  <2>1. Among(is, o, bs, places) = NotChosen("transport")
    BY <1>1, <1>4 DEF Among
  <2> QED
    BY <2>1, NothingChosen
<1> QED
  BY <1>2, <1>3, <1>4

LEMMA PreferenceFacts ==
  ASSUME NEW o, Listed(o.preferred)
  PROVE  /\ DOMAIN Preferences(o) \subseteq Nat /\ LocalPreferences(o) \subseteq Nat
         /\ \A k \in LocalPreferences(o) : IsLocal(Preferences(o)[k])
         /\ \A k \in DOMAIN Preferences(o) : 1 .. k \subseteq DOMAIN Preferences(o)
<1>1. PICK ps : ps = IF o.preferred = <<>> THEN LOCALLY_SUPPORTED_BINDINGS ELSE o.preferred
  OBVIOUS
<1>2. DOMAIN Preferences(o) = DOMAIN ps
  BY <1>1 DEF Preferences
<1>3. PICK n \in Nat : DOMAIN ps = 1 .. n
  <2>1. CASE o.preferred = <<>>
    <3>1. DOMAIN ps = 1 .. 2
      BY <1>1, <2>1 DEF LOCALLY_SUPPORTED_BINDINGS
    <3> QED
      BY <3>1
  <2>2. CASE o.preferred # <<>>
    BY <1>1, <2>2, ListedDomain
  <2> QED
    BY <2>1, <2>2
<1> QED
  BY <1>2, <1>3 DEF LocalPreferences

\* What negotiation comes to, for every card that was accepted.
NegotiatedWell(n, is, o) ==
  /\ n.error # "ok"
  /\ n.error = "" => /\ n.url = "hosted" /\ IsLocal(n.binding)
                     /\ o.override # Unset => n.binding = canonical_protocol_binding(o.override)
                     /\ n.source = "agent_card" <=> is # <<>>

LEMMA NegotiationOk ==
  ASSUME NEW is, InterfacesOk(is), NEW o, Listed(o.preferred)
  PROVE  NegotiatedWell(negotiate_agent_interface(is, o), is, o)
<1>1. PICK n : n = negotiate_agent_interface(is, o)
  OBVIOUS
<1>2. ASSUME NEW error \in {"validation", "transport"}, n = NotChosen(error)
      PROVE  NegotiatedWell(n, is, o)
  BY <1>2 DEF NegotiatedWell, NotChosen
<1>3. CASE ~PreferencesOk(o)
  BY <1>1, <1>2, <1>3 DEF negotiate_agent_interface
<1>4. CASE PreferencesOk(o) /\ o.override # Unset
  <2>1. PICK b : b = canonical_protocol_binding(o.override)
    OBVIOUS
  <2>2. CASE Malformed(b) \/ ~IsLocal(b)
    <3>1. n \in {NotChosen("validation"), NotChosen("transport")}
      BY <1>1, <1>4, <2>1, <2>2 DEF negotiate_agent_interface
    <3> QED
      BY <1>1, <1>2, <3>1
  <2>3. CASE ~Malformed(b) /\ IsLocal(b)
    <3>1. n = Among(is, o, <<b>>, {1})
      BY <1>1, <1>4, <2>1, <2>3 DEF negotiate_agent_interface
    <3>2. {1} \subseteq Nat /\ \A k \in {1} : IsLocal(<<b>>[k])
      BY <2>3
    <3>3. PICK bs : bs = <<b>>
      OBVIOUS
    <3>4. bs[1] = b /\ ChosenWell(n, is, bs, {1})
      BY <3>1, <3>2, <3>3, AmongOk
    <3>5. /\ n.error # "ok"
          /\ n.error = "" => n.url = "hosted" /\ n.binding = b /\ (n.source = "agent_card" <=> is # <<>>)
      BY <3>4 DEF ChosenWell
    <3> QED
      BY <1>1, <2>1, <2>3, <3>5 DEF NegotiatedWell
  <2> QED
    BY <2>2, <2>3
<1>5. CASE PreferencesOk(o) /\ o.override = Unset
  <2>1. CASE LocalPreferences(o) = {}
    BY <1>1, <1>2, <1>5, <2>1 DEF negotiate_agent_interface
  <2>2. CASE LocalPreferences(o) # {}
    <3>1. n = Among(is, o, Preferences(o), LocalPreferences(o))
      BY <1>1, <1>5, <2>2 DEF negotiate_agent_interface
    <3>2. LocalPreferences(o) \subseteq Nat /\ \A k \in LocalPreferences(o) : IsLocal(Preferences(o)[k])
      BY PreferenceFacts
    <3>3. ChosenWell(n, is, Preferences(o), LocalPreferences(o))
      BY <3>1, <3>2, AmongOk
    <3>4. /\ n.error # "ok"
          /\ n.error = "" => n.url = "hosted" /\ IsLocal(n.binding) /\ (n.source = "agent_card" <=> is # <<>>)
      BY <3>2, <3>3 DEF ChosenWell
    <3> QED
      BY <1>1, <1>5, <3>4 DEF NegotiatedWell
  <2> QED
    BY <2>1, <2>2
<1> QED
  BY <1>1, <1>3, <1>4, <1>5

\* The places of a binding among the preferences, and the interfaces wanted.
Rank(o, b) == {k \in DOMAIN Preferences(o) : Preferences(o)[k] = b}
BindingOf(is, i) == canonical_protocol_binding(is[i].name)
Wanted(is, o) == {i \in DOMAIN is : IsLocal(BindingOf(is, i)) /\ Rank(o, BindingOf(is, i)) # {}}

LEMMA FirstRank ==
  ASSUME NEW o, Listed(o.preferred), NEW b, IsLocal(b), Rank(o, b) # {}
  PROVE  \E m \in LocalPreferences(o) : Preferences(o)[m] = b /\ \A y \in Rank(o, b) : m <= y
<1>1. PICK P, R : P = Preferences(o) /\ R = Rank(o, b)
  OBVIOUS
<1>2. DOMAIN P \subseteq Nat /\ \A k \in DOMAIN P : 1 .. k \subseteq DOMAIN P
  BY <1>1, PreferenceFacts
<1>3. R \subseteq Nat /\ R # {} /\ R = {k \in DOMAIN P : P[k] = b}
  BY <1>1, <1>2 DEF Rank
<1>4. PICK m \in R : \A y \in R : m <= y
  BY <1>3, Smallest
<1>5. m \in DOMAIN P /\ P[m] = b /\ m \in Nat
  BY <1>3, <1>4
<1>6. ASSUME NEW j \in 1 .. m - 1 PROVE P[j] # P[m]
  <2>1. j \in 1 .. m /\ j \in Nat /\ j < m
    BY <1>5
  <2>2. j \in DOMAIN P
    BY <1>2, <1>5, <2>1
  <2>3. j \in R => m <= j
    BY <1>4
  <2> QED
    BY <1>3, <1>5, <2>1, <2>2, <2>3
<1>7. m \in LocalPreferences(o)
  BY <1>1, <1>5, <1>6 DEF LocalPreferences
<1> QED
  BY <1>1, <1>4, <1>5, <1>7

\* The first interface of the binding liked best.
Best(is, o, i) ==
  \A j \in Wanted(is, o) : \E x \in Rank(o, BindingOf(is, i)) :
    \A y \in Rank(o, BindingOf(is, j)) : x < y \/ (x = y /\ i <= j)

PreferredWell(n, is, o) ==
  IF Wanted(is, o) = {} THEN n.error = "transport"
  ELSE \E i \in Wanted(is, o) : n = interface_from_agent_card(is[i]) /\ Best(is, o, i)

LEMMA PreferredOk ==
  ASSUME NEW is, InterfacesOk(is), is # <<>>, NEW o, Listed(o.preferred), o.override = Unset, PreferencesOk(o)
  PROVE  PreferredWell(negotiate_agent_interface(is, o), is, o)
<1>1. PICK n : n = negotiate_agent_interface(is, o)
  OBVIOUS
<1>2. PICK P, L : P = Preferences(o) /\ L = LocalPreferences(o)
  OBVIOUS
<1>3. L \subseteq Nat /\ DOMAIN P \subseteq Nat /\ \A k \in L : k \in DOMAIN P /\ IsLocal(P[k])
  BY <1>2, PreferenceFacts DEF LocalPreferences
<1>4. n = IF L = {} THEN NotChosen("transport") ELSE Among(is, o, P, L)
  BY <1>1, <1>2 DEF negotiate_agent_interface
<1>5. PICK S : S = {k \in L : HasBinding(is, P[k])}
  OBVIOUS
<1>6. ASSUME NEW j \in Wanted(is, o)
      PROVE  \E m \in S : \A y \in Rank(o, BindingOf(is, j)) : m <= y
  <2>1. PICK b : b = BindingOf(is, j)
    OBVIOUS
  <2>2. j \in DOMAIN is /\ IsLocal(b) /\ Rank(o, b) # {}
    BY <2>1 DEF Wanted
  <2>3. PICK m \in L : P[m] = b /\ \A y \in Rank(o, b) : m <= y
    BY <1>2, <2>2, FirstRank
  <2>4. HasBinding(is, P[m])
    BY <2>1, <2>2, <2>3 DEF HasBinding, BindingOf
  <2> QED
    BY <1>5, <2>1, <2>3, <2>4
<1>7. CASE S = {}
  <2>1. Wanted(is, o) = {}
    BY <1>6, <1>7
  <2>2. n = NotChosen("transport")
    BY <1>4, <1>5, <1>7 DEF Among
  <2>3. n.error = "transport"
    BY <2>2 DEF NotChosen
  <2> QED
    BY <1>1, <2>1, <2>3 DEF PreferredWell
<1>8. CASE S # {}
  <2>1. S \subseteq Nat
    BY <1>3, <1>5
  <2>2. PICK k \in S : k = Min(S) /\ \A y \in S : k <= y
    BY <1>8, <2>1, MinOk
  <2>3. k \in L /\ k \in Nat /\ HasBinding(is, P[k]) /\ IsLocal(P[k]) /\ k \in DOMAIN P
    BY <1>3, <1>5, <2>2
  <2>4. PICK i \in DOMAIN is : FirstOf(is, P[k], i)
    BY <2>3, FirstInterface
  <2>5. n = interface_from_agent_card(is[i])
    BY <1>4, <1>5, <1>8, <2>2, <2>3, <2>4 DEF Among, FirstOf
  <2>6. BindingOf(is, i) = P[k] /\ k \in Rank(o, BindingOf(is, i)) /\ i \in Wanted(is, o)
    <3>1. BindingOf(is, i) = P[k]
      BY <2>4 DEF FirstOf, BindingOf
    <3>2. k \in Rank(o, BindingOf(is, i))
      BY <1>2, <2>3, <3>1 DEF Rank
    <3> QED
      BY <2>3, <3>1, <3>2 DEF Wanted
  <2>7. ASSUME NEW j \in Wanted(is, o), NEW y \in Rank(o, BindingOf(is, j))
        PROVE  k < y \/ (k = y /\ i <= j)
    <3>1. PICK m \in S : m <= y
      BY <1>6
    <3>2. y \in Nat /\ P[y] = BindingOf(is, j)
      BY <1>2, <1>3 DEF Rank
    <3>3. k <= y
      BY <2>1, <2>2, <2>3, <3>1, <3>2
    <3>4. k = y => i <= j
      BY <2>4, <3>2 DEF FirstOf, Wanted, BindingOf
    <3> QED
      BY <2>3, <3>2, <3>3, <3>4
  <2>8. Best(is, o, i)
    BY <2>6, <2>7 DEF Best
  <2> QED
    BY <1>1, <2>5, <2>6, <2>8 DEF PreferredWell
<1> QED
  BY <1>7, <1>8

----------------------------------------------------------------------------
(* The invariant, stage by stage.                                          *)

Fresh == lines = <<>> /\ reader = NoReader /\ delivered = <<>>
Uncalled == interface = Unset /\ call = Unset /\ heard = Unset /\ reply = Unset /\ outcome = "none" /\ Fresh
Agreed == outcome = "none" /\ interface.error = "" /\ IsLocal(interface.binding)

HeardCall == heard.op = call.op /\ heard.tenant = TenantOf(call.args) /\ heard.verdict \in Verdicts

\* The reader holds the open event, and the caller has the others.
ReaderOf(ls, c) == [type |-> Type(ls, c), data |-> Data(ls, c), bytes |-> Cardinality(DataLines(ls, c))]
AllParse(rs) == \A k \in DOMAIN rs : parse_stream_event_data(rs[k].data) = "ok"
Streaming ==
  /\ call.op \in Streams /\ IsLines(lines) /\ reader = ReaderOf(lines, Len(lines) + 1)
  /\ delivered = Records(lines, FALSE) /\ AllParse(delivered)

\* The reply that is read as a stream, and what has been read of it if it
\* refuses: nothing, or the error.
Body ==
  /\ HeardCall /\ reply.ok
  /\ reply \in Spoiled \/ heard.verdict = "did" \/ reply.is \in {"error", "version", "event"}
  /\ reply \in Spoiled => reply.is \in {"other", "junk"}
Refusing ==
  /\ reply.is \in {"error", "version"} => delivered = <<>> /\ reader.data = <<>>
  /\ reply.is = "event" => delivered = <<>> /\ reader.data \in {<<>>, <<Refusal>>}

\* How a stream that is a refusal may end.
EndsAsRefused ==
  /\ reply.is \in {"error", "version"} => delivered' = <<>> /\ outcome' \in {"ok", "transport"}
  /\ reply.is = "event" => /\ delivered' = <<>> /\ outcome' \in {"version", "protocol", "transport"}
                           /\ outcome' = "version" => heard.verdict = "version"

AtCard == stage = "card" => Uncalled
AtNegotiate == stage = "negotiate" => Uncalled /\ InterfacesOk(interfaces)
AtCall == stage = "call" => Agreed /\ call = Unset /\ heard = Unset /\ reply = Unset /\ Fresh
AtSent == stage = "sent" => Agreed /\ heard = Unset /\ reply = Unset /\ Fresh
AtHandled == stage = "handled" => Agreed /\ HeardCall /\ reply = Unset /\ Fresh
AtStream == stage = "stream" => outcome = "none" /\ Streaming /\ Body /\ Refusing
AtEnd == stage = "end" => CallsAreReportedTruly /\ StreamIsFaithful

Stages == {"card", "negotiate", "call", "sent", "handled", "stream", "end"}
Staged == stage \in Stages /\ AtCard /\ AtNegotiate /\ AtCall /\ AtSent /\ AtHandled /\ AtStream /\ AtEnd
Negotiated == NegotiatedIsCallable /\ NegotiatedIsPreferred
ClientInv == Staged /\ Negotiated

LEMMA ClientFaithfulNow ==
  ASSUME ClientInv
  PROVE  ClientIsFaithful
<1>1. CASE stage = "end"
  BY <1>1 DEF ClientInv, Staged, AtEnd, Negotiated, ClientIsFaithful
<1>2. CASE stage # "end"
  <2>1. outcome = "none"
    BY <1>2 DEF ClientInv, Staged, Stages, AtCard, AtNegotiate, AtCall, AtSent, AtHandled, AtStream, Uncalled, Agreed
  <2>2. CallsAreReportedTruly
    BY <1>2, <2>1 DEF CallsAreReportedTruly
  <2>3. StreamIsFaithful
    <3>1. CASE stage = "stream"
      <4>1. delivered = Records(lines, FALSE)
        BY <3>1 DEF ClientInv, Staged, AtStream, Streaming
      <4> QED
        BY <3>1, <4>1 DEF StreamIsFaithful
    <3>2. CASE stage # "stream"
      BY <1>2, <3>2 DEF StreamIsFaithful
    <3> QED
      BY <3>1, <3>2
  <2> QED
    BY <2>2, <2>3 DEF ClientInv, Negotiated, ClientIsFaithful
<1> QED
  BY <1>1, <1>2

\* What negotiation came to does not change after it.
LEMMA NegotiationStays ==
  ASSUME Negotiated, UNCHANGED <<interfaces, options, interface>>
  PROVE  Negotiated'
<1>1. NegotiatedIsCallable'
  BY DEF Negotiated, NegotiatedIsCallable, Callable
<1>2. interface # Unset /\ options.override = Unset /\ PreferencesOk(options) /\ interfaces # <<>> =>
        PreferredWell(interface, interfaces, options)
  BY DEF Negotiated, NegotiatedIsPreferred, PreferredWell, Best, Wanted, Rank, BindingOf
<1>3. (interface # Unset /\ options.override = Unset /\ PreferencesOk(options) /\ interfaces # <<>> =>
         PreferredWell(interface, interfaces, options))'
  <2>1. PICK n, is, o : n = interface /\ is = interfaces /\ o = options
    OBVIOUS
  <2>2. n = interface' /\ is = interfaces' /\ o = options'
    BY <2>1
  <2>3. n # Unset /\ o.override = Unset /\ PreferencesOk(o) /\ is # <<>> => PreferredWell(n, is, o)
    BY <1>2, <2>1
  <2> QED
    BY <2>2, <2>3
<1>4. NegotiatedIsPreferred'
  BY <1>3 DEF NegotiatedIsPreferred, PreferredWell, Best, Wanted, Rank, BindingOf
<1> QED
  BY <1>1, <1>4 DEF Negotiated

LEMMA NotYetNegotiated ==
  ASSUME interface' = Unset
  PROVE  Negotiated'
BY DEF Negotiated, NegotiatedIsCallable, NegotiatedIsPreferred

LEMMA EndedQuietly ==
  ASSUME stage' = "end", outcome' # "ok", 
         \/ heard' = Unset /\ (reply' = Unset \/ call' = Unset)
         \/ reply' = Unset /\ outcome' = "transport"
  PROVE  Staged'
<1>1. CallsAreReportedTruly'
  BY DEF CallsAreReportedTruly, Unspoiled
<1>2. StreamIsFaithful'
  BY DEF StreamIsFaithful
<1> QED
  BY <1>1, <1>2 DEF Staged, Stages, AtCard, AtNegotiate, AtCall, AtSent, AtHandled, AtStream, AtEnd

LEMMA ClientInitOk ==
  ASSUME ClientInit
  PROVE  ClientInv
<1>1. Uncalled
  BY DEF ClientInit, Uncalled, Fresh
<1>2. Negotiated
  BY <1>1 DEF Uncalled, Negotiated, NegotiatedIsCallable, NegotiatedIsPreferred
<1>3. Staged
  BY <1>1 DEF ClientInit, Staged, Stages, AtCard, AtNegotiate, AtCall, AtSent, AtHandled, AtStream, AtEnd
<1> QED
  BY <1>2, <1>3 DEF ClientInv

----------------------------------------------------------------------------
(* From the card to the call.                                              *)

LEMMA AcceptedInterfaces ==
  ASSUME NEW raw \in RawCards, CardAccepted(raw)
  PROVE  InterfacesOk(NormalizedInterfaces(raw))
<1>1. PICK is : is = NormalizedInterfaces(raw)
  OBVIOUS
<1>2. \A i \in DOMAIN is : validate_agent_interface(is[i])
  BY <1>1 DEF CardAccepted, validate_agent_card
<1>3. Listed(is)
  <2>1. CASE raw.interfaces = Unset
    <3>1. is = <<>>
      BY <1>1, <2>1 DEF NormalizedInterfaces
    <3>2. is \in Seq(Range(is))
      BY <3>1, EmptySeq
    <3> QED
      BY <3>2 DEF Listed
  <2>2. CASE raw.interfaces # Unset
    <3>1. Listed(raw.interfaces)
      BY <2>2, ClientConstants DEF Listed
    <3>2. PICK n \in Nat : DOMAIN raw.interfaces = 1 .. n
      BY <3>1, ListedDomain
    <3>3. DOMAIN is = 1 .. n /\ is = [i \in 1 .. n |-> is[i]]
      BY <1>1, <2>2, <3>2 DEF NormalizedInterfaces
    <3>4. is \in [1 .. n -> Range(is)]
      BY <3>3 DEF Range
    <3>5. is \in Seq(Range(is))
      BY <3>4, SeqDef
    <3> QED
      BY <3>5 DEF Listed
  <2> QED
    BY <2>1, <2>2
<1> QED
  BY <1>1, <1>2, <1>3 DEF InterfacesOk

LEMMA CardSteps ==
  ASSUME ClientInv,
         \/ \E raw \in RawCards : FetchCard(raw)
         \/ FetchLost \/ FetchNotModified
         \/ \E is \in {"junk", "version"} : FetchRefused(Reply(FALSE, FALSE, is))
  PROVE  ClientInv'
<1>1. stage = "card" /\ Uncalled
  BY DEF ClientInv, Staged, AtCard, FetchCard, FetchLost, FetchNotModified, FetchRefused
<1>2. UNCHANGED <<options, interface, call, heard, lines, reader, delivered>>
  BY DEF FetchCard, FetchLost, FetchNotModified, FetchRefused
<1>3. Negotiated'
  BY <1>1, <1>2, NotYetNegotiated DEF Uncalled
<1>4. ASSUME NEW raw \in RawCards, FetchCard(raw), CardAccepted(raw) PROVE Staged'
  <2>1. stage' = "negotiate" /\ interfaces' = NormalizedInterfaces(raw) /\ UNCHANGED <<outcome, reply>>
    BY <1>4 DEF FetchCard
  <2>2. InterfacesOk(interfaces)'
    BY <1>4, <2>1, AcceptedInterfaces DEF InterfacesOk, Listed, validate_agent_interface
  <2>3. Uncalled'
    BY <1>1, <1>2, <2>1 DEF Uncalled, Fresh
  <2> QED
    BY <2>1, <2>2, <2>3 DEF Staged, Stages, AtCard, AtNegotiate, AtCall, AtSent, AtHandled, AtStream, AtEnd
<1>5. ASSUME NEW raw \in RawCards, FetchCard(raw), ~CardAccepted(raw) PROVE Staged'
  <2>1. stage' = "end" /\ outcome' = "protocol" /\ reply' = reply
    BY <1>5 DEF FetchCard, Return
  <2> QED
    BY <1>1, <1>2, <2>1, EndedQuietly DEF Uncalled
<1>6. ASSUME FetchLost \/ FetchNotModified \/ \E is \in {"junk", "version"} : FetchRefused(Reply(FALSE, FALSE, is))
      PROVE  Staged'
  <2>1. stage' = "end" /\ outcome' # "ok"
    BY <1>6 DEF FetchLost, FetchNotModified, FetchRefused, Return, Failed
  <2> QED
    BY <1>1, <1>2, <2>1, EndedQuietly DEF Uncalled
<1>7. Staged'
  BY <1>4, <1>5, <1>6
<1> QED
  BY <1>3, <1>7 DEF ClientInv

LEMMA NegotiateSteps ==
  ASSUME ClientInv, NEW o \in Options, Negotiate(o)
  PROVE  ClientInv'
<1>1. PICK n : n = negotiate_agent_interface(interfaces, o)
  OBVIOUS
<1>2. Uncalled /\ InterfacesOk(interfaces)
  BY DEF ClientInv, Staged, AtNegotiate, Negotiate
<1>3. options' = o /\ interface' = n /\ UNCHANGED <<interfaces, call, heard, reply, lines, reader, delivered>>
  BY <1>1 DEF Negotiate
<1>4. Listed(o.preferred)
  BY ClientConstants DEF Listed
<1>5. NegotiatedWell(n, interfaces, o)
  BY <1>1, <1>2, <1>4, NegotiationOk
<1>6. NegotiatedIsCallable'
  BY <1>3, <1>5 DEF NegotiatedIsCallable, NegotiatedWell, Callable
<1>7. NegotiatedIsPreferred'
  <2>1. ASSUME o.override = Unset, PreferencesOk(o), interfaces # <<>>
        PROVE  PreferredWell(n, interfaces, o)
    BY <1>1, <1>2, <1>4, <2>1, PreferredOk
  <2> QED
    BY <1>3, <2>1 DEF NegotiatedIsPreferred, PreferredWell, Best, Wanted, Rank, BindingOf
<1>8. Staged'
  <2>1. CASE n.error = ""
    <3>1. stage' = "call" /\ outcome' = outcome
      BY <1>1, <2>1 DEF Negotiate
    <3>2. Agreed'
      BY <1>2, <1>3, <1>5, <2>1, <3>1 DEF Agreed, Uncalled, NegotiatedWell
    <3>3. Fresh' /\ call' = Unset /\ heard' = Unset /\ reply' = Unset
      BY <1>2, <1>3 DEF Uncalled, Fresh
    <3> QED
      BY <3>1, <3>2, <3>3 DEF Staged, Stages, AtCard, AtNegotiate, AtCall, AtSent, AtHandled, AtStream, AtEnd
  <2>2. CASE n.error # ""
    <3>1. stage' = "end" /\ outcome' = n.error
      BY <1>1, <2>2 DEF Negotiate, Return
    <3>2. n.error # "ok"
      BY <1>5 DEF NegotiatedWell
    <3> QED
      BY <1>2, <1>3, <3>1, <3>2, EndedQuietly DEF Uncalled
  <2> QED
    BY <2>1, <2>2
<1> QED
  BY <1>6, <1>7, <1>8 DEF ClientInv, Negotiated

----------------------------------------------------------------------------
(* One exchange.                                                           *)

LEMMA RequestSteps ==
  ASSUME ClientInv, NEW op, NEW r, Request(op, r)
  PROVE  ClientInv'
<1>1. Agreed /\ heard = Unset /\ reply = Unset /\ Fresh
  BY DEF ClientInv, Staged, AtCall, Request
<1>2. UNCHANGED <<interfaces, options, interface, heard, reply, lines, reader, delivered>>
  BY DEF Request
<1>3. Negotiated'
  BY <1>2, NegotiationStays DEF ClientInv
<1>4. CASE stage' = "sent" /\ outcome' = outcome
  <2>1. Agreed' /\ heard' = Unset /\ reply' = Unset /\ Fresh'
    BY <1>1, <1>2, <1>4 DEF Agreed, Fresh
  <2>2. Staged'
    BY <1>4, <2>1 DEF Staged, Stages, AtCard, AtNegotiate, AtCall, AtSent, AtHandled, AtStream, AtEnd
  <2> QED
    BY <1>3, <2>2 DEF ClientInv
<1>5. CASE stage' = "end" /\ outcome' = "validation"
  <2>1. Staged'
    BY <1>1, <1>2, <1>5, EndedQuietly
  <2> QED
    BY <1>3, <2>1 DEF ClientInv
<1> QED
  BY <1>4, <1>5 DEF Request, Return

LEMMA HandleSteps ==
  ASSUME ClientInv, NEW v \in Verdicts, AgentHandles(v)
  PROVE  ClientInv'
<1>1. Agreed /\ reply = Unset /\ Fresh
  BY DEF ClientInv, Staged, AtSent, AgentHandles
<1>2. /\ UNCHANGED <<interfaces, options, interface, call, reply, lines, reader, delivered, outcome>>
      /\ stage' = "handled" /\ heard' = [op |-> call.op, tenant |-> TenantOf(call.args), verdict |-> v]
  BY DEF AgentHandles
<1>3. Negotiated'
  BY <1>2, NegotiationStays DEF ClientInv
<1>4. Agreed' /\ reply' = Unset /\ Fresh'
  BY <1>1, <1>2 DEF Agreed, Fresh
<1>5. HeardCall'
  BY <1>2 DEF HeardCall, TenantOf, Verdicts
<1>6. Staged'
  BY <1>2, <1>4, <1>5 DEF Staged, Stages, AtCard, AtNegotiate, AtCall, AtSent, AtHandled, AtStream, AtEnd
<1> QED
  BY <1>3, <1>6 DEF ClientInv

LEMMA LostSteps ==
  ASSUME ClientInv, ExchangeLost
  PROVE  ClientInv'
<1>1. reply = Unset
  BY DEF ClientInv, Staged, AtSent, AtHandled, ExchangeLost
<1>2. /\ UNCHANGED <<interfaces, options, interface, call, heard, reply>>
      /\ stage' = "end" /\ outcome' = "transport"
  BY DEF ExchangeLost, Return
<1>3. Negotiated'
  BY <1>2, NegotiationStays DEF ClientInv
<1>4. Staged'
  BY <1>1, <1>2, EndedQuietly
<1> QED
  BY <1>3, <1>4 DEF ClientInv

\* A reply as far as the outcome depends on it.
Read(op, r, binding) == IF binding = "http+json" THEN HttpOutcome(op, r) ELSE RpcOutcome(op, r)

LEMMA SpoiledRead ==
  ASSUME NEW op, NEW r \in Spoiled, NEW binding
  PROVE  Read(op, r, binding) \in {"ok", "protocol", "transport"}
         /\ r.is \in {"other", "junk"} /\ Failed(r) = "transport"
<1>1. r.is \in {"other", "junk"}
  BY DEF Spoiled, Reply
<1>2. Failed(r) = "transport"
  BY <1>1 DEF Failed
<1> QED
  BY <1>1, <1>2 DEF Read, HttpOutcome, RpcOutcome

\* What an agent of the negotiated binding answers is read as it is meant.
ReadTruly(op, verdict, r, o) ==
  /\ o \in {"ok", "version", "transport", "protocol"} /\ (o = "ok" => verdict = "did")
  /\ verdict = "version" <=> o = "version"
  /\ verdict = "refused" => o \in {"transport", "protocol"}
  /\ verdict = "did" => o = "ok" \/ (op = "DeletePushConfig" /\ IF r.rpc THEN r.is = "null" ELSE r.is = "empty")

LEMMA HonestRead ==
  ASSUME IsLocal(interface.binding), heard.verdict \in Verdicts, NEW op, op = heard.op, op \notin Streams,
         NEW r \in HonestReplies
  PROVE  ReadTruly(op, heard.verdict, r, Read(op, r, interface.binding))
<1>1. PICK rpc \in BOOLEAN : rpc = (interface.binding = "json-rpc")
  OBVIOUS
<1>2. interface.binding = IF rpc THEN "json-rpc" ELSE "http+json"
  BY <1>1, LocalBindings
<1>3. CASE heard.verdict = "did"
  <2>1. \/ r = Reply(TRUE, rpc, "value")
        \/ op = "DeletePushConfig" /\ r = Reply(TRUE, rpc, "null")
        \/ op = "DeletePushConfig" /\ ~rpc /\ r = Reply(TRUE, FALSE, "empty")
        \/ op = "ListTasks" /\ r = Reply(TRUE, rpc, "unpaged")
    BY <1>1, <1>3 DEF HonestReplies, Acknowledgements
  <2>2. PICK o : o = Read(op, r, interface.binding)
    OBVIOUS
  <2>3. CASE r = Reply(TRUE, rpc, "value")
    <3>1. o = "ok"
      BY <1>2, <2>2, <2>3 DEF Read, HttpOutcome, RpcOutcome, Reply, Fits
    <3> QED
      BY <1>3, <2>2, <3>1 DEF ReadTruly
  <2>4. CASE op = "ListTasks" /\ r = Reply(TRUE, rpc, "unpaged")
    <3>1. o = "ok"
      BY <1>2, <2>2, <2>4 DEF Read, HttpOutcome, RpcOutcome, Reply, Fits
    <3> QED
      BY <1>3, <2>2, <3>1 DEF ReadTruly
  <2>5. CASE op = "DeletePushConfig" /\ r = Reply(TRUE, rpc, "null")
    <3>1. CASE rpc
      <4>1. r.rpc /\ r.is = "null" /\ o = "protocol"
        BY <1>2, <2>2, <2>5, <3>1 DEF Read, RpcOutcome, Reply
      <4> QED
        BY <1>3, <2>2, <2>5, <4>1 DEF ReadTruly
    <3>2. CASE ~rpc
      <4>1. o = "ok"
        BY <1>2, <2>2, <2>5, <3>2 DEF Read, HttpOutcome, Reply
      <4> QED
        BY <1>3, <2>2, <4>1 DEF ReadTruly
    <3> QED
      BY <3>1, <3>2
  <2>6. CASE op = "DeletePushConfig" /\ ~rpc /\ r = Reply(TRUE, FALSE, "empty")
    <3>1. ~r.rpc /\ r.is = "empty" /\ o = "protocol"
      BY <1>2, <2>2, <2>6 DEF Read, HttpOutcome, Reply
    <3> QED
      BY <1>3, <2>2, <2>6, <3>1 DEF ReadTruly
  <2> QED
    BY <2>1, <2>3, <2>4, <2>5, <2>6
<1>4. CASE heard.verdict = "refused"
  <2>1. r = Reply(FALSE, rpc, "error") \/ (rpc /\ r = Reply(TRUE, TRUE, "error"))
    BY <1>1, <1>4 DEF HonestReplies, Refusals
  <2>2. PICK o : o = Read(op, r, interface.binding)
    OBVIOUS
  <2>3. o \in {"transport", "protocol"}
    BY <1>2, <2>1, <2>2 DEF Read, HttpOutcome, RpcOutcome, Reply, Failed
  <2> QED
    BY <1>4, <2>2, <2>3 DEF ReadTruly
<1>5. CASE heard.verdict = "version"
  <2>1. r = Reply(FALSE, rpc, "version") \/ (rpc /\ r = Reply(TRUE, TRUE, "version"))
    BY <1>1, <1>5 DEF HonestReplies, Refusals
  <2>2. PICK o : o = Read(op, r, interface.binding)
    OBVIOUS
  <2>3. o = "version"
    BY <1>2, <2>1, <2>2 DEF Read, HttpOutcome, RpcOutcome, Reply, Failed
  <2> QED
    BY <1>5, <2>2, <2>3 DEF ReadTruly
<1> QED
  BY <1>3, <1>4, <1>5 DEF Verdicts

LEMMA AnswerSteps ==
  ASSUME ClientInv, NEW r \in HonestReplies \cup Spoiled, NEW ops, ops \cap Streams = {}, Answered(ops, r)
  PROVE  ClientInv'
<1>1. Agreed /\ HeardCall
  BY DEF ClientInv, Staged, AtHandled, Answered
<1>2. PICK o : o = Read(call.op, r, interface.binding)
  OBVIOUS
<1>3. /\ UNCHANGED <<interfaces, options, interface, call, heard>> /\ call.op \notin Streams
      /\ reply' = r /\ stage' = "end" /\ outcome' = o
  BY <1>2 DEF Answered, Return, Read
<1>4. Negotiated'
  BY <1>3, NegotiationStays DEF ClientInv
<1>5. StreamIsFaithful'
  BY <1>3 DEF StreamIsFaithful
<1>6. \/ r \in Spoiled /\ o \in {"ok", "protocol", "transport"}
      \/ ReadTruly(call.op, heard.verdict, r, o)
  <2>1. CASE r \in Spoiled
    BY <1>2, <2>1, SpoiledRead
  <2>2. CASE r \in HonestReplies
    BY <1>1, <1>2, <1>3, <2>2, HonestRead DEF Agreed, HeardCall
  <2> QED
    BY <2>1, <2>2
<1>7. heard'.tenant = (IF call.args.tenant # Unset THEN call.args.tenant ELSE interface.tenant)'
  BY <1>1, <1>3 DEF HeardCall, TenantOf
<1>8. CallsAreReportedTruly'
  <2>1. CASE r \in Spoiled /\ o \in {"ok", "protocol", "transport"}
    BY <1>3, <1>7, <2>1 DEF CallsAreReportedTruly, Unspoiled
  <2>2. CASE ReadTruly(call.op, heard.verdict, r, o)
    BY <1>3, <1>7, <2>2 DEF CallsAreReportedTruly, ReadTruly, LostAcknowledgement
  <2> QED
    BY <1>6, <2>1, <2>2
<1>9. Staged'
  BY <1>3, <1>5, <1>8 DEF Staged, Stages, AtCard, AtNegotiate, AtCall, AtSent, AtHandled, AtStream, AtEnd
<1> QED
  BY <1>4, <1>9 DEF ClientInv

----------------------------------------------------------------------------
(* Server-sent events.                                                     *)

LEMMA ListOf ==
  ASSUME NEW d \in Nat, NEW s, s = [k \in 1 .. d |-> s[k]]
  PROVE  s \in Seq({s[k] : k \in 1 .. d}) /\ Len(s) = d
<1>1. PICK R : R = {s[k] : k \in 1 .. d}
  OBVIOUS
<1>2. s \in [1 .. d -> R]
  BY <1>1
<1>3. s \in Seq(R) /\ Len(s) = d
  BY <1>2, SeqDef, LenProperties
<1> QED
  BY <1>1, <1>3

LEMMA DataLength ==
  ASSUME NEW ls, NEW n \in Nat
  PROVE  /\ Len(Data(ls, n + 1)) = Cardinality(DataLines(ls, n + 1)) /\ Cardinality(DataLines(ls, n + 1)) \in Nat
         /\ Data(ls, n + 1) = <<>> <=> DataLines(ls, n + 1) = {}
<1>1. PICK D, s : D = DataLines(ls, n + 1) /\ s = Data(ls, n + 1)
  OBVIOUS
<1>2. D \subseteq 1 .. n
  BY <1>1, BlockBound
<1>3. PICK d \in Nat : d = Cardinality(D) /\ IsFiniteSet(D)
  <2>1. IsFiniteSet(D) /\ Cardinality(D) \in 0 .. n
    BY <1>2, Bounded
  <2> QED
    BY <2>1
<1>4. s = [k \in 1 .. d |-> ls[Nth(D, k)].value]
  BY <1>1, <1>3 DEF Data
<1>5. s = [k \in 1 .. d |-> s[k]]
  BY <1>4
<1>6. Len(s) = d
  BY <1>5, ListOf
<1>7. s = <<>> <=> d = 0
  BY <1>4, <1>6
<1>8. d = 0 <=> D = {}
  BY <1>3, FS_EmptySet
<1> QED
  BY <1>1, <1>3, <1>6, <1>7, <1>8

LEMMA RecordsListed ==
  ASSUME NEW ls, IsLines(ls)
  PROVE  \E R : Records(ls, FALSE) \in Seq(R)
<1>1. PICK F, s, n : F = Full(ls, FALSE) /\ s = Records(ls, FALSE) /\ n = Len(ls)
  OBVIOUS
<1>2. n \in Nat /\ F \subseteq 1 .. n
  BY <1>1, LineFields, FullBound
<1>3. PICK d \in Nat : d = Cardinality(F)
  <2>1. Cardinality(F) \in 0 .. n
    BY <1>2, Bounded
  <2> QED
    BY <2>1
<1>4. s = [k \in 1 .. d |-> Record(ls, Nth(F, k), k)]
  BY <1>1, <1>3 DEF Records
<1>5. s = [k \in 1 .. d |-> s[k]]
  BY <1>4
<1>6. s \in Seq({s[k] : k \in 1 .. d})
  BY <1>5, ListOf
<1> QED
  BY <1>1, <1>6

\* A sequence and one element more.
LEMMA LastAppended ==
  ASSUME NEW R, NEW s \in Seq(R), NEW x
  PROVE  /\ Append(s, x) # <<>> /\ Last(Append(s, x)) = x
         /\ DOMAIN Append(s, x) = 1 .. Len(s) + 1 /\ DOMAIN s = 1 .. Len(s) /\ Len(s) \in Nat
         /\ Append(s, x)[Len(s) + 1] = x /\ \A k \in 1 .. Len(s) : Append(s, x)[k] = s[k]
<1>1. PICK Q : Q = R \cup {x}
  OBVIOUS
<1>2. \A k \in DOMAIN s : s[k] \in Q
  BY <1>1
<1>3. s \in Seq(Q) /\ x \in Q
  BY <1>1, <1>2, LenProperties, SeqDef
<1>4. PICK t : t = Append(s, x)
  OBVIOUS
<1>5. t \in Seq(Q) /\ Len(t) = Len(s) + 1 /\ t[Len(s) + 1] = x /\ \A k \in 1 .. Len(s) : t[k] = s[k]
  BY <1>3, <1>4, AppendProperties
<1>6. Len(s) \in Nat /\ DOMAIN s = 1 .. Len(s) /\ DOMAIN t = 1 .. Len(s) + 1
  BY <1>3, <1>5, LenProperties
<1>7. t # <<>> /\ Last(t) = x
  BY <1>5, <1>6 DEF Last
<1> QED
  BY <1>4, <1>5, <1>6, <1>7

LEMMA ParsedAppended ==
  ASSUME NEW R, NEW s \in Seq(R), NEW x, AllParse(s), parse_stream_event_data(x.data) = "ok"
  PROVE  AllParse(Append(s, x))
<1>1. PICK t : t = Append(s, x)
  OBVIOUS
<1>2. /\ DOMAIN t = 1 .. Len(s) + 1 /\ DOMAIN s = 1 .. Len(s) /\ Len(s) \in Nat
      /\ t[Len(s) + 1] = x /\ \A k \in 1 .. Len(s) : t[k] = s[k]
  BY <1>1, LastAppended
<1>3. \A k \in DOMAIN t : k = Len(s) + 1 \/ k \in DOMAIN s
  BY <1>2
<1>4. \A k \in DOMAIN t : parse_stream_event_data(t[k].data) = "ok"
  BY <1>2, <1>3 DEF AllParse
<1> QED
  BY <1>1, <1>4 DEF AllParse

LEMMA NothingRead ==
  ASSUME NEW ls, ls = <<>>
  PROVE  IsLines(ls) /\ ReaderOf(ls, Len(ls) + 1) = NoReader /\ Records(ls, FALSE) = <<>>
<1>1. IsLines(ls) /\ Len(ls) = 0 /\ DOMAIN ls = {}
  BY EmptySeq DEF IsLines
<1>2. Block(ls, 1) = {}
  BY DEF Block
<1>3. DataLines(ls, 1) = {} /\ Type(ls, 1) = Unset
  BY <1>2 DEF DataLines, Type
<1>4. Data(ls, 1) = <<>> /\ Cardinality(DataLines(ls, 1)) = 0
  BY <1>3, FS_EmptySet DEF Data
<1>5. Full(ls, FALSE) = {}
  BY <1>1 DEF Full, Closings
<1>6. Records(ls, FALSE) = <<>>
  <2>1. Cardinality(Full(ls, FALSE)) = 0
    BY <1>5, FS_EmptySet
  <2>2. PICK s : s = Records(ls, FALSE)
    OBVIOUS
  <2>3. s = [k \in 1 .. 0 |-> s[k]]
    BY <2>1, <2>2 DEF Records
  <2>4. s \in Seq({s[k] : k \in 1 .. 0}) /\ Len(s) = 0
    BY <2>3, ListOf
  <2> QED
    BY <2>2, <2>4, EmptySeq
<1>7. Len(ls) + 1 = 1
  BY <1>1
<1> QED
  BY <1>1, <1>3, <1>4, <1>6, <1>7 DEF ReaderOf, NoReader

LEMMA StreamEnds ==
  ASSUME stage' = "end", call.op \in Streams, UNCHANGED <<call, heard, reply, interface>>,
         Body, EndsAsRefused, outcome' # "validation", StreamIsFaithful'
  PROVE  Staged'
<1>1. heard'.tenant = (IF call.args.tenant # Unset THEN call.args.tenant ELSE interface.tenant)'
  BY DEF Body, HeardCall, TenantOf
<1>2. heard.verdict \in Verdicts
  BY DEF Body, HeardCall
<1>3. reply.ok
  BY DEF Body
<1>4. reply \in Spoiled \/ heard.verdict = "did" \/ reply.is \in {"error", "version", "event"}
  BY DEF Body
<1>5. outcome' = "ok" => heard.verdict = "did" \/ reply \in Spoiled \/ SilentRefusal
  BY <1>3, <1>4 DEF EndsAsRefused, SilentRefusal
<1>6. outcome' = "version" => heard.verdict = "version" \/ heard.verdict = "did" \/ reply \in Spoiled
  BY <1>4 DEF EndsAsRefused
<1>7. ASSUME reply \notin Spoiled, heard.verdict # "did"
      PROVE  /\ delivered' = <<>>
             /\ outcome' \in IF SilentRefusal THEN {"ok", "transport"} ELSE {"version", "protocol", "transport"}
  BY <1>3, <1>4, <1>7 DEF EndsAsRefused, SilentRefusal
<1>8. SilentRefusal' <=> SilentRefusal
  BY DEF SilentRefusal
<1>9. CallsAreReportedTruly'
  BY <1>1, <1>5, <1>6, <1>7, <1>8 DEF CallsAreReportedTruly, Unspoiled
<1> QED
  BY <1>9 DEF Staged, Stages, AtCard, AtNegotiate, AtCall, AtSent, AtHandled, AtStream, AtEnd

LEMMA StreamGoesOn ==
  ASSUME stage' = "stream", outcome' = "none", Streaming', Body, Refusing',
         UNCHANGED <<call, heard, reply, interface>>
  PROVE  Staged'
<1>1. Body'
  BY DEF Body, HeardCall, TenantOf
<1> QED
BY <1>1 DEF Staged, Stages, AtCard, AtNegotiate, AtCall, AtSent, AtHandled, AtStream, AtEnd

\* A reply to a call that asked for a stream.
LEMMA StreamReply ==
  ASSUME heard.verdict \in Verdicts, NEW r \in HonestReplies \cup Spoiled
  PROVE  /\ r \in Spoiled \/ heard.verdict = "did" \/ r.is \in {"error", "version", "event"}
         /\ r \in Spoiled => r.is \in {"other", "junk"} /\ Failed(r) = "transport"
         /\ ~r.ok /\ r \notin Spoiled => heard.verdict # "did" /\ r.is \in {"error", "version"}
                                          /\ (r.is = "version" <=> heard.verdict = "version")
<1>1. r \in Spoiled => r.is \in {"other", "junk"} /\ Failed(r) = "transport"
  BY SpoiledRead
<1>2. ASSUME r \notin Spoiled, heard.verdict = "did" PROVE r.ok
  BY <1>2 DEF HonestReplies, Acknowledgements, Reply
<1>3. ASSUME r \notin Spoiled, heard.verdict # "did"
      PROVE  /\ r.is \in {"error", "version", "event"}
             /\ ~r.ok => r.is \in {"error", "version"} /\ (r.is = "version" <=> heard.verdict = "version")
  <2>1. PICK rpc \in BOOLEAN : rpc = (interface.binding = "json-rpc")
    OBVIOUS
  <2>2. PICK is \in {"error", "version"} :
          r \in Refusals(rpc, is) /\ (is = "version" <=> heard.verdict = "version")
    BY <1>3, <2>1 DEF HonestReplies, Verdicts
  <2>3. r = Reply(FALSE, rpc, is) \/ r = Reply(TRUE, TRUE, is) \/ r = Reply(TRUE, TRUE, "event")
    BY <2>2 DEF Refusals
  <2> QED
    BY <2>2, <2>3 DEF Reply
<1> QED
  BY <1>1, <1>2, <1>3

LEMMA OpenSteps ==
  ASSUME ClientInv, NEW r \in HonestReplies \cup Spoiled, StreamOpens(r)
  PROVE  ClientInv'
<1>1. Agreed /\ Fresh /\ call.op \in Streams /\ HeardCall
  BY DEF ClientInv, Staged, AtHandled, StreamOpens
<1>2. UNCHANGED <<interfaces, options, interface, call, heard, lines, reader, delivered>> /\ reply' = r
  BY DEF StreamOpens
<1>3. Negotiated'
  BY <1>2, NegotiationStays DEF ClientInv
<1>4. CASE r.ok
  <2>1. stage' = "stream" /\ outcome' = "none"
    BY <1>1, <1>4 DEF StreamOpens, Agreed
  <2>2. PICK ls : ls = lines' /\ ls = <<>> /\ reader' = NoReader /\ delivered' = <<>>
    BY <1>1, <1>2 DEF Fresh
  <2>3. IsLines(ls) /\ ReaderOf(ls, Len(ls) + 1) = NoReader /\ Records(ls, FALSE) = <<>>
    BY <2>2, NothingRead
  <2>4. AllParse(delivered)'
    BY <2>2 DEF AllParse
  <2>5. Streaming'
    BY <1>1, <1>2, <2>2, <2>3, <2>4 DEF Streaming
  <2>6. Body' /\ Refusing'
    <3>1. HeardCall'
      BY <1>1, <1>2 DEF HeardCall, TenantOf
    <3>2. /\ r \in Spoiled \/ heard.verdict = "did" \/ r.is \in {"error", "version", "event"}
          /\ r \in Spoiled => r.is \in {"other", "junk"}
      BY <1>1, StreamReply DEF HeardCall
    <3>3. delivered' = <<>> /\ reader'.data = <<>>
      BY <2>2 DEF NoReader
    <3> QED
      BY <1>2, <1>4, <3>1, <3>2, <3>3 DEF Body, Refusing
  <2>7. Staged'
    BY <2>1, <2>5, <2>6 DEF Staged, Stages, AtCard, AtNegotiate, AtCall, AtSent, AtHandled, AtStream, AtEnd
  <2> QED
    BY <1>3, <2>7 DEF ClientInv
<1>5. CASE ~r.ok
  <2>1. stage' = "end" /\ outcome' = Failed(r) /\ outcome' \in {"version", "transport"}
    BY <1>5 DEF StreamOpens, Return, Failed
  <2>2. StreamIsFaithful'
    BY <1>2, <1>5 DEF StreamIsFaithful
  <2>4. CallsAreReportedTruly'
    <3>1. r \in Spoiled => outcome' = "transport"
      BY <1>1, <2>1, StreamReply DEF HeardCall
    <3>2. r \notin Spoiled => heard.verdict # "did" /\ (outcome' = "version" <=> heard.verdict = "version")
      BY <1>1, <1>5, <2>1, StreamReply DEF HeardCall, Failed
    <3>3. ~SilentRefusal' /\ delivered' = <<>>
      BY <1>1, <1>2, <1>5 DEF SilentRefusal, Fresh
    <3> QED
      BY <1>1, <1>2, <2>1, <3>1, <3>2, <3>3 DEF CallsAreReportedTruly, Unspoiled
  <2>3. Staged'
    BY <2>1, <2>2, <2>4 DEF Staged, Stages, AtCard, AtNegotiate, AtCall, AtSent, AtHandled, AtStream, AtEnd
  <2> QED
    BY <1>3, <2>3 DEF ClientInv
<1> QED
  BY <1>4, <1>5

\* What is true while a stream is read.
LEMMA WhileStreaming ==
  ASSUME ClientInv, stage = "stream"
  PROVE  /\ outcome = "none" /\ call.op \in Streams /\ IsLines(lines) /\ Len(lines) \in Nat
         /\ reader.data = Data(lines, Len(lines) + 1) /\ reader.type = Type(lines, Len(lines) + 1)
         /\ reader.bytes = Cardinality(DataLines(lines, Len(lines) + 1))
         /\ reader = ReaderOf(lines, Len(lines) + 1)
         /\ delivered = Records(lines, FALSE) /\ AllParse(delivered) /\ (\E R : delivered \in Seq(R))
         /\ Body /\ Refusing
<1>1. outcome = "none" /\ Streaming /\ Body /\ Refusing
  BY DEF ClientInv, Staged, AtStream
<1>2. IsLines(lines)
  BY <1>1 DEF Streaming
<1>3. Len(lines) \in Nat
  BY <1>2, LineFields
<1>4. \E R : Records(lines, FALSE) \in Seq(R)
  BY <1>2, RecordsListed
<1> QED
  BY <1>1, <1>2, <1>3, <1>4 DEF Streaming, ReaderOf

\* The ways in which a stream ends as its events tell.
LEMMA EndedFaithfully ==
  ASSUME stage' = "end", NEW opened, opened = Records(lines', TRUE),
         \/ outcome' = "ok" /\ delivered' = opened /\ AllParse(opened)
         \/ outcome' = "transport" /\ delivered' = Records(lines', FALSE)
         \/ outcome' = "caller" /\ delivered' = opened
         \/ /\ outcome' \in {"version", "protocol"} /\ opened # <<>> /\ opened = Append(delivered', Last(opened))
            /\ \/ parse_stream_event_data(Last(opened).data) = outcome'
               \/ outcome' = "protocol" /\ Len(Last(opened).data) > MAX_SSE_EVENT_DATA_BYTES
  PROVE  StreamIsFaithful' /\ outcome' # "validation"
BY DEF StreamIsFaithful, AllParse

LEMMA ParseResults ==
  ASSUME NEW data, parse_stream_event_data(data) # "ok"
  PROVE  parse_stream_event_data(data) \in {"version", "protocol"}
BY DEF parse_stream_event_data

\* An error in an event is read as one.
LEMMA RefusalParsed ==
  /\ parse_stream_event_data(<<Refusal>>) # "ok"
  /\ parse_stream_event_data(<<Refusal>>) = "version" => heard.verdict = "version"
<1>1. parse_stream_event_data(<<"version">>) = "version" /\ parse_stream_event_data(<<"error">>) = "protocol"
  BY DEF parse_stream_event_data
<1> QED
  BY <1>1 DEF Refusal

\* An event is dispatched where a blank line or the end of the stream closes it.
LEMMA DispatchSteps ==
  ASSUME ClientInv, stage = "stream", NEW accepted, NEW last, DispatchSseRecord(accepted, last),
         UNCHANGED <<call, heard, reply, interface>>, last /\ reply.is = "event" => reader.data # <<>>,
         IsLines(lines'), Records(lines', TRUE) = Records(lines, TRUE),
         ~last => Records(lines', FALSE) = Records(lines, TRUE) /\ ReaderOf(lines', Len(lines') + 1) = NoReader
  PROVE  Staged'
<1>1. PICK n \in Nat : n = Len(lines)
  BY WhileStreaming
<1>2. /\ outcome = "none" /\ call.op \in Streams /\ IsLines(lines)
      /\ reader.data = Data(lines, n + 1) /\ reader.type = Type(lines, n + 1)
      /\ delivered = Records(lines, FALSE) /\ AllParse(delivered) /\ Body /\ Refusing
  BY <1>1, WhileStreaming
<1>3. PICK R : delivered \in Seq(R)
  BY WhileStreaming
<1>4. reader' = NoReader
  BY DEF DispatchSseRecord
<1>5. PICK opened : opened = Records(lines, TRUE)
  OBVIOUS
<1>6. reader.data = <<>> <=> DataLines(lines, n + 1) = {}
  BY <1>2, DataLength
<1>7. ASSUME ~last, stage' = "stream", outcome' = "none", delivered' = opened, AllParse(opened),
             reply.is \in {"error", "version", "event"} => delivered' = <<>>
      PROVE Staged'
  <2>1. Streaming'
    BY <1>2, <1>4, <1>5, <1>7 DEF Streaming
  <2>2. reader'.data = <<>>
    BY <1>4 DEF NoReader
  <2>3. Refusing'
    BY <1>7, <2>2 DEF Refusing
  <2> QED
    BY <1>2, <1>7, <2>1, <2>3, StreamGoesOn
<1>8. CASE reader.data = <<>>
  <2>1. opened = delivered /\ delivered' = opened
    BY <1>1, <1>2, <1>5, <1>6, <1>8, EndRecords DEF DispatchSseRecord
  <2>2. CASE last
    <3>1. stage' = "end" /\ outcome' = "ok"
      BY <1>8, <2>2 DEF DispatchSseRecord, Return
    <3>2. StreamIsFaithful' /\ outcome' # "validation"
      BY <1>2, <1>5, <2>1, <3>1, EndedFaithfully
    <3>3. EndsAsRefused
      BY <1>2, <1>8, <2>1, <2>2, <3>1 DEF EndsAsRefused, Refusing
    <3> QED
      BY <1>2, <3>1, <3>2, <3>3, StreamEnds
  <2>3. CASE ~last
    <3>1. stage' = "stream" /\ outcome' = "none"
      BY <1>2, <1>8, <2>3 DEF DispatchSseRecord
    <3>2. reply.is \in {"error", "version", "event"} => delivered' = <<>>
      BY <1>2, <2>1 DEF Refusing
    <3> QED
      BY <1>2, <1>7, <2>1, <2>3, <3>1, <3>2
  <2> QED
    BY <2>2, <2>3
<1>9. CASE reader.data # <<>>
  <2>1. PICK e : e = Event(reader)
    OBVIOUS
  <2>2. e = Record(lines, n + 1, Len(delivered) + 1) /\ e.data = reader.data
    <3>1. Len(delivered) + 1 - 1 = Len(delivered)
      BY <1>3, LenProperties
    <3> QED
      BY <1>2, <2>1, <3>1 DEF Event, Record
  <2>3. opened = Append(delivered, e)
    BY <1>1, <1>2, <1>5, <1>6, <1>9, <2>2, EndRecords
  <2>4. OnRecord(accepted, last)
    BY <1>9 DEF DispatchSseRecord
  <2>5. opened # <<>> /\ Last(opened) = e
    BY <1>3, <2>3, LastAppended
  <2>6. CASE parse_stream_event_data(reader.data) # "ok"
    <3>1. stage' = "end" /\ outcome' = parse_stream_event_data(reader.data) /\ delivered' = delivered
      BY <2>4, <2>6 DEF OnRecord, Return
    <3>2. outcome' \in {"version", "protocol"}
      BY <2>6, <3>1, ParseResults
    <3>3. opened = Append(delivered', Last(opened)) /\ parse_stream_event_data(Last(opened).data) = outcome'
      BY <2>2, <2>3, <2>5, <3>1
    <3>4. StreamIsFaithful' /\ outcome' # "validation"
      BY <1>5, <2>5, <3>1, <3>2, <3>3, EndedFaithfully
    <3>5. EndsAsRefused
      <4>1. reply.is \notin {"error", "version"}
        BY <1>2, <1>9 DEF Refusing
      <4>2. reply.is = "event" => delivered = <<>> /\ reader.data = <<Refusal>>
        BY <1>2, <1>9 DEF Refusing
      <4> QED
        BY <3>1, <3>2, <4>1, <4>2, RefusalParsed DEF EndsAsRefused
    <3> QED
      BY <1>2, <3>1, <3>4, <3>5, StreamEnds
  <2>7. CASE parse_stream_event_data(reader.data) = "ok"
    <3>9. reply.is \notin {"error", "version", "event"}
      BY <1>2, <1>9, <2>7, RefusalParsed DEF Refusing
    <3>1. delivered' = opened
      BY <2>1, <2>3, <2>4, <2>7 DEF OnRecord
    <3>2. AllParse(opened)
      BY <1>2, <1>3, <2>2, <2>3, <2>7, ParsedAppended
    <3>3. CASE ~accepted \/ last
      <4>1. stage' = "end" /\ outcome' \in {"caller", "ok"}
        BY <2>4, <2>7, <3>3 DEF OnRecord, Return
      <4>2. StreamIsFaithful' /\ outcome' # "validation"
        BY <1>5, <3>1, <3>2, <4>1, EndedFaithfully
      <4>3. EndsAsRefused
        BY <3>9 DEF EndsAsRefused
      <4> QED
        BY <1>2, <4>1, <4>2, <4>3, StreamEnds
    <3>4. CASE accepted /\ ~last
      <4>1. stage' = "stream" /\ outcome' = "none"
        BY <1>2, <2>4, <2>7, <3>4 DEF OnRecord
      <4> QED
        BY <1>7, <3>1, <3>2, <3>4, <3>9, <4>1
    <3> QED
      BY <3>3, <3>4
  <2> QED
    BY <2>6, <2>7
<1> QED
  BY <1>8, <1>9

LEMMA OneMore ==
  ASSUME NEW ls, IsLines(ls), NEW line \in Lines
  PROVE  IsLines(Append(ls, line)) /\ Len(Append(ls, line)) = Len(ls) + 1
BY AppendProperties DEF IsLines

LEMMA BlankSteps ==
  ASSUME ClientInv, NEW accepted, BlankLine(accepted)
  PROVE  ClientInv'
<1>1. PICK line \in Lines : line.field = "blank" /\ stage = "stream" /\ lines' = Append(lines, line)
  BY DEF BlankLine, Consume
<1>2. UNCHANGED <<interfaces, options, interface, call, heard, reply>> /\ DispatchSseRecord(accepted, FALSE)
  BY DEF BlankLine
<1>3. PICK n \in Nat : n = Len(lines)
  BY <1>1, WhileStreaming
<1>4. IsLines(lines)
  BY <1>1, WhileStreaming
<1>5. PICK more : more = Append(lines, line) /\ more = lines'
  BY <1>1
<1>6. IsLines(more) /\ Len(more) + 1 = n + 2
  <2>1. PICK ls : ls = lines
    OBVIOUS
  <2>2. IsLines(ls) /\ more = Append(ls, line) /\ n = Len(ls)
    BY <1>3, <1>4, <1>5, <2>1
  <2>3. IsLines(Append(ls, line)) /\ Len(Append(ls, line)) = Len(ls) + 1
    BY <2>2, OneMore
  <2> QED
    BY <2>2, <2>3
<1>7. Records(more, TRUE) = Records(lines, TRUE) /\ Records(more, FALSE) = Records(lines, TRUE)
  BY <1>1, <1>4, <1>5, BlankRecords
<1>8. ReaderOf(more, n + 2) = NoReader
  <2>1. /\ Cardinality(DataLines(more, n + 2)) = 0
        /\ Data(more, n + 2) = <<>> /\ Type(more, n + 2) = Unset
    BY <1>1, <1>3, <1>4, <1>5, OpenAfterBlank
  <2> QED
    BY <2>1 DEF ReaderOf, NoReader
<1>9. Staged'
  BY <1>1, <1>2, <1>5, <1>6, <1>7, <1>8, DispatchSteps
<1>10. Negotiated'
  BY <1>2, NegotiationStays DEF ClientInv
<1> QED
  BY <1>9, <1>10 DEF ClientInv

LEMMA EndSteps ==
  ASSUME ClientInv, NEW accepted, EndOfStream(accepted)
  PROVE  ClientInv'
<1>1. /\ UNCHANGED <<interfaces, options, interface, call, heard, reply, lines>>
      /\ stage = "stream" /\ DispatchSseRecord(accepted, TRUE) /\ (reply.is = "event" => reader.data # <<>>)
  BY DEF EndOfStream
<1>2. IsLines(lines') /\ Records(lines', TRUE) = Records(lines, TRUE)
  BY <1>1, WhileStreaming
<1>3. Staged'
  BY <1>1, <1>2, DispatchSteps
<1>4. Negotiated'
  BY <1>1, NegotiationStays DEF ClientInv
<1> QED
  BY <1>3, <1>4 DEF ClientInv

LEMMA BreakSteps ==
  ASSUME ClientInv, StreamBreaks
  PROVE  ClientInv'
<1>1. /\ UNCHANGED <<interfaces, options, interface, call, heard, reply, lines, reader, delivered>>
      /\ stage = "stream" /\ stage' = "end" /\ outcome' = "transport"
  BY DEF StreamBreaks, Return
<1>2. delivered' = Records(lines', FALSE) /\ call.op \in Streams /\ Body /\ Refusing
  BY <1>1, WhileStreaming
<1>3. PICK opened : opened = Records(lines', TRUE)
  OBVIOUS
<1>4. StreamIsFaithful' /\ outcome' # "validation"
  BY <1>1, <1>2, <1>3, EndedFaithfully
<1>7. EndsAsRefused
  BY <1>1, <1>2 DEF Refusing, EndsAsRefused
<1>5. Staged'
  BY <1>1, <1>2, <1>4, <1>7, StreamEnds
<1>6. Negotiated'
  BY <1>1, NegotiationStays DEF ClientInv
<1> QED
  BY <1>5, <1>6 DEF ClientInv

LEMMA FieldSteps ==
  ASSUME ClientInv, NEW line \in Lines, FieldLine(line)
  PROVE  ClientInv'
<1>1. /\ UNCHANGED <<interfaces, options, interface, call, heard, reply, delivered>>
      /\ line.field # "blank" /\ stage = "stream" /\ lines' = Append(lines, line) /\ LineOf(reply, line)
  BY DEF FieldLine, Consume
<1>2. PICK n \in Nat : n = Len(lines)
  BY <1>1, WhileStreaming
<1>3. PICK more : more = Append(lines, line) /\ more = lines'
  BY <1>1
<1>4. /\ outcome = "none" /\ call.op \in Streams /\ IsLines(lines)
      /\ reader = ReaderOf(lines, n + 1) /\ delivered = Records(lines, FALSE) /\ AllParse(delivered)
      /\ Body /\ Refusing
  BY <1>1, <1>2, WhileStreaming
<1>5. PICK R : delivered \in Seq(R)
  BY <1>1, WhileStreaming
<1>6. IsLines(more) /\ Len(more) = n + 1 /\ Len(more) + 1 = n + 2
  <2>1. PICK ls : ls = lines
    OBVIOUS
  <2>2. IsLines(ls) /\ more = Append(ls, line) /\ n = Len(ls)
    BY <1>2, <1>3, <1>4, <2>1
  <2>3. IsLines(Append(ls, line)) /\ Len(Append(ls, line)) = Len(ls) + 1
    BY <2>2, OneMore
  <2> QED
    BY <2>2, <2>3
<1>7. Records(more, FALSE) = delivered
  BY <1>1, <1>3, <1>4, FieldRecords
<1>8. Negotiated'
  BY <1>1, NegotiationStays DEF ClientInv
<1>9. ASSUME UNCHANGED <<stage, outcome>>, reader' = ReaderOf(more, n + 2), Refusing' PROVE ClientInv'
  <2>1. Streaming'
    BY <1>1, <1>3, <1>4, <1>6, <1>7, <1>9 DEF Streaming
  <2>2. Staged'
    BY <1>1, <1>4, <1>9, <2>1, StreamGoesOn
  <2> QED
    BY <1>8, <2>2 DEF ClientInv
<1>12. reply.is \notin {"error", "version"} \/ line.field \notin {"data", "event"}
  BY <1>1 DEF LineOf
<1>10. CASE line.field = "data"
  <2>1. /\ DataLines(more, n + 2) = DataLines(lines, n + 1) \cup {n + 1}
        /\ Cardinality(DataLines(more, n + 2)) = Cardinality(DataLines(lines, n + 1)) + 1
        /\ Data(more, n + 2) = Append(Data(lines, n + 1), line.value)
        /\ Type(more, n + 2) = Type(lines, n + 1)
    <3>1. PICK ls : ls = lines
      OBVIOUS
    <3>2. /\ DataLines(Append(ls, line), n + 2) = DataLines(ls, n + 1) \cup {n + 1}
          /\ Cardinality(DataLines(Append(ls, line), n + 2)) = Cardinality(DataLines(ls, n + 1)) + 1
          /\ Data(Append(ls, line), n + 2) = Append(Data(ls, n + 1), line.value)
          /\ Type(Append(ls, line), n + 2) = Type(ls, n + 1)
      BY <1>2, <1>4, <1>10, <3>1, OpenAfterData
    <3> QED
      BY <1>3, <3>1, <3>2
  <2>2. CASE reader.bytes + 1 > MAX_SSE_EVENT_DATA_BYTES
    <3>1. stage' = "end" /\ outcome' = "protocol"
      BY <1>10, <2>2 DEF FieldLine, Return
    <3>2. PICK opened : opened = Records(more, TRUE)
      OBVIOUS
    <3>3. PICK m \in Nat : m = n + 1 /\ m + 1 = n + 2
      OBVIOUS
    <3>4. PICK e : e = Record(more, m + 1, Len(delivered) + 1)
      OBVIOUS
    <3>5. opened = Append(delivered, e)
      <4>1. DataLines(more, m + 1) # {}
        BY <2>1, <3>3
      <4> QED
        BY <1>6, <1>7, <3>2, <3>3, <3>4, <4>1, EndRecords
    <3>6. opened # <<>> /\ Last(opened) = e
      BY <1>5, <3>5, LastAppended
    <3>7. Len(e.data) > MAX_SSE_EVENT_DATA_BYTES
      <4>1. e.data = Data(more, m + 1)
        BY <3>4 DEF Record
      <4>2. Len(Data(more, m + 1)) = Cardinality(DataLines(more, m + 1))
        BY DataLength
      <4>3. reader.bytes = Cardinality(DataLines(lines, n + 1))
        BY <1>4 DEF ReaderOf
      <4> QED
        BY <2>1, <2>2, <3>3, <4>1, <4>2, <4>3
    <3>8. StreamIsFaithful' /\ outcome' # "validation"
      BY <1>1, <1>3, <3>1, <3>2, <3>5, <3>6, <3>7, EndedFaithfully
    <3>10. EndsAsRefused
      BY <1>1, <1>4, <1>10, <1>12, <3>1 DEF Refusing, EndsAsRefused
    <3>9. Staged'
      BY <1>1, <1>4, <3>1, <3>8, <3>10, StreamEnds
    <3> QED
      BY <1>8, <3>9 DEF ClientInv
  <2>3. CASE ~(reader.bytes + 1 > MAX_SSE_EVENT_DATA_BYTES)
    <3>1. /\ UNCHANGED <<stage, outcome>>
          /\ reader' = [reader EXCEPT !.data = Append(@, line.value), !.bytes = @ + 1]
      BY <1>10, <2>3 DEF FieldLine
    <3>2. reader' = ReaderOf(more, n + 2)
      BY <1>4, <2>1, <3>1 DEF ReaderOf
    <3>3. Refusing'
      <4>1. reply.is = "event" => line.value = Refusal /\ reader.data = <<>> /\ delivered = <<>>
        BY <1>1, <1>4, <1>10 DEF LineOf, Refusing
      <4>2. reader'.data = Append(reader.data, line.value)
        BY <1>4, <3>1 DEF ReaderOf
      <4>3. reply.is = "event" => reader'.data = <<Refusal>>
        <5>1. PICK v : v = Refusal
          OBVIOUS
        <5>2. Append(<<>>, v) = <<v>>
          OBVIOUS
        <5> QED
          BY <4>1, <4>2, <5>1, <5>2
      <4>4. Refusal' = Refusal
        BY <1>1 DEF Refusal
      <4> QED
        BY <1>1, <1>10, <1>12, <4>1, <4>3, <4>4 DEF Refusing
    <3> QED
      BY <1>9, <3>1, <3>2, <3>3
  <2> QED
    BY <2>2, <2>3
<1>11. CASE line.field \notin {"data", "blank"}
  <2>1. /\ DataLines(more, n + 2) = DataLines(lines, n + 1)
        /\ Data(more, n + 2) = Data(lines, n + 1)
        /\ Type(more, n + 2) = IF line.field = "event" THEN "kind" ELSE Type(lines, n + 1)
    BY <1>2, <1>3, <1>4, <1>11, OpenAfterOther
  <2>2. /\ UNCHANGED <<stage, outcome>>
        /\ reader' = IF line.field = "event" THEN [reader EXCEPT !.type = line.value] ELSE reader
    BY <1>11 DEF FieldLine
  <2>3. line.field = "event" => line.value = "kind"
    BY DEF Lines
  <2>4. reader' = ReaderOf(more, n + 2)
    BY <1>4, <2>1, <2>2, <2>3 DEF ReaderOf
  <2>5. Refusing'
    <3>1. reader'.data = reader.data
      BY <1>4, <2>2 DEF ReaderOf
    <3>2. Refusal' = Refusal
      BY <1>1 DEF Refusal
    <3> QED
      BY <1>1, <1>4, <3>1, <3>2 DEF Refusing
  <2> QED
    BY <1>9, <2>2, <2>4, <2>5
<1> QED
  BY <1>1, <1>10, <1>11

----------------------------------------------------------------------------
LEMMA ClientSteps ==
  ASSUME ClientInv, ClientNext
  PROVE  ClientInv'
<1>1. ASSUME NEW r, SendMessage(r) \/ StreamMessage(r) \/ SubscribeTask(r) PROVE ClientInv'
  BY <1>1, RequestSteps DEF SendMessage, StreamMessage, SubscribeTask
<1>2. ASSUME NEW r, NEW op, CallTask(op, r) \/ CallPush(op, r) PROVE ClientInv'
  BY <1>2, RequestSteps DEF CallTask, CallPush
<1>3. ASSUME NEW r \in HonestReplies \cup Spoiled,
             SendAnswered(r) \/ TaskAnswered(r) \/ PushAnswered(r) \/ StreamOpens(r)
      PROVE  ClientInv'
  <2>1. {"SendMessage"} \cap Streams = {} /\ TaskCalls \cap Streams = {} /\ PushCalls \cap Streams = {}
    BY DEF Streams, TaskCalls, PushCalls
  <2>2. CASE SendAnswered(r)
    BY <2>1, <2>2, AnswerSteps DEF SendAnswered
  <2>3. CASE TaskAnswered(r)
    BY <2>1, <2>3, AnswerSteps DEF TaskAnswered
  <2>4. CASE PushAnswered(r)
    BY <2>1, <2>4, AnswerSteps DEF PushAnswered
  <2>5. CASE StreamOpens(r)
    BY <1>3, <2>5, OpenSteps
  <2> QED
    BY <1>3, <2>2, <2>3, <2>4, <2>5
<1>4. CASE \/ \E raw \in RawCards : FetchCard(raw)
           \/ FetchLost \/ FetchNotModified
           \/ \E is \in {"junk", "version"} : FetchRefused(Reply(FALSE, FALSE, is))
  BY <1>4, CardSteps
<1>5. CASE \E o \in Options : Negotiate(o)
  BY <1>5, NegotiateSteps
<1>6. CASE \E v \in Verdicts : AgentHandles(v)
  BY <1>6, HandleSteps
<1>7. CASE ExchangeLost
  BY <1>7, LostSteps
<1>8. CASE \E accepted \in BOOLEAN : BlankLine(accepted) \/ EndOfStream(accepted)
  BY <1>8, BlankSteps, EndSteps
<1>9. CASE \E line \in Lines : FieldLine(line)
  BY <1>9, FieldSteps
<1>10. CASE StreamBreaks
  BY <1>10, BreakSteps
<1> QED
  BY <1>1, <1>2, <1>3, <1>4, <1>5, <1>6, <1>7, <1>8, <1>9, <1>10 DEF ClientNext

LEMMA ClientStutters ==
  ASSUME ClientInv, UNCHANGED clientVars
  PROVE  ClientInv'
<1>1. Negotiated'
  BY NegotiationStays DEF ClientInv, clientVars
<1>2. Staged'
  BY DEF clientVars, ClientInv, Staged, AtCard, AtNegotiate, AtCall, AtSent, AtHandled, AtStream, AtEnd,
         Uncalled, Agreed, Fresh, HeardCall, TenantOf, Streaming, Body, Refusing, Refusal,
         CallsAreReportedTruly, Unspoiled, SilentRefusal, LostAcknowledgement, StreamIsFaithful
<1> QED
  BY <1>1, <1>2 DEF ClientInv

\* The client tells its caller what the agent offered, did and sent: every
\* negotiated interface can be called and is the one liked best, outcomes
\* are those of the exchange, and a stream is delivered event by event.
THEOREM ClientFaithful == ClientSpec => []ClientIsFaithful
<1>1. ClientInit => ClientInv
  BY ClientInitOk
<1>2. ClientInv /\ [ClientNext]_clientVars => ClientInv'
  BY ClientSteps, ClientStutters
<1>3. ClientInv => ClientIsFaithful
  BY ClientFaithfulNow
<1> QED
  BY <1>1, <1>2, <1>3, PTL DEF ClientSpec

=============================================================================
