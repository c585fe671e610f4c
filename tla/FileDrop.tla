------------------------------ MODULE FileDrop ------------------------------
(* missive adapter file-drop: processes that poll one inbox, claim request *)
(* files by renaming them, run the command, archive the input and publish  *)
(* a result. The directories are shared and nothing locks them; a process  *)
(* may fail or die between any two of its steps.                           *)
EXTENDS Naturals, FiniteSets

CONSTANTS
  Droppers,          \* adapter processes
  Drops,             \* request files the producers write
  ReadyNames,        \* file names *.json, numbered in filename order; none is
                     \* another one with a suffix
  DraftNames,        \* temporary, hidden or partial names
  UNIQUE_ATTEMPTS,   \* suffixes tried before "too many collisions"
  MaxFiles,          \* values of --max-files (0: not given)
  Runs,              \* bound on the process starts
  NoDrop

ASSUME DropConstants ==
  /\ ReadyNames \subseteq Nat /\ IsFiniteSet(ReadyNames) /\ DraftNames \subseteq Nat
  /\ ReadyNames \cap DraftNames = {} /\ MaxFiles \subseteq Nat
  /\ UNIQUE_ATTEMPTS \in Nat /\ Runs \in Nat /\ NoDrop \notin Drops

VARIABLES
  inbox,     \* file name -> the request it holds
  content,   \* what each request's file says; "none" before it is written
  hidden,    \* requests under a hidden processing name
  archive,   \* directory -> (name, suffix) -> the request archived there
  outbox,    \* (name, result kind, suffix) -> the request answered there
  temps,     \* requests with a hidden temporary output
  dropper,   \* the state of each process
  executed,  \* how often each request's command was run
  crowded,   \* names two processes have worked on at once
  starts     \* process starts so far

dropVars == <<inbox, content, hidden, archive, outbox, temps, dropper, executed, crowded, starts>>

FileNames == ReadyNames \cup DraftNames
Tries == 0..UNIQUE_ATTEMPTS
Dirs == {"processed", "error"}

\* good: the command runs; failing: it runs and its error is wrapped in the
\* result; invalid: refused by the parser or the validators; unconvertible:
\* valid, but a state, source or job kind in it does not parse; binary: not
\* UTF-8.
Contents == {"good", "failing", "invalid", "unconvertible", "binary"}

Idle == [step |-> "off", watch |-> FALSE, max |-> 0, batch |-> {}, r |-> NoDrop, name |-> 0,
         ok |-> FALSE, out |-> 0, arch |-> 0, done |-> 0, succeeded |-> 0, failed |-> 0, wrote |-> {}]

Working == {"scan", "next", "claimed", "handled", "named", "placed", "archived", "written"}
Ended == {"off", "done", "failed", "dead"}

DropInit ==
  /\ inbox = [f \in FileNames |-> NoDrop]
  /\ content = [r \in Drops |-> "none"]
  /\ hidden = {} /\ temps = {} /\ crowded = {} /\ starts = 0
  /\ archive = [d \in Dirs |-> [x \in FileNames \X Tries |-> NoDrop]]
  /\ outbox = [x \in FileNames \X BOOLEAN \X Tries |-> NoDrop]
  /\ dropper = [p \in Droppers |-> Idle]
  /\ executed = [r \in Drops |-> 0]

----------------------------------------------------------------------------
(* The producer: writes under a temporary name, then renames. *)

WriteDraft(r, f, c) ==
  /\ content[r] = "none" /\ f \in DraftNames /\ inbox[f] = NoDrop
  /\ inbox' = [inbox EXCEPT ![f] = r] /\ content' = [content EXCEPT ![r] = c]
  /\ UNCHANGED <<hidden, archive, outbox, temps, dropper, executed, crowded, starts>>

HandOver(f, n) ==
  /\ f \in DraftNames /\ n \in ReadyNames /\ inbox[f] # NoDrop /\ inbox[n] = NoDrop
  /\ inbox' = [inbox EXCEPT ![n] = inbox[f], ![f] = NoDrop]
  /\ UNCHANGED <<content, hidden, archive, outbox, temps, dropper, executed, crowded, starts>>

----------------------------------------------------------------------------
(* One process. *)

\* is_ready_file_name: *.json, not hidden, not a backup, not .processing.
IsReady(f) == inbox[f] # NoDrop /\ f \in ReadyNames

\* Seeded fault of FreeSuffix: the first suffix is taken without a look.
FirstSuffix(taken, i) == i = 0

\* unique_path: the first suffix whose path does not exist; there is none when
\* every attempt is taken.
FreeSuffix(taken, i) == ~taken[i] /\ \A j \in Tries : j < i => taken[j]
NoSuffix(taken) == \A i \in Tries : taken[i]

Goto(p, step) == dropper' = [dropper EXCEPT ![p].step = step]

\* A run starts; --max-files 0 is refused, so 0 stands for no limit.
StartDropper(p) ==
  /\ dropper[p].step \in Ended /\ starts < Runs
  /\ \E watch \in BOOLEAN, max \in MaxFiles :
       dropper' = [dropper EXCEPT ![p] = [Idle EXCEPT !.step = "scan", !.watch = watch, !.max = max]]
  /\ starts' = starts + 1
  /\ UNCHANGED <<inbox, content, hidden, archive, outbox, temps, executed, crowded>>

\* ready_files in filename order, as many as --max-files still allows.
IsBatch(p, batch) ==
  LET ready == {f \in FileNames : IsReady(f)}
      left  == dropper[p].max - dropper[p].done
  IN /\ \A f \in batch, g \in ready \ batch : f < g
     /\ IF dropper[p].max > 0 /\ left < Cardinality(ready) THEN Cardinality(batch) = left ELSE batch = ready

Scan(p) ==
  /\ dropper[p].step = "scan"
  /\ \E batch \in SUBSET {f \in FileNames : IsReady(f)} :
       /\ IsBatch(p, batch)
       /\ dropper' = [dropper EXCEPT ![p].step = "next", ![p].batch = batch]
  /\ UNCHANGED <<inbox, content, hidden, archive, outbox, temps, executed, crowded, starts>>

\* The rename that claims a file.
Taken(f) == [inbox EXCEPT ![f] = NoDrop]

Handling(q) == dropper[q].step \in Working \ {"scan", "next"}

\* The files of a batch are handled in filename order.
IsFirst(f, batch) == f \in batch /\ \A g \in batch : f <= g

\* claim_ready_file. A file another process took first makes the rename fail
\* and ends the run.
Claim(p) ==
  /\ dropper[p].step = "next"
  /\ \E f \in FileNames :
       /\ IsFirst(f, dropper[p].batch)
       /\ IF inbox[f] = NoDrop
          THEN /\ Goto(p, "failed")
               /\ UNCHANGED <<inbox, hidden, crowded>>
          ELSE /\ inbox' = Taken(f)
               /\ hidden' = hidden \cup {inbox[f]}
               /\ dropper' = [dropper EXCEPT ![p].step = "claimed", ![p].r = inbox[f], ![p].name = f,
                                             ![p].batch = @ \ {f}]
               /\ crowded' = crowded \cup {n \in {f} : \E q \in Droppers \ {p} :
                                                         Handling(q) /\ dropper[q].name = n}
  /\ UNCHANGED <<content, archive, outbox, temps, executed, starts>>

\* A request whose command is run, by the stdio code or as a job command; and
\* one whose arguments cannot be converted for it.
Runnable(c) == c \in {"good", "failing", "unconvertible"}
Convertible(c) == c # "unconvertible"

\* Reading, parsing, validating and running the request. A command that fails
\* is a handled request; a file that is not text ends the run with the claim
\* left under its hidden name.
HandleFile(p) ==
  /\ dropper[p].step = "claimed"
  /\ LET c == content[dropper[p].r]
         runs == Runnable(c) /\ Convertible(c)
     IN /\ IF c = "binary" THEN Goto(p, "failed")
           ELSE dropper' = [dropper EXCEPT ![p].step = "handled", ![p].ok = runs]
        /\ executed' = IF runs THEN [executed EXCEPT ![dropper[p].r] = @ + 1] ELSE executed
  /\ UNCHANGED <<inbox, content, hidden, archive, outbox, temps, crowded, starts>>

\* output_path_for_claim: the result's name is chosen by looking, long before
\* the rename that takes it.
ChooseOutput(p) ==
  LET taken == [i \in Tries |-> outbox[<<dropper[p].name, dropper[p].ok, i>>] # NoDrop]
  IN /\ dropper[p].step = "handled"
     /\ \/ NoSuffix(taken) /\ Goto(p, "failed")
        \/ \E i \in Tries : /\ FreeSuffix(taken, i)
                             /\ dropper' = [dropper EXCEPT ![p].step = "named", ![p].out = i]
     /\ UNCHANGED <<inbox, content, hidden, archive, outbox, temps, executed, crowded, starts>>

ArchiveDir(p) == IF dropper[p].ok THEN "processed" ELSE "error"

ChooseArchive(p) ==
  LET taken == [i \in Tries |-> archive[ArchiveDir(p)][<<dropper[p].name, i>>] # NoDrop]
  IN /\ dropper[p].step = "named"
     /\ \/ NoSuffix(taken) /\ Goto(p, "failed")
        \/ \E i \in Tries : /\ FreeSuffix(taken, i)
                             /\ dropper' = [dropper EXCEPT ![p].step = "placed", ![p].arch = i]
     /\ UNCHANGED <<inbox, content, hidden, archive, outbox, temps, executed, crowded, starts>>

\* complete_claim's rename, which replaces whatever took the name meanwhile.
ArchiveFile(p) ==
  /\ dropper[p].step = "placed"
  /\ archive' = [archive EXCEPT ![ArchiveDir(p)][<<dropper[p].name, dropper[p].arch>>] = dropper[p].r]
  /\ hidden' = hidden \ {dropper[p].r}
  /\ Goto(p, "archived")
  /\ UNCHANGED <<inbox, content, outbox, temps, executed, crowded, starts>>

WriteTemp(p) ==
  /\ dropper[p].step = "archived"
  /\ temps' = temps \cup {dropper[p].r}
  /\ Goto(p, "written")
  /\ UNCHANGED <<inbox, content, hidden, archive, outbox, executed, crowded, starts>>

\* The result file: its kind is that of the outcome, under the stem of the
\* input's name.
ResultName(p) == <<dropper[p].name, dropper[p].ok, dropper[p].out>>

\* The run's counters after one more file.
Tally(d) == [d EXCEPT !.done = @ + 1, !.wrote = @ \cup {d.r},
                      !.succeeded = @ + (IF d.ok THEN 1 ELSE 0),
                      !.failed = @ + (IF d.ok THEN 0 ELSE 1)]

\* write_output_atomic's rename; the run then counts the file.
Publish(p) ==
  /\ dropper[p].step = "written"
  /\ outbox' = [outbox EXCEPT ![ResultName(p)] = dropper[p].r]
  /\ temps' = temps \ {dropper[p].r}
  /\ dropper' = [dropper EXCEPT ![p] = [Tally(@) EXCEPT !.step = "next"]]
  /\ UNCHANGED <<inbox, content, hidden, archive, executed, crowded, starts>>

\* Seeded fault of EndBatch: a watch run goes to sleep and scans no more.
EndBatchAsleep(p) ==
  /\ dropper[p].step = "next" /\ dropper[p].batch = {} /\ ~dropper[p].watch
  /\ Goto(p, "done")
  /\ UNCHANGED <<inbox, content, hidden, archive, outbox, temps, executed, crowded, starts>>

\* After a batch: once ends; so does a reached --max-files; a watch run may
\* meet its --timeout, else it sleeps and scans again.
EndBatch(p) ==
  /\ dropper[p].step = "next" /\ dropper[p].batch = {}
  /\ \/ Goto(p, "done")
     \/ /\ dropper[p].watch /\ ~(dropper[p].max > 0 /\ dropper[p].done >= dropper[p].max)
        /\ Goto(p, "scan")
  /\ UNCHANGED <<inbox, content, hidden, archive, outbox, temps, executed, crowded, starts>>

\* An I/O error ends the run (a failed publish removes its temporary file);
\* a process may also be killed.
Break(p) ==
  /\ dropper[p].step \in Working
  /\ \/ Goto(p, "failed")
        /\ temps' = IF dropper[p].step = "written" THEN temps \ {dropper[p].r} ELSE temps
     \/ Goto(p, "dead") /\ UNCHANGED temps
  /\ UNCHANGED <<inbox, content, hidden, archive, outbox, executed, crowded, starts>>

DropStep(p) ==
  \/ Scan(p) \/ Claim(p) \/ HandleFile(p) \/ ChooseOutput(p) \/ ChooseArchive(p)
  \/ ArchiveFile(p) \/ WriteTemp(p) \/ Publish(p) \/ EndBatch(p)

DropNext ==
  \/ \E r \in Drops, f \in DraftNames, c \in Contents : WriteDraft(r, f, c)
  \/ \E f \in DraftNames, n \in ReadyNames : HandOver(f, n)
  \/ \E p \in Droppers : DropStep(p) \/ StartDropper(p) \/ Break(p)

\* A run that is not blocked goes on.
DropFairness == \A p \in Droppers : WF_dropVars(DropStep(p))

DropSpec == DropInit /\ [][DropNext]_dropVars /\ DropFairness

----------------------------------------------------------------------------
(* Properties. *)

DropTypeOK ==
  /\ inbox \in [FileNames -> Drops \cup {NoDrop}]
  /\ content \in [Drops -> Contents \cup {"none"}]
  /\ hidden \subseteq Drops /\ temps \subseteq Drops /\ crowded \subseteq FileNames
  /\ \A p \in Droppers : dropper[p].step \in Working \cup Ended
  /\ executed \in [Drops -> Nat] /\ starts \in 0..Runs

Archived(r) == \E d \in Dirs, x \in FileNames \X Tries : archive[d][x] = r
Answers(r) == {x \in FileNames \X BOOLEAN \X Tries : outbox[x] = r}

\* A request's command is run at most once, whatever processes scan the same
\* inbox, die and are started again: the claiming rename has one winner and a
\* claimed file is never looked at again (claim_ready_file).
RunsOnce == \A r \in Drops : executed[r] <= 1

\* A file still being written under a temporary name is never claimed
\* (is_ready_file_name; the producer's half of the hand-over).
DraftsAreLeftAlone ==
  \A f \in DraftNames : \A p \in Droppers : Handling(p) => dropper[p].name # f

\* Unless two processes worked on one name at once, no input file is lost:
\* what was written is in the inbox, under its processing name or archived
\* (the suffix chosen by unique_path is still free when the rename takes it).
InputsAreKept ==
  \A r \in Drops : content[r] # "none" =>
    \/ \E f \in FileNames : inbox[f] = r
    \/ r \in hidden \/ Archived(r)
    \/ crowded # {}

\* Unless two processes worked on one name at once, a file a run counted has
\* exactly one answer in the outbox, of the kind the run reported, and its
\* input lies in the archive the answer names.
CountedIsAnswered ==
  crowded = {} => \A p \in Droppers : \A r \in dropper[p].wrote :
    /\ Cardinality(Answers(r)) = 1 /\ Archived(r)
    /\ \A x \in Answers(r) : x[2] <=> executed[r] = 1

\* A run that goes on or ended normally holds no claim: a request left under
\* a processing name was stranded by a run that failed or died.
FinishedRunsHoldNothing ==
  \A p \in Droppers : dropper[p].step \in {"scan", "next", "done"} => dropper[p].r \notin hidden

\* A run's report adds up and keeps to --max-files.
ReportAddsUp ==
  \A p \in Droppers :
    /\ dropper[p].done = dropper[p].succeeded + dropper[p].failed
    /\ dropper[p].done = Cardinality(dropper[p].wrote)
    /\ dropper[p].max > 0 => dropper[p].done <= dropper[p].max

\* While a watching run without a limit lives, a ready file is claimed.
WatchedIsClaimed ==
  \A p \in Droppers : \A n \in ReadyNames :
    (inbox[n] # NoDrop /\ dropper[p].step \in Working /\ dropper[p].watch /\ dropper[p].max = 0)
      ~> (inbox[n] = NoDrop \/ dropper[p].step \in Ended)

\* A request file is run at most once, and neither it nor its answer is lost,
\* overwritten or left behind by a run that ended well.
RequestsAreKept ==
  /\ DropTypeOK /\ RunsOnce /\ DraftsAreLeftAlone /\ InputsAreKept
  /\ CountedIsAnswered /\ FinishedRunsHoldNothing /\ ReportAddsUp
=============================================================================
